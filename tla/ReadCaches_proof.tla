--------------------------- MODULE ReadCaches_proof ---------------------------
(***************************************************************************)
(* Proofs about ReadCaches and the pages it is made of, for every value of *)
(* their constants.  First what a page of one snapshot is: the list, in a  *)
(* strict order, of what comes first of the posts that match; then what a  *)
(* page is of caches of any state; then the invariants of the caches and   *)
(* of the search that reads them, and the theorems that follow.            *)
(***************************************************************************)
EXTENDS ReadCaches, Queue_proof

-----------------------------------------------------------------------------
(* Filtering and offering, one entry of a list after the other             *)

\* The greatest of a set of numbers up to n + 1 that holds n + 1.
LEMMA MaxOfUpTo ==
  ASSUME NEW n \in Nat, NEW D \in SUBSET (1 .. n + 1), n + 1 \in D
  PROVE  Max(D) = n + 1
<1>1. \A x \in D : x \in Int /\ x <= n + 1
  OBVIOUS
<1>2. \A x \in D : (\A y \in D : x >= y) <=> x = n + 1
  BY <1>1
<1> QED
  BY <1>2 DEF Max

\* The greatest of a bounded set of naturals is one of them, and no smaller than the others.
LEMMA MaxIsIn ==
  ASSUME NEW D \in SUBSET Nat, D # {}, NEW n \in Nat, \A x \in D : x <= n
  PROVE  Max(D) \in D /\ \A y \in D : y <= Max(D)
<1> DEFINE T == {k \in Nat : n - k \in D}
<1>1. T # {} /\ T \in SUBSET Nat
  <2>1. PICK x \in D : TRUE
    OBVIOUS
  <2>2. n - x \in Nat /\ n - (n - x) = x
    OBVIOUS
  <2> QED
    BY <2>2
<1>2. PICK k \in T : \A m \in T : k <= m
  BY <1>1, NatMin
<1>3. ASSUME NEW y \in D PROVE y <= n - k
  <2>1. n - y \in T
    <3>1. n - y \in Nat /\ n - (n - y) = y
      OBVIOUS
    <3> QED
      BY <3>1
  <2> QED
    BY <1>2, <2>1
<1>4. n - k \in D /\ \A y \in D : n - k >= y
  BY <1>2, <1>3
<1> QED
  BY <1>4 DEF Max

\* The recursion of the library's fold over the places of a sequence.
IsFold(f, s, base, op) ==
    \A D \in SUBSET DOMAIN s :
        f[D] = IF D = {} THEN base ELSE op[<<f[D \ {Max(D)}], s[Max(D)]>>]

\* A fold of a list has a value at every set of its places: one that takes the last
\* place of the set after the others.
LEMMA FoldExists ==
  ASSUME NEW X, NEW S, NEW s \in Seq(S), NEW base \in X, NEW op \in [X \X S -> X]
  PROVE  \E f \in [SUBSET DOMAIN s -> X] : IsFold(f, s, base, op)
<1> DEFINE Ok(n, f) ==
             /\ f \in [SUBSET (1 .. n) -> X]
             /\ \A D \in SUBSET (1 .. n) :
                  f[D] = IF D = {} THEN base ELSE op[<<f[D \ {Max(D)}], s[Max(D)]>>]
           T == {n \in 0 .. Len(s) : ~ \E f : Ok(n, f)}
<1>1. Len(s) \in Nat /\ DOMAIN s = 1 .. Len(s) /\ \A i \in DOMAIN s : s[i] \in S
  OBVIOUS
<1>2. \E f : Ok(0, f)
  <2> DEFINE f == [D \in {{}} |-> base]
  <2>1. SUBSET (1 .. 0) = {{}}
    OBVIOUS
  <2>2. Ok(0, f)
    BY <2>1
  <2> QED
    BY <2>2
<1>3. ASSUME NEW n \in Nat, n + 1 <= Len(s), NEW f, Ok(n, f)
      PROVE  \E g : Ok(n + 1, g)
  <2> DEFINE g == [D \in SUBSET (1 .. n + 1) |->
                     IF n + 1 \in D THEN op[<<f[D \ {n + 1}], s[n + 1]>>] ELSE f[D]]
  <2>1. \A D \in SUBSET (1 .. n + 1) :
           /\ n + 1 \notin D => D \in SUBSET (1 .. n)
           /\ D \ {n + 1} \in SUBSET (1 .. n)
    OBVIOUS
  <2>2. \A D \in SUBSET (1 .. n) : n + 1 \notin D /\ D \in SUBSET (1 .. n + 1) /\ g[D] = f[D]
    OBVIOUS
  <2>3. s[n + 1] \in S
    BY <1>1, <1>3
  <2>4. g \in [SUBSET (1 .. n + 1) -> X]
    <3> SUFFICES ASSUME NEW D \in SUBSET (1 .. n + 1) PROVE g[D] \in X
      OBVIOUS
    <3>1. CASE n + 1 \in D
      <4>1. f[D \ {n + 1}] \in X
        BY <2>1, <1>3
      <4> QED
        BY <4>1, <2>3, <3>1
    <3>2. CASE n + 1 \notin D
      BY <2>1, <1>3, <3>2
    <3> QED
      BY <3>1, <3>2
  <2>5. ASSUME NEW D \in SUBSET (1 .. n + 1)
        PROVE  g[D] = IF D = {} THEN base ELSE op[<<g[D \ {Max(D)}], s[Max(D)]>>]
    <3>1. CASE n + 1 \in D
      <4>1. Max(D) = n + 1 /\ D # {}
        BY <3>1, MaxOfUpTo
      <4>2. D \ {n + 1} \in SUBSET (1 .. n) /\ g[D \ {n + 1}] = f[D \ {n + 1}]
        BY <2>1, <2>2
      <4>3. g[D] = op[<<f[D \ {n + 1}], s[n + 1]>>]
        BY <3>1
      <4> QED
        BY <4>1, <4>2, <4>3
    <3>2. CASE n + 1 \notin D
      <4>1. D \in SUBSET (1 .. n) /\ D \ {Max(D)} \in SUBSET (1 .. n)
        BY <2>1, <3>2
      <4>2. g[D] = f[D] /\ g[D \ {Max(D)}] = f[D \ {Max(D)}]
        BY <2>2, <4>1
      <4>3. f[D] = IF D = {} THEN base ELSE op[<<f[D \ {Max(D)}], s[Max(D)]>>]
        BY <4>1, <1>3
      <4> QED
        BY <4>2, <4>3
    <3> QED
      BY <3>1, <3>2
  <2> HIDE DEF g
  <2>6. Ok(n + 1, g)
    BY <2>4, <2>5
  <2> QED
    BY <2>6
<1> HIDE DEF Ok
<1>4. T = {}
  <2> SUFFICES ASSUME T # {} PROVE FALSE
    OBVIOUS
  <2>1. PICK n \in T : \A m \in T : n <= m
    <3>1. T \in SUBSET Nat
      BY <1>1
    <3> HIDE DEF T
    <3> QED
      BY <3>1, NatMin
  <2>2. n \in 0 .. Len(s) /\ ~ \E f : Ok(n, f)
    OBVIOUS
  <2>3. n # 0
    BY <1>2, <2>2
  <2>4. PICK k \in Nat : n = k + 1
    BY <1>1, <2>2, <2>3
  <2>5. k \in 0 .. Len(s) /\ k \notin T
    <3>1. k \in 0 .. Len(s) /\ ~(n <= k)
      BY <1>1, <2>2, <2>4
    <3> HIDE DEF T
    <3> QED
      BY <2>1, <3>1
  <2>6. PICK f : Ok(k, f)
    BY <2>5
  <2>7. \E g : Ok(k + 1, g)
    BY <1>1, <1>3, <2>2, <2>4, <2>6
  <2> QED
    BY <2>2, <2>4, <2>7
<1>5. PICK f : Ok(Len(s), f)
  BY <1>1, <1>4
<1>6. /\ f \in [SUBSET DOMAIN s -> X]
      /\ \A D \in SUBSET DOMAIN s :
           f[D] = IF D = {} THEN base ELSE op[<<f[D \ {Max(D)}], s[Max(D)]>>]
  BY <1>1, <1>5 DEF Ok
<1> QED
  BY <1>6 DEF IsFold

\* Among, one entry of the list after the other.
AmongSteps(F, s, T) ==
    /\ F[0] = <<>> /\ F[Len(s)] = Among(s, T)
    /\ \A k \in 1 .. Len(s) :
         F[k] = IF s[k] \in T THEN Append(F[k - 1], s[k]) ELSE F[k - 1]

\* The fold that Among is keeps what it has, or appends the next entry.
LEMMA AmongUnfolds ==
  ASSUME NEW S, NEW s \in Seq(S), NEW T
  PROVE  \E F : AmongSteps(F, s, T)
<1> DEFINE Eq(f) == f = [D \in SUBSET DOMAIN s |->
                           IF D = {} THEN <<>>
                           ELSE IF s[Max(D)] \in T THEN Append(f[D \ {Max(D)}], s[Max(D)])
                                ELSE f[D \ {Max(D)}]]
           it == CHOOSE f : Eq(f)
           X == Seq(S)
           op == [xp \in X \X S |-> IF xp[2] \in T THEN Append(xp[1], xp[2]) ELSE xp[1]]
<1>1. Among(s, T) = it[DOMAIN s]
  BY DEF Among, FoldLeft, MapThenFoldSet
<1>2. op \in [X \X S -> X] /\ <<>> \in X
  OBVIOUS
<1> HIDE DEF op, X
<1>3. PICK f \in [SUBSET DOMAIN s -> X] : IsFold(f, s, <<>>, op)
  BY <1>2, FoldExists
<1>4. ASSUME NEW D \in SUBSET DOMAIN s, D # {}
      PROVE  f[D] = IF s[Max(D)] \in T THEN Append(f[D \ {Max(D)}], s[Max(D)]) ELSE f[D \ {Max(D)}]
  <2>1. f[D \ {Max(D)}] \in X
    BY <1>3
  <2>2. DOMAIN s = 1 .. Len(s) /\ Len(s) \in Nat
    OBVIOUS
  <2>3. Max(D) \in DOMAIN s
    <3>1. D \in SUBSET Nat /\ \A x \in D : x <= Len(s)
      BY <2>2
    <3> QED
      BY <1>4, <2>2, <3>1, MaxIsIn
  <2>4. s[Max(D)] \in S
    BY <2>3
  <2> QED
    BY <2>1, <2>4, <1>3, <1>4 DEF op, X, IsFold
<1>5. Eq(f)
  <2>1. f[{}] = <<>>
    BY <1>3 DEF IsFold
  <2> QED
    BY <2>1, <1>4
<1>6. Eq(it)
  BY <1>5
<1> HIDE DEF it
<1>7. \A D \in SUBSET DOMAIN s :
         it[D] = IF D = {} THEN <<>>
                 ELSE IF s[Max(D)] \in T THEN Append(it[D \ {Max(D)}], s[Max(D)])
                      ELSE it[D \ {Max(D)}]
  BY <1>6
<1> DEFINE F == [k \in 0 .. Len(s) |-> it[1 .. k]]
<1>8. Len(s) \in Nat /\ DOMAIN s = 1 .. Len(s)
  OBVIOUS
<1>9. F[0] = <<>>
  <2>1. 1 .. 0 = {} /\ F[0] = it[1 .. 0]
    BY <1>8
  <2> QED
    BY <2>1, <1>7
<1>10. F[Len(s)] = Among(s, T)
  BY <1>1, <1>8
<1>11. ASSUME NEW k \in 1 .. Len(s)
       PROVE  F[k] = IF s[k] \in T THEN Append(F[k - 1], s[k]) ELSE F[k - 1]
  <2>1. 1 .. k \in SUBSET DOMAIN s /\ k \in 1 .. k /\ (1 .. k) \ {k} = 1 .. k - 1
    BY <1>8
  <2>2. Max(1 .. k) = k
    <3>1. PICK n \in Nat : k = n + 1
      BY <1>8
    <3> QED
      BY <3>1, MaxOfUpTo
  <2>3. F[k] = it[1 .. k] /\ F[k - 1] = it[1 .. k - 1]
    BY <1>8
  <2>4. 1 .. k # {}
    BY <2>1
  <2> HIDE DEF F
  <2>5. it[1 .. k] = IF s[k] \in T THEN Append(it[1 .. k - 1], s[k]) ELSE it[1 .. k - 1]
    BY ONLY <1>7, <2>1, <2>2, <2>4
  <2> QED
    BY <2>3, <2>5
<1> HIDE DEF F
<1> QED
  BY <1>9, <1>10, <1>11 DEF AmongSteps

\* Offered, one entry of the list after the other.
OfferedSteps(F, page, s, limit) ==
    /\ F[0] = page /\ F[Len(s)] = Offered(page, s, limit)
    /\ \A k \in 1 .. Len(s) :
         F[k] = IF Len(F[k - 1]) < limit /\ RootOf[s[k]] \notin Roots(F[k - 1])
                THEN Append(F[k - 1], s[k]) ELSE F[k - 1]

\* The fold that Offered is lets in the next entry when the page has room and nothing of
\* its family.
LEMMA OfferedUnfolds ==
  ASSUME NEW S, NEW page \in Seq(S), NEW s \in Seq(S), NEW limit
  PROVE  \E F : OfferedSteps(F, page, s, limit)
<1> DEFINE Eq(f) == f = [D \in SUBSET DOMAIN s |->
                           IF D = {} THEN page
                           ELSE IF /\ Len(f[D \ {Max(D)}]) < limit
                                   /\ RootOf[s[Max(D)]] \notin Roots(f[D \ {Max(D)}])
                                THEN Append(f[D \ {Max(D)}], s[Max(D)])
                                ELSE f[D \ {Max(D)}]]
           it == CHOOSE f : Eq(f)
           X == Seq(S)
           op == [xp \in X \X S |->
                    IF Len(xp[1]) < limit /\ RootOf[xp[2]] \notin Roots(xp[1])
                    THEN Append(xp[1], xp[2]) ELSE xp[1]]
<1>1. Offered(page, s, limit) = it[DOMAIN s]
  BY DEF Offered, FoldLeft, MapThenFoldSet
<1>2. op \in [X \X S -> X] /\ page \in X
  OBVIOUS
<1> HIDE DEF op, X
<1>3. PICK f \in [SUBSET DOMAIN s -> X] : IsFold(f, s, page, op)
  BY <1>2, FoldExists
<1>4. ASSUME NEW D \in SUBSET DOMAIN s, D # {}
      PROVE  f[D] = IF /\ Len(f[D \ {Max(D)}]) < limit
                       /\ RootOf[s[Max(D)]] \notin Roots(f[D \ {Max(D)}])
                    THEN Append(f[D \ {Max(D)}], s[Max(D)]) ELSE f[D \ {Max(D)}]
  <2>1. f[D \ {Max(D)}] \in X
    BY <1>3
  <2>2. DOMAIN s = 1 .. Len(s) /\ Len(s) \in Nat
    OBVIOUS
  <2>3. Max(D) \in DOMAIN s
    <3>1. D \in SUBSET Nat /\ \A x \in D : x <= Len(s)
      BY <2>2
    <3> QED
      BY <1>4, <2>2, <3>1, MaxIsIn
  <2>4. s[Max(D)] \in S
    BY <2>3
  <2>5. f[D] = op[<<f[D \ {Max(D)}], s[Max(D)]>>]
    BY <1>3, <1>4 DEF IsFold
  <2> QED
    BY <2>1, <2>4, <2>5 DEF op, X
<1>5. Eq(f)
  <2>1. f[{}] = page
    BY <1>3 DEF IsFold
  <2> QED
    BY <2>1, <1>4
<1>6. Eq(it)
  BY <1>5
<1> HIDE DEF it
<1>7. \A D \in SUBSET DOMAIN s :
         it[D] = IF D = {} THEN page
                 ELSE IF /\ Len(it[D \ {Max(D)}]) < limit
                         /\ RootOf[s[Max(D)]] \notin Roots(it[D \ {Max(D)}])
                      THEN Append(it[D \ {Max(D)}], s[Max(D)])
                      ELSE it[D \ {Max(D)}]
  BY <1>6
<1> DEFINE F == [k \in 0 .. Len(s) |-> it[1 .. k]]
<1>8. Len(s) \in Nat /\ DOMAIN s = 1 .. Len(s)
  OBVIOUS
<1>9. F[0] = page
  <2>1. 1 .. 0 = {} /\ F[0] = it[1 .. 0]
    BY <1>8
  <2> QED
    BY <2>1, <1>7
<1>10. F[Len(s)] = Offered(page, s, limit)
  BY <1>1, <1>8
<1>11. ASSUME NEW k \in 1 .. Len(s)
       PROVE  F[k] = IF Len(F[k - 1]) < limit /\ RootOf[s[k]] \notin Roots(F[k - 1])
                     THEN Append(F[k - 1], s[k]) ELSE F[k - 1]
  <2>1. 1 .. k \in SUBSET DOMAIN s /\ k \in 1 .. k /\ (1 .. k) \ {k} = 1 .. k - 1
    BY <1>8
  <2>2. Max(1 .. k) = k
    <3>1. PICK n \in Nat : k = n + 1
      BY <1>8
    <3> QED
      BY <3>1, MaxOfUpTo
  <2>3. F[k] = it[1 .. k] /\ F[k - 1] = it[1 .. k - 1]
    BY <1>8
  <2>4. 1 .. k # {}
    BY <2>1
  <2> HIDE DEF F
  <2> QED
    BY <1>7, <2>1, <2>2, <2>3, <2>4
<1> HIDE DEF F
<1> QED
  BY <1>9, <1>10, <1>11 DEF OfferedSteps

-----------------------------------------------------------------------------
(* Parts of a set in its order, and the leads of its families              *)

\* Among keeps the order of the list it filters: it lists the part of the set that is let in.
LEMMA AmongLists ==
  ASSUME NEW S, NEW R, NEW s, Lists(s, S, R), NEW T
  PROVE  Lists(Among(s, T), S \cap T, R)
<1>1. /\ Len(s) \in Nat /\ s \in Seq(S)
      /\ \A i \in 1 .. Len(s) : s[i] \in S
      /\ \A p \in S : \E i \in 1 .. Len(s) : s[i] = p
      /\ \A i, j \in 1 .. Len(s) : i < j => <<s[i], s[j]>> \in R
  BY ListsHas
<1>2. PICK F : AmongSteps(F, s, T)
  BY <1>1, AmongUnfolds
<1> DEFINE U(k) == {s[i] : i \in 1 .. k} \cap T
           Good == {k \in 0 .. Len(s) : Lists(F[k], U(k), R)}
<1>3. U(0) = {} /\ U(Len(s)) = S \cap T
  BY ListedSoFar
<1>4. ASSUME NEW k \in 1 .. Len(s)
      PROVE  /\ k - 1 \in 0 .. Len(s)
             /\ \A p \in U(k - 1) : <<p, s[k]>> \in R
             /\ U(k) = IF s[k] \in T THEN U(k - 1) \cup {s[k]} ELSE U(k - 1)
  <2>1. 1 .. k = (1 .. k - 1) \cup {k} /\ k - 1 \in 0 .. Len(s)
    BY <1>1, OneMore
  <2>2. ASSUME NEW p \in U(k - 1) PROVE <<p, s[k]>> \in R
    <3>1. PICK i \in 1 .. k - 1 : p = s[i]
      OBVIOUS
    <3>2. Len(s) \in Nat /\ k \in 1 .. Len(s) /\ i \in 1 .. k - 1
      BY <1>1
    <3>3. i \in 1 .. Len(s) /\ i < k
      BY ONLY <3>2
    <3> QED
      BY <1>1, <3>1, <3>3
  <2>3. U(k) = IF s[k] \in T THEN U(k - 1) \cup {s[k]} ELSE U(k - 1)
    BY <2>1
  <2> QED
    BY <2>1, <2>2, <2>3
<1> HIDE DEF U
<1>5. 0 \in Good
  <2>1. F[0] = <<>> /\ 0 \in 0 .. Len(s)
    BY <1>1, <1>2 DEF AmongSteps
  <2>2. Lists(F[0], U(0), R)
    BY <1>3, <2>1, EmptyLists
  <2> QED
    BY <2>1, <2>2
<1>6. ASSUME NEW k \in 1 .. Len(s), k - 1 \in Good PROVE k \in Good
  <2>1. Lists(F[k - 1], U(k - 1), R)
    BY <1>6
  <2>2. F[k] = IF s[k] \in T THEN Append(F[k - 1], s[k]) ELSE F[k - 1]
    BY <1>2 DEF AmongSteps
  <2>3. Lists(F[k], U(k), R)
    BY <1>4, <2>1, <2>2, ListsAppend
  <2> QED
    BY <1>1, <2>3
<1>7. Good \in SUBSET (0 .. Len(s)) /\ Len(s) \in 0 .. Len(s)
  BY <1>1
<1>8. Len(s) \in Good
  <2> HIDE DEF Good
  <2> QED
    BY <1>1, <1>5, <1>6, <1>7, UpTo
<1> QED
  BY <1>2, <1>3, <1>8 DEF AmongSteps

\* The posts of a set that no other of their family comes before: those a page of families
\* shows.
Leads(M, R) == {p \in M : \A q \in M : <<q, p>> \in R => RootOf[q] # RootOf[p]}

\* A page of families that has dealt with a part of a set: it lists the leads in that part.
Covers(page, D, M, R) == DownIn(D, M, R) /\ Lists(page, Leads(M, R) \cap D, R)

\* A page that shows, in order, the first n of a set, or all of it when it has fewer.
Shows(s, M, R, n) ==
    /\ Len(s) <= n
    /\ \E U : DownIn(U, M, R) /\ Lists(s, U, R) /\ (Len(s) = n \/ U = M)

\* The first of a set, in its order.
LEMMA FirstOf ==
  ASSUME NEW M, IsFiniteSet(M), NEW R, StrictOrder(R, M), NEW G \in SUBSET M, G # {}
  PROVE  \E p \in G : \A q \in G : q = p \/ <<p, q>> \in R
<1> DEFINE t == Ranked(G, R)
<1>1. Lists(t, G, R)
  <2>1. IsFiniteSet(G) /\ StrictOrder(R, G)
    BY FS_Subset, OrderOfPart
  <2> QED
    BY <2>1, RankedLists
<1> HIDE DEF t
<1>2. /\ Len(t) \in Nat
      /\ \A i \in 1 .. Len(t) : t[i] \in G
      /\ \A p \in G : \E i \in 1 .. Len(t) : t[i] = p
      /\ \A i, j \in 1 .. Len(t) : i < j => <<t[i], t[j]>> \in R
  BY <1>1, ListsHas
<1>3. 1 \in 1 .. Len(t)
  BY <1>2
<1>4. ASSUME NEW q \in G PROVE q = t[1] \/ <<t[1], q>> \in R
  <2>1. PICK i \in 1 .. Len(t) : t[i] = q
    BY <1>2
  <2>2. i = 1 \/ 1 < i
    BY <1>2
  <2> QED
    BY <1>2, <1>3, <2>1, <2>2
<1> QED
  BY <1>2, <1>3, <1>4

\* Every post of a finite set has a lead of its family in it, no later than itself.
LEMMA LeadOf ==
  ASSUME NEW M, IsFiniteSet(M), NEW R, StrictOrder(R, M), NEW p \in M
  PROVE  \E q \in Leads(M, R) : RootOf[q] = RootOf[p] /\ (q = p \/ <<q, p>> \in R)
<1> DEFINE G == {q \in M : RootOf[q] = RootOf[p]}
<1>1. PICK q \in G : \A r \in G : r = q \/ <<q, r>> \in R
  <2>1. G \in SUBSET M /\ p \in G
    OBVIOUS
  <2> HIDE DEF G
  <2> QED
    BY <2>1, FirstOf
<1>2. \A r, t \in M : ~(<<r, t>> \in R /\ <<t, r>> \in R)
  BY DEF StrictOrder
<1>3. q \in Leads(M, R)
  BY <1>1, <1>2 DEF Leads, StrictOrder
<1> QED
  BY <1>1, <1>3

\* The families of a page are those of the posts it lists.
LEMMA RootsOfListed ==
  ASSUME NEW U, NEW R, NEW s, Lists(s, U, R)
  PROVE  Roots(s) = {RootOf[p] : p \in U}
<1>1. ToSet(s) = U
  BY DEF Lists, ToSet
<1> QED
  BY <1>1 DEF Roots

\* Offering the next post of a set to a page of families: the page covers it too, having
\* let it in as a lead or left it out for the family it shows already.
LEMMA OfferCovers ==
  ASSUME NEW M, IsFiniteSet(M), NEW R, StrictOrder(R, M), NEW D, NEW page,
         Covers(page, D, M, R), NEW p \in M, \A q \in M : <<q, p>> \in R => q \in D
  PROVE  /\ RootOf[p] \in Roots(page) => Covers(page, D \cup {p}, M, R)
         /\ RootOf[p] \notin Roots(page) =>
              /\ Covers(Append(page, p), D \cup {p}, M, R)
              /\ Len(Append(page, p)) = Len(page) + 1
<1> DEFINE L == Leads(M, R)
<1>1. /\ D \subseteq M /\ \A u \in D, q \in M : <<q, u>> \in R => q \in D
      /\ Lists(page, L \cap D, R)
  BY DEF Covers, DownIn
<1>2. /\ \A u \in M : <<u, u>> \notin R
      /\ \A u, v \in M : u = v \/ <<u, v>> \in R \/ <<v, u>> \in R
  BY DEF StrictOrder
<1>3. DownIn(D \cup {p}, M, R)
  BY <1>1 DEF DownIn
<1>4. \A u \in D : u = p \/ p \in D \/ <<u, p>> \in R
  BY <1>1, <1>2
<1>5. /\ L \subseteq M
      /\ \A u \in L, q \in M : <<q, u>> \in R => RootOf[q] # RootOf[u]
      /\ \A u \in M : (\A q \in M : <<q, u>> \in R => RootOf[q] # RootOf[u]) => u \in L
  BY DEF Leads
<1>6. RootOf[p] \in Roots(page) <=> \E u \in L \cap D : RootOf[u] = RootOf[p]
  <2>1. Roots(page) = {RootOf[u] : u \in L \cap D}
    BY <1>1, RootsOfListed
  <2> QED
    BY <2>1
<1>7. ASSUME NEW q \in D PROVE \E u \in L \cap D : RootOf[u] = RootOf[q]
  <2>1. PICK u \in L : RootOf[u] = RootOf[q] /\ (u = q \/ <<u, q>> \in R)
    BY <1>1, LeadOf
  <2> QED
    BY <1>1, <1>5, <2>1
<1> HIDE DEF L
<1>8. CASE RootOf[p] \in Roots(page)
  <2>1. PICK u \in L \cap D : RootOf[u] = RootOf[p]
    BY <1>6, <1>8
  <2>2. p \in D \/ p \notin L
    BY <1>4, <1>5, <2>1
  <2>3. L \cap (D \cup {p}) = L \cap D
    BY <2>2
  <2> QED
    BY <1>1, <1>3, <1>8, <2>3 DEF Covers, L
<1>9. CASE RootOf[p] \notin Roots(page)
  <2>1. p \notin D
    BY <1>6, <1>7, <1>9
  <2>2. p \in L
    BY <1>5, <1>6, <1>7, <1>9
  <2>3. L \cap (D \cup {p}) = (L \cap D) \cup {p}
    BY <2>2
  <2>4. \A u \in L \cap D : <<u, p>> \in R
    BY <1>4, <2>1
  <2>5. Lists(Append(page, p), (L \cap D) \cup {p}, R) /\ Len(Append(page, p)) = Len(page) + 1
    BY <1>1, <2>4, ListsAppend
  <2> QED
    BY <1>3, <1>9, <2>3, <2>5 DEF Covers, L
<1> QED
  BY <1>8, <1>9

\* Offering a whole list: the page covers the list too, unless it fills up on the way.
LEMMA OfferedCovers ==
  ASSUME NEW M, IsFiniteSet(M), NEW R, StrictOrder(R, M), NEW D, NEW page,
         Covers(page, D, M, R), NEW limit \in Nat, Len(page) <= limit,
         NEW S, NEW s, Lists(s, S, R), DownIn(D \cup S, M, R)
  PROVE  LET o == Offered(page, s, limit) IN
         /\ Len(o) <= limit
         /\ \E E : Covers(o, E, M, R) /\ (Len(o) = limit \/ E = D \cup S)
<1>1. /\ Len(s) \in Nat /\ s \in Seq(S)
      /\ \A i \in 1 .. Len(s) : s[i] \in S
      /\ \A p \in S : \E i \in 1 .. Len(s) : s[i] = p
      /\ \A i, j \in 1 .. Len(s) : i < j => <<s[i], s[j]>> \in R
  <2>1. Lists(s, S, R)
    OBVIOUS
  <2> QED
    BY ONLY <2>1, ListsHas
<1>2. D \subseteq M /\ S \subseteq M /\ page \in Seq(M) /\ s \in Seq(M)
  <2>1. D \cup S \subseteq M
    BY DEF DownIn
  <2>2. page \in Seq(Leads(M, R) \cap D)
    BY DEF Covers, Lists
  <2>3. Leads(M, R) \cap D \subseteq M
    BY <2>1
  <2> QED
    BY <1>1, <2>1, <2>2, <2>3
<1>3. PICK F : OfferedSteps(F, page, s, limit)
  BY <1>2, OfferedUnfolds
<1> DEFINE U(k) == D \cup {s[i] : i \in 1 .. k}
           Fine(f, k) == /\ Len(f) <= limit
                         /\ \E E : Covers(f, E, M, R) /\ (Len(f) = limit \/ E = U(k))
           Good == {k \in 0 .. Len(s) : Fine(F[k], k)}
<1>4. U(0) = D /\ U(Len(s)) = D \cup S
  BY ListedSoFar
<1>5. ASSUME NEW k \in 1 .. Len(s)
      PROVE  /\ k - 1 \in 0 .. Len(s)
             /\ \A q \in M : <<q, s[k]>> \in R => q \in U(k - 1)
             /\ U(k) = U(k - 1) \cup {s[k]}
  <2>1. 1 .. k = (1 .. k - 1) \cup {k} /\ k - 1 \in 0 .. Len(s)
    BY <1>1, OneMore
  <2>2. ASSUME NEW q \in M, <<q, s[k]>> \in R PROVE q \in U(k - 1)
    <3>1. q \in D \cup S
      BY <1>1, <2>2 DEF DownIn
    <3>2. CASE q \in S
      <4>1. PICK i \in 1 .. Len(s) : s[i] = q
        BY <1>1, <3>2
      <4>2. ~(k <= i)
        <5>1. s[k] \in M /\ s[k] = s[k] /\ q \in M
          BY <1>1, <1>2
        <5>2. ~(<<s[k], q>> \in R) /\ s[k] # q
          BY <2>2, <5>1 DEF StrictOrder
        <5>3. k \in 1 .. Len(s) /\ i \in 1 .. Len(s)
          OBVIOUS
        <5>4. k # i /\ ~(k < i)
          BY <1>1, <4>1, <5>2, <5>3
        <5>5. k \in Int /\ i \in Int
          BY <5>3
        <5> QED
          BY <5>4, <5>5
      <4>3. i \in 1 .. k - 1
        BY <1>1, <4>2
      <4> QED
        BY <4>1, <4>3
    <3> QED
      BY <3>1, <3>2
  <2> QED
    BY <2>1, <2>2
<1> HIDE DEF U
<1>6. 0 \in Good
  <2>1. F[0] = page /\ 0 \in 0 .. Len(s)
    BY <1>1, <1>3 DEF OfferedSteps
  <2>2. Fine(F[0], 0)
    BY <1>4, <2>1
  <2> QED
    BY <2>1, <2>2
<1>7. ASSUME NEW k \in 1 .. Len(s), k - 1 \in Good PROVE k \in Good
  <2> DEFINE f == F[k - 1]
  <2>1. Fine(f, k - 1)
    BY <1>7
  <2>2. F[k] = IF Len(f) < limit /\ RootOf[s[k]] \notin Roots(f) THEN Append(f, s[k]) ELSE f
    BY <1>3 DEF OfferedSteps
  <2> HIDE DEF f
  <2>3. PICK E : Covers(f, E, M, R) /\ (Len(f) = limit \/ E = U(k - 1))
    BY <2>1
  <2>4. Len(f) \in Nat
    BY <2>3, ListsHas DEF Covers
  <2>5. Fine(F[k], k)
    <3>1. CASE Len(f) = limit
      BY <2>2, <2>3, <2>4, <3>1
    <3>2. CASE Len(f) < limit
      <4>1. Covers(f, U(k - 1), M, R) /\ s[k] \in M
        <5>1. Covers(f, U(k - 1), M, R)
          BY <2>3, <2>4, <3>2
        <5>2. s[k] \in M
          BY ONLY k \in 1 .. Len(s), <1>1, <1>2
        <5> QED
          BY <5>1, <5>2
      <4>2. \A q \in M : <<q, s[k]>> \in R => q \in U(k - 1)
        BY <1>5
      <4>3. /\ RootOf[s[k]] \in Roots(f) => Covers(f, U(k), M, R)
            /\ RootOf[s[k]] \notin Roots(f) =>
                 Covers(Append(f, s[k]), U(k), M, R) /\ Len(Append(f, s[k])) = Len(f) + 1
        BY <1>5, <4>1, <4>2, OfferCovers
      <4>4. CASE RootOf[s[k]] \in Roots(f)
        BY <2>1, <2>2, <4>3, <4>4
      <4>5. CASE RootOf[s[k]] \notin Roots(f)
        BY <2>2, <2>4, <3>2, <4>3, <4>5
      <4> QED
        BY <4>4, <4>5
    <3> QED
      BY <2>1, <2>4, <3>1, <3>2
  <2> QED
    BY <1>1, <2>5
<1>8. Good \in SUBSET (0 .. Len(s)) /\ Len(s) \in 0 .. Len(s)
  BY <1>1
<1>9. Len(s) \in Good
  <2> HIDE DEF Good
  <2> QED
    BY <1>1, <1>6, <1>7, <1>8, UpTo
<1> QED
  BY <1>3, <1>4, <1>9 DEF OfferedSteps

-----------------------------------------------------------------------------
(* The orders of pages, and what a page shows                              *)

\* The order of a lane: ids downwards, or keys downwards with ids downwards among equals.
SortOrder(sort, key) ==
    {pq \in Post \X Post :
        IF sort = "newest" THEN pq[1] > pq[2]
        ELSE key[pq[1]] > key[pq[2]] \/ (key[pq[1]] = key[pq[2]] /\ pq[1] > pq[2])}

\* An order that puts the posts of F before the others, and keeps R within each half.
FavoritesFirst(R, F) ==
    {pq \in Post \X Post :
        \/ pq[1] \in F /\ pq[2] \notin F
        \/ (pq[1] \in F <=> pq[2] \in F) /\ pq \in R}

\* The order of a lane is a strict one of every set of posts that have keys.
LEMMA SortIsStrict ==
  ASSUME NEW S \in SUBSET Post, NEW sort, NEW key,
         sort # "newest" => \A p \in S : key[p] \in Int
  PROVE  StrictOrder(SortOrder(sort, key), S)
<1>1. /\ S \subseteq Int /\ S \subseteq Post
  BY PagesAssumption
<1>2. \A p, q \in S : <<p, q>> \in SortOrder(sort, key)
          <=> IF sort = "newest" THEN p > q ELSE key[p] > key[q] \/ (key[p] = key[q] /\ p > q)
  BY <1>1 DEF SortOrder
<1>3. CASE sort = "newest"
  BY <1>1, <1>2, <1>3 DEF StrictOrder
<1>4. CASE sort # "newest"
  <2> DEFINE Above(p, q) == key[p] > key[q] \/ (key[p] = key[q] /\ p > q)
  <2>1. ASSUME NEW p \in S, NEW q \in S, NEW r \in S
        PROVE  /\ ~Above(p, p)
               /\ Above(p, q) /\ Above(q, r) => Above(p, r)
               /\ p = q \/ Above(p, q) \/ Above(q, p)
    <3>1. p \in Int /\ q \in Int /\ r \in Int /\ key[p] \in Int /\ key[q] \in Int /\ key[r] \in Int
      BY <1>1, <1>4
    <3> QED
      BY <3>1
  <2>2. \A p, q \in S : <<p, q>> \in SortOrder(sort, key) <=> Above(p, q)
    BY <1>2, <1>4
  <2> HIDE DEF Above
  <2> QED
    BY <2>1, <2>2 DEF StrictOrder
<1> QED
  BY <1>3, <1>4

\* With favourites first the order stays strict; it is the old one within each half.
LEMMA FavoritesFirstIsStrict ==
  ASSUME NEW S \in SUBSET Post, NEW R, StrictOrder(R, S), NEW F
  PROVE  /\ StrictOrder(FavoritesFirst(R, F), S)
         /\ \A p \in S \cap F, q \in S \ F : <<p, q>> \in FavoritesFirst(R, F)
         /\ \A p, q \in S \cap F : <<p, q>> \in FavoritesFirst(R, F) <=> <<p, q>> \in R
         /\ \A p, q \in S \ F : <<p, q>> \in FavoritesFirst(R, F) <=> <<p, q>> \in R
         /\ \A p \in S \ F, q \in S \cap F : <<p, q>> \notin FavoritesFirst(R, F)
<1> DEFINE Q == FavoritesFirst(R, F)
<1>1. \A p, q \in S : <<p, q>> \in Q <=> \/ p \in F /\ q \notin F
                                         \/ (p \in F <=> q \in F) /\ <<p, q>> \in R
  BY DEF FavoritesFirst
<1> HIDE DEF Q
<1>2. StrictOrder(Q, S)
  <2>1. \A p \in S : <<p, p>> \notin Q
    BY <1>1 DEF StrictOrder
  <2>2. ASSUME NEW p \in S, NEW q \in S, NEW r \in S, <<p, q>> \in Q, <<q, r>> \in Q
        PROVE  <<p, r>> \in Q
    <3>1. <<p, q>> \in R /\ <<q, r>> \in R => <<p, r>> \in R
      BY DEF StrictOrder
    <3> QED
      BY <1>1, <2>2, <3>1
  <2>3. \A p, q \in S : p = q \/ <<p, q>> \in Q \/ <<q, p>> \in Q
    BY <1>1 DEF StrictOrder
  <2> QED
    BY <2>1, <2>2, <2>3 DEF StrictOrder
<1> QED
  BY <1>1, <1>2 DEF Q

\* Newest lists its set, ids downwards.
LEMMA NewestLists ==
  ASSUME NEW S \in SUBSET Post, NEW key
  PROVE  Lists(Newest(S), S, SortOrder("newest", key))
<1> DEFINE R == SortOrder("newest", key)
           c(p) == Cardinality({q \in S : q > p})
           d(p) == Cardinality({q \in S : <<q, p>> \in R})
<1>1. \A p \in S : c(p) = d(p)
  <2>1. \A p \in S : {q \in S : <<q, p>> \in R} = {q \in S : q > p}
    BY DEF SortOrder
  <2> QED
    BY <2>1
<1>2. Newest(S) = [i \in 1 .. Cardinality(S) |-> CHOOSE p \in S : c(p) = i - 1]
  BY DEF Newest, Ordered
<1>3. Ranked(S, R) = [i \in 1 .. Cardinality(S) |-> CHOOSE p \in S : d(p) = i - 1]
  BY DEF Ranked
<1> HIDE DEF c, d, R
<1>4. ASSUME NEW i PROVE (CHOOSE p \in S : c(p) = i - 1) = (CHOOSE p \in S : d(p) = i - 1)
  BY <1>1
<1>5. Newest(S) = Ranked(S, R)
  BY <1>2, <1>3, <1>4
<1>6. IsFiniteSet(S) /\ StrictOrder(R, S)
  BY PagesAssumption, FS_Subset, SortIsStrict DEF R
<1> QED
  BY <1>5, <1>6, RankedLists DEF R

\* Strongest lists its set, keys downwards.
LEMMA StrongestLists ==
  ASSUME NEW S \in SUBSET Post, NEW key, \A p \in S : key[p] \in Int
  PROVE  Lists(Strongest(key, S), S, SortOrder("score", key))
<1> DEFINE R == SortOrder("score", key)
           c(p) == Cardinality({q \in S : key[q] > key[p] \/ (key[q] = key[p] /\ q > p)})
           d(p) == Cardinality({q \in S : <<q, p>> \in R})
<1>1. \A p \in S : c(p) = d(p)
  <2>1. \A p \in S : {q \in S : <<q, p>> \in R}
                       = {q \in S : key[q] > key[p] \/ (key[q] = key[p] /\ q > p)}
    BY DEF SortOrder
  <2> QED
    BY <2>1
<1>2. Strongest(key, S) = [i \in 1 .. Cardinality(S) |-> CHOOSE p \in S : c(p) = i - 1]
  BY DEF Strongest, Ordered
<1>3. Ranked(S, R) = [i \in 1 .. Cardinality(S) |-> CHOOSE p \in S : d(p) = i - 1]
  BY DEF Ranked
<1> HIDE DEF c, d, R
<1>4. ASSUME NEW i PROVE (CHOOSE p \in S : c(p) = i - 1) = (CHOOSE p \in S : d(p) = i - 1)
  BY <1>1
<1>5. Strongest(key, S) = Ranked(S, R)
  BY <1>2, <1>3, <1>4
<1>6. IsFiniteSet(S) /\ StrictOrder(R, S)
  BY PagesAssumption, FS_Subset, SortIsStrict DEF R
<1> QED
  BY <1>5, <1>6, RankedLists DEF R

\* BySort lists its set in the order that is asked for.
LEMMA BySortLists ==
  ASSUME NEW S \in SUBSET Post, NEW sort \in {"newest", "score"}, NEW key,
         sort # "newest" => \A p \in S : key[p] \in Int
  PROVE  Lists(BySort(sort, key, S), S, SortOrder(sort, key))
BY NewestLists, StrongestLists DEF BySort

\* What a page shows of a set: the first n of it in order, or all of it.
LEMMA TakeShows ==
  ASSUME NEW M, NEW R, StrictOrder(R, M), NEW S, DownIn(S, M, R), NEW s, Lists(s, S, R),
         NEW n \in Nat
  PROVE  /\ Len(Take(s, n)) <= n
         /\ \E U : DownIn(U, M, R) /\ Lists(Take(s, n), U, R) /\ (Len(Take(s, n)) = n \/ U = S)
<1>1. Len(s) \in Nat /\ s \in Seq(S) /\ S \in SUBSET M
  BY ListsHas DEF DownIn
<1>2. PICK k \in 0 .. Len(s) : Take(s, n) = SubSeq(s, 1, k) /\ k <= n /\ (k = n \/ k = Len(s))
  BY <1>1 DEF Take, Smaller
<1>3. Len(Take(s, n)) = k
  BY <1>1, <1>2
<1> DEFINE U == {s[i] : i \in 1 .. k}
<1>4. Lists(Take(s, n), U, R) /\ DownIn(U, S, R) /\ (k = Len(s) => U = S)
  <2>1. StrictOrder(R, S)
    BY <1>1, OrderOfPart
  <2>2. Lists(SubSeq(s, 1, k), U, R) /\ DownIn(U, S, R) /\ (k = Len(s) => U = S)
    BY <2>1, ListsCut
  <2> QED
    BY <1>2, <2>2
<1>5. DownIn(U, M, R)
  BY <1>4 DEF DownIn
<1> HIDE DEF U
<1> QED
  BY <1>1, <1>2, <1>3, <1>4, <1>5

\* A page cut from the list of a set shows it.
LEMMA ListShows ==
  ASSUME NEW M, NEW R, StrictOrder(R, M), NEW s, Lists(s, M, R), NEW n \in Nat
  PROVE  Shows(Take(s, n), M, R, n)
<1>1. DownIn(M, M, R)
  BY DEF DownIn
<1> QED
  BY <1>1, TakeShows DEF Shows

\* A page that shows a set is the list of the set, cut at the limit.
LEMMA ShowsIsTake ==
  ASSUME NEW M, NEW R, StrictOrder(R, M), NEW t, Lists(t, M, R),
         NEW n \in Nat, NEW s, Shows(s, M, R, n)
  PROVE  s = Take(t, n)
<1>1. PICK U : DownIn(U, M, R) /\ Lists(s, U, R) /\ (Len(s) = n \/ U = M)
  BY DEF Shows
<1>2. Len(s) <= n /\ Len(s) \in Nat /\ Len(t) \in Nat /\ s \in Seq(M) /\ t \in Seq(M)
  <2>1. s \in Seq(U) /\ U \subseteq M
    BY <1>1 DEF Lists, DownIn
  <2> QED
    BY <2>1 DEF Shows, Lists
<1>3. Len(s) <= Len(t) /\ \A i \in 1 .. Len(s) : s[i] = t[i]
  BY <1>1, ListsFirst
<1>4. Len(s) = n \/ Len(s) = Len(t)
  <2>1. CASE U = M
    <3>1. DownIn(M, M, R)
      BY DEF DownIn
    <3>2. Len(t) <= Len(s)
      BY <1>1, <2>1, <3>1, ListsFirst
    <3> QED
      BY <1>2, <1>3, <3>2
  <2> QED
    BY <1>1, <2>1
<1>5. Take(t, n) = SubSeq(t, 1, Len(s))
  BY <1>2, <1>3, <1>4 DEF Take, Smaller
<1>6. Len(SubSeq(t, 1, Len(s))) = Len(s) /\ \A i \in 1 .. Len(s) : SubSeq(t, 1, Len(s))[i] = t[i]
  BY <1>2, <1>3
<1>7. SubSeq(t, 1, Len(s)) \in Seq(M)
  BY <1>2, <1>3
<1> QED
  BY <1>2, <1>3, <1>5, <1>6, <1>7

\* A page of what comes first of a set begins the list of the set.
LEMMA ShowsIsPrefix ==
  ASSUME NEW M, NEW R, StrictOrder(R, M), NEW t, Lists(t, M, R),
         NEW U, DownIn(U, M, R), NEW s, Lists(s, U, R)
  PROVE  IsPrefix(s, t)
<1>1. Len(s) \in Nat /\ Len(t) \in Nat /\ s \in Seq(M) /\ t \in Seq(M)
  BY ListsHas DEF DownIn
<1>2. Len(s) <= Len(t) /\ \A i \in 1 .. Len(s) : s[i] = t[i]
  BY ListsFirst
<1>3. SubSeq(s, 1, Len(s)) = SubSeq(t, 1, Len(s))
  BY <1>1, <1>2
<1> QED
  BY <1>2, <1>3 DEF IsPrefix

\* A page that shows one half whole, and goes on to show the half after it, shows both.
LEMMA ShowsJoin ==
  ASSUME NEW R, NEW A, NEW B, \A p \in A, q \in B : <<p, q>> \in R /\ <<q, p>> \notin R,
         NEW s, NEW t, NEW n \in Nat, Shows(s, A, R, n), Len(s) # n, Shows(t, B, R, n - Len(s))
  PROVE  Shows(s \o t, A \cup B, R, n)
<1>1. Lists(s, A, R) /\ Len(s) < n
  <2>1. PICK U : Lists(s, U, R) /\ (Len(s) = n \/ U = A)
    BY DEF Shows
  <2>2. Lists(s, A, R) /\ Len(s) <= n
    BY <2>1 DEF Shows
  <2> QED
    BY <2>2, ListsHas
<1>2. PICK V : DownIn(V, B, R) /\ Lists(t, V, R) /\ (Len(t) = n - Len(s) \/ V = B)
  BY DEF Shows
<1>3. Len(t) <= n - Len(s) /\ Len(s) \in Nat /\ Len(t) \in Nat
  BY <1>1, <1>2, ListsHas DEF Shows
<1>4. Lists(s \o t, A \cup V, R) /\ Len(s \o t) = Len(s) + Len(t)
  <2>1. \A p \in A, q \in V : <<p, q>> \in R
    BY <1>2 DEF DownIn
  <2> QED
    BY <1>1, <1>2, <2>1, ListsJoin
<1>5. DownIn(A \cup V, A \cup B, R)
  BY <1>2 DEF DownIn
<1>6. Len(s \o t) <= n /\ (Len(s \o t) = n \/ A \cup V = A \cup B)
  BY <1>2, <1>3, <1>4
<1> QED
  BY <1>4, <1>5, <1>6 DEF Shows

\* A page that is full of the first half shows the whole.
LEMMA ShowsFull ==
  ASSUME NEW R, NEW A, NEW M, DownIn(A, M, R), NEW s, NEW n, Shows(s, A, R, n), Len(s) = n
  PROVE  Shows(s, M, R, n)
BY DEF Shows, DownIn

\* A page that shows a set in an order does so in every order that agrees with it.
LEMMA ShowsSame ==
  ASSUME NEW R, NEW Q, NEW M, \A p, q \in M : <<p, q>> \in R <=> <<p, q>> \in Q,
         NEW s, NEW n, Shows(s, M, R, n)
  PROVE  Shows(s, M, Q, n)
<1>1. PICK U : DownIn(U, M, R) /\ Lists(s, U, R) /\ (Len(s) = n \/ U = M)
  BY DEF Shows
<1>2. Lists(s, U, Q) /\ DownIn(U, M, Q)
  BY <1>1, ListsSame DEF DownIn
<1> QED
  BY <1>1, <1>2 DEF Shows

-----------------------------------------------------------------------------
(* The algebra of candidates                                               *)

\* Whatever mixture of finite and cofinite sets the groups of a query are made of, a Not,
\* an And and an Or of them admits a post exactly when its parts say so: no post is lost
\* or added by a form that does not list it (index.rs, BitmapEval).
THEOREM CandidatesCombine ==
  ASSUME NEW children,
         \A i \in DOMAIN children : children[i].form \in {"finite", "cofinite"},
         NEW id
  PROVE  /\ \A i \in DOMAIN children : Admits(Complement(children[i]), id) <=> ~Admits(children[i], id)
         /\ Admits(Conjunction(children), id) <=> \A i \in DOMAIN children : Admits(children[i], id)
         /\ Admits(Disjunction(children), id) <=> \E i \in DOMAIN children : Admits(children[i], id)
<1> DEFINE F == {i \in DOMAIN children : children[i].form = "finite"}
           C == {i \in DOMAIN children : children[i].form = "cofinite"}
<1>1. DOMAIN children = F \cup C /\ F \cap C = {}
  OBVIOUS
<1>2. /\ Of("finite", children) = F /\ Of("cofinite", children) = C
  BY DEF Of
<1> HIDE DEF F, C
<1>3. /\ \A i \in F : Admits(children[i], id) <=> id \in children[i].ids
      /\ \A i \in C : Admits(children[i], id) <=> id \notin children[i].ids
  BY DEF Admits, F, C
<1>4. /\ id \in Union("finite", children) <=> \E i \in F : id \in children[i].ids
      /\ id \in Union("cofinite", children) <=> \E i \in C : id \in children[i].ids
  BY <1>2 DEF Union
<1>5. /\ id \in Intersection("finite", children)
           <=> (\E i \in F : id \in children[i].ids) /\ \A i \in F : id \in children[i].ids
      /\ id \in Intersection("cofinite", children)
           <=> (\E i \in C : id \in children[i].ids) /\ \A i \in C : id \in children[i].ids
  BY <1>2, <1>4 DEF Intersection
<1>6. ASSUME NEW i \in DOMAIN children
      PROVE  Admits(Complement(children[i]), id) <=> ~Admits(children[i], id)
  BY DEF Admits, Complement, Finite, Cofinite
<1>7. /\ \A S : Admits(Finite(S), id) <=> id \in S
      /\ \A S : Admits(Cofinite(S), id) <=> id \notin S
  BY DEF Admits, Finite, Cofinite
<1>8. Admits(Conjunction(children), id) <=> \A i \in DOMAIN children : Admits(children[i], id)
  <2>1. CASE F = {}
    <3>1. Conjunction(children) = Cofinite(Union("cofinite", children))
      BY <2>1, <1>2 DEF Conjunction
    <3> QED
      BY <3>1, <2>1, <1>1, <1>3, <1>4, <1>7
  <2>2. CASE F # {}
    <3>1. Conjunction(children)
            = Finite(Intersection("finite", children) \ Union("cofinite", children))
      BY <2>2, <1>2 DEF Conjunction
    <3> QED
      BY <3>1, <2>2, <1>1, <1>3, <1>4, <1>5, <1>7
  <2> QED
    BY <2>1, <2>2
<1>9. Admits(Disjunction(children), id) <=> \E i \in DOMAIN children : Admits(children[i], id)
  <2>1. CASE C = {}
    <3>1. Disjunction(children) = Finite(Union("finite", children))
      BY <2>1, <1>2 DEF Disjunction
    <3> QED
      BY <3>1, <2>1, <1>1, <1>3, <1>4, <1>7
  <2>2. CASE C # {}
    <3>1. Disjunction(children)
            = Cofinite(Intersection("cofinite", children) \ Union("finite", children))
      BY <2>2, <1>2 DEF Disjunction
    <3> QED
      BY <3>1, <2>2, <1>1, <1>3, <1>4, <1>5, <1>7
  <2> QED
    BY <2>1, <2>2
<1> QED
  BY <1>6, <1>8, <1>9

\* The page of a search with favourites is drawn from two halves of its candidate: a post
\* the candidate admits is in exactly one of them, and no other post is in either, so
\* that favourites first neither repeats nor loses a post (index.rs, favorite_partition).
THEOREM HalvesPartition ==
  ASSUME NEW candidate, candidate.form \in {"finite", "cofinite"}, NEW held, NEW id
  PROVE  /\ Admits(candidate, id)
              <=> Admits(Favored(candidate, held), id) \/ Admits(Ordinary(candidate, held), id)
         /\ ~(Admits(Favored(candidate, held), id) /\ Admits(Ordinary(candidate, held), id))
<1> DEFINE among == <<candidate, Finite(held.available)>>
           outside == <<candidate, Cofinite(held.available)>>
<1>1. /\ DOMAIN among = {1, 2} /\ among[1] = candidate /\ among[2] = Finite(held.available)
      /\ DOMAIN outside = {1, 2} /\ outside[1] = candidate /\ outside[2] = Cofinite(held.available)
  OBVIOUS
<1>2. /\ \A i \in DOMAIN among : among[i].form \in {"finite", "cofinite"}
      /\ \A i \in DOMAIN outside : outside[i].form \in {"finite", "cofinite"}
  BY <1>1 DEF Finite, Cofinite
<1>3. /\ Favored(candidate, held) = Conjunction(among)
      /\ Ordinary(candidate, held) = Conjunction(outside)
  BY DEF Favored, Ordinary
<1>4. Admits(Cofinite(held.available), id) <=> ~Admits(Finite(held.available), id)
  BY DEF Admits, Finite, Cofinite
<1> HIDE DEF among, outside
<1>5. Admits(Conjunction(among), id) <=> \A i \in DOMAIN among : Admits(among[i], id)
  BY <1>2, CandidatesCombine
<1>6. Admits(Conjunction(outside), id) <=> \A i \in DOMAIN outside : Admits(outside[i], id)
  BY <1>2, CandidatesCombine
<1> QED
  BY <1>1, <1>3, <1>4, <1>5, <1>6

\* The favoured half of a candidate admits its available favourites, the ordinary half the
\* rest.
LEMMA HalvesAdmit ==
  ASSUME NEW candidate, candidate.form \in {"finite", "cofinite"}, NEW held, NEW id
  PROVE  /\ Admits(Favored(candidate, held), id) <=> Admits(candidate, id) /\ id \in held.available
         /\ Admits(Ordinary(candidate, held), id)
              <=> Admits(candidate, id) /\ id \notin held.available
<1> DEFINE among == <<candidate, Finite(held.available)>>
           outside == <<candidate, Cofinite(held.available)>>
<1>1. /\ DOMAIN among = {1, 2} /\ among[1] = candidate /\ among[2] = Finite(held.available)
      /\ DOMAIN outside = {1, 2} /\ outside[1] = candidate /\ outside[2] = Cofinite(held.available)
  OBVIOUS
<1>2. /\ \A i \in DOMAIN among : among[i].form \in {"finite", "cofinite"}
      /\ \A i \in DOMAIN outside : outside[i].form \in {"finite", "cofinite"}
  BY <1>1 DEF Finite, Cofinite
<1>3. /\ Favored(candidate, held) = Conjunction(among)
      /\ Ordinary(candidate, held) = Conjunction(outside)
  BY DEF Favored, Ordinary
<1>4. /\ Admits(Finite(held.available), id) <=> id \in held.available
      /\ Admits(Cofinite(held.available), id) <=> id \notin held.available
  BY DEF Admits, Finite, Cofinite
<1> HIDE DEF among, outside
<1>5. Admits(Conjunction(among), id) <=> \A i \in DOMAIN among : Admits(among[i], id)
  BY <1>2, CandidatesCombine
<1>6. Admits(Conjunction(outside), id) <=> \A i \in DOMAIN outside : Admits(outside[i], id)
  BY <1>2, CandidatesCombine
<1> QED
  BY <1>1, <1>3, <1>4, <1>5, <1>6

\* The ordinary half of a candidate is a candidate, of no more posts.
LEMMA OrdinaryIsPart ==
  ASSUME NEW candidate, candidate.form \in {"finite", "cofinite"}, NEW held
  PROVE  /\ Ordinary(candidate, held).form \in {"finite", "cofinite"}
         /\ Ordinary(candidate, held).form = "finite" =>
              candidate.form = "finite" /\ Ordinary(candidate, held).ids \subseteq candidate.ids
<1> DEFINE outside == <<candidate, Cofinite(held.available)>>
           c == Conjunction(outside)
<1>1. DOMAIN outside = {1, 2} /\ outside[1] = candidate /\ outside[2].form = "cofinite"
  BY DEF Cofinite
<1>2. Ordinary(candidate, held) = c
  BY DEF Ordinary
<1>3. Of("finite", outside) = {i \in {1, 2} : outside[i].form = "finite"}
  BY <1>1 DEF Of
<1> HIDE DEF outside
<1>4. CASE Of("finite", outside) = {}
  BY <1>2, <1>4 DEF Conjunction, Cofinite
<1>5. CASE Of("finite", outside) # {}
  <2>1. candidate.form = "finite" /\ 1 \in Of("finite", outside)
    BY <1>1, <1>3, <1>5
  <2>2. Intersection("finite", outside) \subseteq candidate.ids
    BY <1>1, <2>1 DEF Intersection
  <2> QED
    BY <1>2, <1>5, <2>1, <2>2 DEF Conjunction, Finite
<1> QED
  BY <1>4, <1>5

-----------------------------------------------------------------------------
(* Pages of posts, and of their families, from one snapshot                *)

\* The states of the records a search may be given.
Snapshots == [Post -> Record \cup {None}]

\* The key of a post depends on its record alone.
LEMMA KeyOfRecord ==
  ASSUME NEW d
  PROVE  /\ SortKeys(d) = [p \in DOMAIN d |-> SortKeys(d)[p]]
         /\ \A p \in DOMAIN d : SortKeys(d)[p] = IF d[p] = None THEN None ELSE d[p].score
BY DEF SortKeys

\* The live posts of a snapshot are those that have a key, which is a number.
LEMMA KeysOfLive ==
  ASSUME NEW d \in Snapshots
  PROVE  /\ Live(d) \in SUBSET Post /\ IsFiniteSet(Live(d))
         /\ \A p \in Live(d) : SortKeys(d)[p] \in Int
         /\ \A p \in Post : SortKeys(d)[p] # None <=> p \in Live(d)
<1>1. DOMAIN d = Post /\ \A p \in Post : p \in Live(d) <=> d[p] # None
  BY DEF Snapshots, Live
<1>2. Live(d) \in SUBSET Post
  BY DEF Snapshots, Live
<1>3. IsFiniteSet(Live(d))
  BY <1>2, PagesAssumption, FS_Subset
<1>4. \A p \in Post : SortKeys(d)[p] = IF d[p] = None THEN None ELSE d[p].score
  BY <1>1, KeyOfRecord
<1>5. \A p \in Live(d) : d[p].score \in Int
  BY <1>1, <1>2, ReadCachesAssumption DEF Snapshots, Record
<1>6. \A p \in Live(d) : SortKeys(d)[p] \in Int
  BY <1>1, <1>2, <1>4, <1>5
<1>7. \A p \in Post : SortKeys(d)[p] # None <=> p \in Live(d)
  BY <1>1, <1>4, <1>5, PagesAssumption
<1> QED
  BY <1>2, <1>3, <1>6, <1>7

\* The lane of a snapshot lists its live posts by their keys, and the head comes first of it.
LEMMA LaneLists ==
  ASSUME NEW d \in Snapshots
  PROVE  LET R == SortOrder("score", SortKeys(d)) IN
         /\ StrictOrder(R, Live(d)) /\ Lists(Lane(d), Live(d), R)
         /\ \E U : DownIn(U, Live(d), R) /\ Lists(LaneHead(d), U, R)
<1> DEFINE R == SortOrder("score", SortKeys(d))
<1>1. /\ Live(d) \in SUBSET Post /\ \A p \in Live(d) : SortKeys(d)[p] \in Int
  BY KeysOfLive
<1>2. StrictOrder(R, Live(d))
  BY <1>1, SortIsStrict
<1>3. Lists(Lane(d), Live(d), R)
  BY <1>1, StrongestLists DEF Lane
<1>4. DownIn(Live(d), Live(d), R) /\ HeadCap \in Nat
  BY PagesAssumption DEF DownIn
<1> HIDE DEF R
<1>5. \E U : DownIn(U, Live(d), R) /\ Lists(LaneHead(d), U, R)
  BY <1>2, <1>3, <1>4, TakeShows DEF LaneHead
<1> QED
  BY <1>2, <1>3, <1>5 DEF R

\* A part of what is down-closed, within a part of the whole.
LEMMA DownInPart ==
  ASSUME NEW R, NEW M, NEW U, DownIn(U, M, R), NEW T
  PROVE  DownIn(U \cap T, M \cap T, R)
BY DEF DownIn

\* The page of a candidate, whichever way it is made, shows the posts it accepts: walking
\* the lane, scanning its head and then the lane, sorting keys, or reading ids downwards.
LEMMA PostIdsShows ==
  ASSUME NEW d \in Snapshots, NEW hd, NEW ks, NEW candidate,
         candidate.form = "finite" => candidate.ids \subseteq Live(d),
         NEW sort \in {"newest", "score"}, NEW window, NEW n \in Nat,
         UsesHead(candidate, sort) => hd = LaneHead(d),
         UsesKeys(candidate, sort) => ks = SortKeys(d)
  PROVE  Shows(PostIds(d, hd, ks, candidate, sort, window, n),
               Accepted(candidate, window) \cap Live(d), SortOrder(sort, SortKeys(d)), n)
<1> DEFINE acc == Accepted(candidate, window)
           M == acc \cap Live(d)
           R == SortOrder(sort, SortKeys(d))
           page == PostIds(d, hd, ks, candidate, sort, window, n)
<1>1. /\ Live(d) \in SUBSET Post /\ \A p \in Live(d) : SortKeys(d)[p] \in Int
      /\ \A p \in Post : SortKeys(d)[p] # None <=> p \in Live(d)
  BY KeysOfLive
<1>2. M \in SUBSET Post /\ acc \in SUBSET Post /\ \A p \in M : SortKeys(d)[p] \in Int
  BY <1>1 DEF Accepted
<1>3. StrictOrder(R, M)
  BY <1>2, SortIsStrict
<1>4. CASE UsesKeys(candidate, sort)
  <2>1. sort = "score" /\ ks = SortKeys(d)
    BY <1>4 DEF UsesKeys
  <2>2. {p \in acc : ks[p] # None} = M
    BY <1>1, <1>2, <2>1
  <2>3. page = LocalSortedIds(ks, candidate, window, n)
    <3>1. ~UsesHead(candidate, sort) /\ sort # "newest"
      BY <1>4, <2>1 DEF UsesHead
    <3> QED
      BY <1>4, <3>1 DEF PostIds
  <2>4. page = Take(Strongest(ks, M), n)
    BY <2>2, <2>3 DEF LocalSortedIds
  <2>5. Lists(Strongest(ks, M), M, R)
    BY <1>2, <2>1, StrongestLists
  <2> QED
    BY <1>3, <2>4, <2>5, ListShows
<1>5. CASE UsesHead(candidate, sort)
  <2>1. sort = "score" /\ hd = LaneHead(d) /\ ~UsesKeys(candidate, sort)
    BY <1>5 DEF UsesHead
  <2>2. page = RankedIds(d, hd, candidate, window, n)
    BY <1>5, <2>1 DEF PostIds
  <2>3. /\ StrictOrder(R, Live(d)) /\ Lists(Lane(d), Live(d), R)
        /\ \E U : DownIn(U, Live(d), R) /\ Lists(LaneHead(d), U, R)
    BY <2>1, LaneLists
  <2>4. Shows(LaneIds(d, candidate, window, n), M, R, n)
    <3>1. Lists(Among(Lane(d), acc), Live(d) \cap acc, R) /\ Live(d) \cap acc = M
      BY <2>3, AmongLists
    <3> HIDE DEF M, R, acc
    <3> QED
      BY <1>3, <3>1, ListShows DEF LaneIds, acc
  <2>5. Len(HeadIds(hd, candidate, window, n)) = n => Shows(HeadIds(hd, candidate, window, n), M, R, n)
    <3>1. PICK U : DownIn(U, Live(d), R) /\ Lists(LaneHead(d), U, R)
      BY <2>3
    <3>2. Lists(Among(hd, acc), U \cap acc, R)
      BY <2>1, <3>1, AmongLists
    <3>3. DownIn(U \cap acc, M, R)
      <4>1. M = Live(d) \cap acc
        OBVIOUS
      <4> QED
        BY <4>1, <3>1, DownInPart
    <3> HIDE DEF M, R, acc
    <3>4. /\ Len(Take(Among(hd, acc), n)) <= n
          /\ \E V : DownIn(V, M, R) /\ Lists(Take(Among(hd, acc), n), V, R)
      BY <1>3, <3>2, <3>3, TakeShows
    <3> QED
      BY <3>4 DEF Shows, HeadIds, acc
  <2> QED
    BY <2>2, <2>4, <2>5 DEF RankedIds
<1>6. CASE ~UsesKeys(candidate, sort) /\ ~UsesHead(candidate, sort)
  <2>1. sort = "newest"
    BY <1>6 DEF UsesHead
  <2>2. page = Take(NewestIds(d, candidate, window), n)
    BY <1>6, <2>1 DEF PostIds
  <2>3. (IF candidate.form = "finite" THEN acc ELSE acc \cap Live(d)) = M
    BY <1>2 DEF Accepted, Admits
  <2>4. NewestIds(d, candidate, window) = Newest(M)
    BY <2>3 DEF NewestIds
  <2>5. Lists(Newest(M), M, R)
    BY <1>2, <2>1, NewestLists
  <2> QED
    BY <1>3, <2>2, <2>4, <2>5, ListShows
<1> QED
  BY <1>4, <1>5, <1>6

\* The leads of a set are in it.
LEMMA LeadsAreIn == ASSUME NEW M, NEW R PROVE Leads(M, R) \subseteq M
BY DEF Leads

\* A page that covers the whole of a set shows its leads, as does a full one.
LEMMA CoversShows ==
  ASSUME NEW M, NEW R, NEW page, NEW E, Covers(page, E, M, R), NEW n, Len(page) <= n,
         Len(page) = n \/ E = M
  PROVE  Shows(page, Leads(M, R), R, n)
<1>1. DownIn(E, M, R) /\ Lists(page, Leads(M, R) \cap E, R)
  BY DEF Covers
<1>2. DownIn(Leads(M, R) \cap E, Leads(M, R), R)
  BY <1>1, LeadsAreIn DEF DownIn
<1>3. E = M => Leads(M, R) \cap E = Leads(M, R)
  BY LeadsAreIn
<1> QED
  BY <1>1, <1>2, <1>3 DEF Shows

\* The empty page covers nothing.
LEMMA NothingCovered ==
  ASSUME NEW M, NEW R
  PROVE  Covers(<<>>, {}, M, R) /\ Len(<<>>) = 0
<1>1. Leads(M, R) \cap {} = {} /\ DownIn({}, M, R)
  BY DEF DownIn
<1> QED
  BY <1>1, EmptyLists DEF Covers

\* The leads of a set are those of a part that keeps them and all that goes before.
LEMMA LeadsOfLeads ==
  ASSUME NEW M, IsFiniteSet(M), NEW R, StrictOrder(R, M), NEW D, DownIn(D, M, R),
         NEW B, M = D \cup B
  PROVE  LET N == D \cup Leads(B, R) IN
         N \in SUBSET M /\ DownIn(D, N, R) /\ Leads(N, R) = Leads(M, R)
<1> DEFINE N == D \cup Leads(B, R)
<1>1. N \in SUBSET M /\ DownIn(D, N, R)
  BY LeadsAreIn DEF DownIn
<1>2. ASSUME NEW p \in Leads(M, R) PROVE p \in Leads(N, R)
  <2>1. p \in M /\ \A q \in M : <<q, p>> \in R => RootOf[q] # RootOf[p]
    BY DEF Leads
  <2>2. p \in N
    BY <2>1 DEF Leads
  <2> QED
    BY <1>1, <2>1, <2>2 DEF Leads
<1>3. ASSUME NEW p \in Leads(N, R) PROVE p \in Leads(M, R)
  <2>1. p \in N /\ \A q \in N : <<q, p>> \in R => RootOf[q] # RootOf[p]
    BY DEF Leads
  <2>2. p \in M
    BY <1>1, <2>1
  <2>3. ASSUME NEW q \in M, <<q, p>> \in R PROVE RootOf[q] # RootOf[p]
    <3>1. CASE q \in D
      BY <2>1, <2>3, <3>1
    <3>2. CASE q \notin D
      <4>1. q \in B /\ p \notin D
        BY <2>2, <2>3, <3>2 DEF DownIn
      <4>2. p \in Leads(B, R)
        BY <2>1, <4>1
      <4> QED
        BY <2>3, <4>1, <4>2 DEF Leads
    <3> QED
      BY <3>1, <3>2
  <2> QED
    BY <2>2, <2>3 DEF Leads
<1> HIDE DEF N
<1>4. Leads(N, R) = Leads(M, R)
  BY <1>2, <1>3
<1> QED
  BY <1>1, <1>4 DEF N

\* A list of a finite set in a strict order is as long as the set is large.
LEMMA ListsLen ==
  ASSUME NEW S, IsFiniteSet(S), NEW R, StrictOrder(R, S), NEW s, Lists(s, S, R)
  PROVE  Len(s) = Cardinality(S)
<1>1. Lists(Ranked(S, R), S, R) /\ Len(Ranked(S, R)) = Cardinality(S)
  BY RankedLists
<1>2. DownIn(S, S, R)
  BY DEF DownIn
<1>3. Len(s) <= Len(Ranked(S, R)) /\ Len(Ranked(S, R)) <= Len(s)
  BY <1>1, <1>2, ListsFirst
<1>4. Len(s) \in Nat /\ Len(Ranked(S, R)) \in Nat
  BY <1>1, ListsHas
<1> QED
  BY <1>1, <1>3, <1>4

\* The families a listing shows first, when nothing can fill the page up: all of them.
LEMMA AllFamilies ==
  ASSUME NEW B \in SUBSET Post, NEW R, StrictOrder(R, B), NEW s, Lists(s, B, R)
  PROVE  Lists(Offered(<<>>, s, Cardinality(Post)), Leads(B, R), R)
<1> DEFINE n == Cardinality(Post)
           o == Offered(<<>>, s, n)
<1>1. IsFiniteSet(Post) /\ IsFiniteSet(B) /\ n \in Nat
  BY PagesAssumption, FS_Subset, FS_CardinalityType
<1>2. DownIn({} \cup B, B, R) /\ {} \cup B = B
  BY DEF DownIn
<1>3. Covers(<<>>, {}, B, R) /\ Len(<<>>) <= n
  BY <1>1, NothingCovered
<1>4. PICK E : Covers(o, E, B, R) /\ (Len(o) = n \/ E = B)
  <2> HIDE DEF n
  <2> DEFINE D == {}
             page == <<>>
  <2>1. DownIn(D \cup B, B, R) /\ Covers(page, D, B, R) /\ Len(page) <= n
    BY <1>2, <1>3
  <2> HIDE DEF D, page
  <2>2. \E E : /\ Covers(Offered(page, s, n), E, B, R)
               /\ (Len(Offered(page, s, n)) = n \/ E = D \cup B)
    BY <1>1, <2>1, OfferedCovers
  <2> QED
    BY <1>2, <2>2 DEF D, page
<1>5. DownIn(E, B, R) /\ Lists(o, Leads(B, R) \cap E, R)
  BY <1>4 DEF Covers
<1>6. CASE E = B
  <2>1. Leads(B, R) \cap E = Leads(B, R)
    BY <1>6, LeadsAreIn
  <2> QED
    BY <1>5, <2>1
<1>7. CASE Len(o) = n
  <2> DEFINE U == Leads(B, R) \cap E
  <2>1. U \in SUBSET B
    BY LeadsAreIn
  <2>2. IsFiniteSet(U) /\ StrictOrder(R, U) /\ U \in SUBSET Post
    BY <1>1, <2>1, FS_Subset, OrderOfPart
  <2> HIDE DEF o, n
  <2>3. Cardinality(U) = n
    BY <1>5, <1>7, <2>2, ListsLen
  <2>4. U = Post
    BY <1>1, <2>2, <2>3, FS_Subset DEF n
  <2>5. U = Leads(B, R)
    BY <2>1, <2>4, LeadsAreIn
  <2> QED
    BY <1>5, <2>5 DEF o, n
<1> QED
  BY <1>4, <1>6, <1>7

\* A full page takes no offer.
LEMMA OfferedFull ==
  ASSUME NEW S, NEW page \in Seq(S), NEW s \in Seq(S), NEW limit \in Nat, Len(page) = limit
  PROVE  Offered(page, s, limit) = page
<1>1. PICK F : OfferedSteps(F, page, s, limit)
  BY OfferedUnfolds
<1> DEFINE Good == {k \in 0 .. Len(s) : F[k] = page}
<1>2. Len(s) \in Nat /\ 0 \in Good /\ Good \in SUBSET (0 .. Len(s)) /\ Len(s) \in 0 .. Len(s)
  BY <1>1 DEF OfferedSteps
<1>3. ASSUME NEW k \in 1 .. Len(s), k - 1 \in Good PROVE k \in Good
  <2>1. F[k - 1] = page /\ ~(Len(page) < limit)
    BY <1>3
  <2>2. F[k] = page
    BY <1>1, <2>1 DEF OfferedSteps
  <2> QED
    BY <1>2, <2>2
<1>4. Len(s) \in Good
  <2> HIDE DEF Good
  <2> QED
    BY <1>2, <1>3, UpTo
<1> QED
  BY <1>1, <1>4 DEF OfferedSteps

\* A page that is offered all that is left of a set shows the leads of the set, or fills up.
LEMMA OfferedShows ==
  ASSUME NEW M, IsFiniteSet(M), NEW R, StrictOrder(R, M), NEW D, NEW page,
         Covers(page, D, M, R), NEW limit \in Nat, Len(page) <= limit,
         NEW B, NEW s, Lists(s, B, R), M = D \cup B
  PROVE  Shows(Offered(page, s, limit), Leads(M, R), R, limit)
<1>1. DownIn(D \cup B, M, R)
  BY DEF DownIn
<1>2. /\ Len(Offered(page, s, limit)) <= limit
      /\ \E E : /\ Covers(Offered(page, s, limit), E, M, R)
                /\ (Len(Offered(page, s, limit)) = limit \/ E = D \cup B)
  BY <1>1, OfferedCovers
<1> QED
  BY <1>2, CoversShows

\* A page offered a head of the lane, and then the lane, shows the leads of the set as does
\* one offered the lane alone.
LEMMA HeadThenLaneShows ==
  ASSUME NEW M, IsFiniteSet(M), NEW R, StrictOrder(R, M), NEW D, NEW page,
         Covers(page, D, M, R), NEW limit \in Nat, Len(page) <= limit,
         NEW B, NEW s, Lists(s, B, R), M = D \cup B,
         NEW A, DownIn(D \cup A, M, R), NEW h, Lists(h, A, R)
  PROVE  Shows(Offered(Offered(page, h, limit), s, limit), Leads(M, R), R, limit)
<1> DEFINE first == Offered(page, h, limit)
<1>1. /\ Len(first) <= limit
      /\ \E E : Covers(first, E, M, R) /\ (Len(first) = limit \/ E = D \cup A)
  BY OfferedCovers
<1> HIDE DEF first
<1>2. PICK E : Covers(first, E, M, R) /\ (Len(first) = limit \/ E = D \cup A)
  BY <1>1
<1>3. CASE Len(first) = limit
  <2>1. Lists(first, Leads(M, R) \cap E, R) /\ Leads(M, R) \subseteq M
    BY <1>2, LeadsAreIn DEF Covers
  <2>2. first \in Seq(M) /\ s \in Seq(M)
    <3>1. first \in Seq(Leads(M, R) \cap E) /\ s \in Seq(B)
      BY <2>1 DEF Lists
    <3>2. Leads(M, R) \cap E \subseteq M /\ B \subseteq M
      BY <2>1
    <3> HIDE DEF first
    <3> QED
      BY <3>1, <3>2, SeqWiden
  <2>3. Offered(first, s, limit) = first
    BY <1>3, <2>2, OfferedFull
  <2>4. Shows(first, Leads(M, R), R, limit)
    BY <1>1, <1>2, <1>3, CoversShows
  <2> QED
    BY <2>3, <2>4 DEF first
<1>4. CASE E = D \cup A
  <2>1. M = E \cup B
    BY <1>2, <1>4 DEF Covers, DownIn
  <2>2. Shows(Offered(first, s, limit), Leads(M, R), R, limit)
    BY <1>1, <1>2, <2>1, OfferedShows
  <2> QED
    BY <2>2 DEF first
<1> QED
  BY <1>2, <1>3, <1>4

\* What a keyed family page adds to a page: the strongest families of the rest, as many as
\* it asks for, whether or not the page shows them already.
LEMMA KeyedFamiliesShow ==
  ASSUME NEW M \in SUBSET Post, NEW R, StrictOrder(R, M), NEW D, NEW page,
         Covers(page, D, M, R), NEW limit \in Nat, Len(page) <= limit,
         NEW B, NEW s, Lists(s, B, R), M = D \cup B
  PROVE  LET families == Take(Offered(<<>>, s, Cardinality(Post)), limit - Len(page))
             o == Offered(page, families, limit)
         IN  /\ Len(o) <= limit /\ \E U : DownIn(U, Leads(M, R), R) /\ Lists(o, U, R)
             /\ D = {} => Shows(o, Leads(M, R), R, limit)
<1> DEFINE n == limit - Len(page)
           all == Offered(<<>>, s, Cardinality(Post))
           families == Take(all, n)
           o == Offered(page, families, limit)
           L == Leads(B, R)
           N == D \cup L
<1>1. IsFiniteSet(M) /\ B \in SUBSET M /\ B \in SUBSET Post /\ StrictOrder(R, B) /\ DownIn(D, M, R)
  BY PagesAssumption, FS_Subset, OrderOfPart DEF Covers
<1>2. Lists(page, Leads(M, R) \cap D, R)
  BY DEF Covers
<1>3. n \in Nat
  BY <1>2, ListsHas
<1>4. N \in SUBSET M /\ DownIn(D, N, R) /\ Leads(N, R) = Leads(M, R)
  BY <1>1, LeadsOfLeads
<1>5. IsFiniteSet(N) /\ StrictOrder(R, N)
  BY <1>1, <1>4, FS_Subset, OrderOfPart
<1>6. Covers(page, D, N, R)
  BY <1>2, <1>4 DEF Covers
<1>7. StrictOrder(R, L) /\ DownIn(L, L, R)
  BY <1>1, LeadsAreIn, OrderOfPart DEF DownIn
<1>8. Lists(all, L, R)
  BY <1>1, AllFamilies
<1> HIDE DEF L, all, n
<1>9. PICK S : DownIn(S, L, R) /\ Lists(families, S, R) /\ (Len(families) = n \/ S = L)
  BY <1>3, <1>7, <1>8, TakeShows
<1> HIDE DEF families, N
<1>10. DownIn(D \cup S, N, R)
  BY <1>4, <1>9 DEF DownIn, N
<1>11. /\ Len(o) <= limit
       /\ \E E : Covers(o, E, N, R) /\ (Len(o) = limit \/ E = D \cup S)
  <2>1. Lists(families, S, R)
    BY <1>9
  <2> QED
    BY <1>5, <1>6, <1>10, <2>1, OfferedCovers
<1> HIDE DEF o
<1>12. PICK E : Covers(o, E, N, R) /\ (Len(o) = limit \/ E = D \cup S)
  BY <1>11
<1> DEFINE U == Leads(M, R) \cap E
<1>13. DownIn(U, Leads(M, R), R) /\ Lists(o, U, R)
  <2>1. DownIn(E, N, R) /\ Lists(o, Leads(N, R) \cap E, R)
    BY <1>12 DEF Covers
  <2> QED
    BY <1>4, <2>1, LeadsAreIn DEF DownIn
<1>14. ASSUME D = {} PROVE Len(o) = limit \/ U = Leads(M, R)
  <2>1. M = B /\ N = L /\ L = Leads(M, R)
    BY <1>14 DEF N, L
  <2>2. Len(page) = 0
    <3>1. Lists(page, {}, R)
      BY <1>2, <1>14
    <3> QED
      BY <3>1, ListsHas
  <2>3. n = limit
    BY <2>2 DEF n
  <2>4. CASE E = D \cup S
    <3>1. U = S
      BY <1>9, <1>14, <2>1, <2>4 DEF DownIn
    <3>2. IsFiniteSet(S) /\ StrictOrder(R, S)
      <4>1. S \in SUBSET L /\ IsFiniteSet(L)
        BY <1>5, <1>9, <2>1 DEF DownIn
      <4> QED
        BY <1>7, <4>1, FS_Subset, OrderOfPart
    <3>3. Len(o) = Len(families)
      BY <1>9, <1>13, <3>1, <3>2, ListsLen
    <3> QED
      BY <1>9, <2>1, <2>3, <3>1, <3>3
  <2> QED
    BY <1>12, <2>4
<1> HIDE DEF U
<1>15. D = {} => Shows(o, Leads(M, R), R, limit)
  BY <1>11, <1>13, <1>14 DEF Shows
<1>16. Len(o) <= limit /\ \E V : DownIn(V, Leads(M, R), R) /\ Lists(o, V, R)
  BY <1>11, <1>13
<1> QED
  BY <1>15, <1>16 DEF o, families, n, all

\* A family page, continued from what it covers: it shows the first families of all there
\* are; a keyed one that favourites began, some of them.
LEMMA FamilyPageShows ==
  ASSUME NEW d \in Snapshots, NEW hd, NEW ks, NEW candidate,
         candidate.form = "finite" => candidate.ids \subseteq Live(d),
         NEW sort \in {"newest", "score"}, NEW window, NEW limit \in Nat,
         UsesHead(candidate, sort) => hd = LaneHead(d),
         UsesKeys(candidate, sort) => ks = SortKeys(d),
         NEW M \in SUBSET Post, NEW R, StrictOrder(R, M), NEW D, NEW page,
         Covers(page, D, M, R), Len(page) <= limit,
         M = D \cup (Accepted(candidate, window) \cap Live(d)),
         \A p, q \in Accepted(candidate, window) \cap Live(d) :
            <<p, q>> \in R <=> <<p, q>> \in SortOrder(sort, SortKeys(d))
  PROVE  LET o == ExtendFamilyPage(page, d, hd, ks, candidate, sort, window, limit) IN
         /\ Len(o) <= limit /\ \E U : DownIn(U, Leads(M, R), R) /\ Lists(o, U, R)
         /\ (UsesKeys(candidate, sort) /\ D # {}) \/ Shows(o, Leads(M, R), R, limit)
<1> DEFINE acc == Accepted(candidate, window)
           B == acc \cap Live(d)
           Q == SortOrder(sort, SortKeys(d))
           o == ExtendFamilyPage(page, d, hd, ks, candidate, sort, window, limit)
<1>1. /\ Live(d) \in SUBSET Post /\ \A p \in Live(d) : SortKeys(d)[p] \in Int
      /\ \A p \in Post : SortKeys(d)[p] # None <=> p \in Live(d)
  BY KeysOfLive
<1>2. B \in SUBSET Post /\ acc \in SUBSET Post /\ \A p \in B : SortKeys(d)[p] \in Int
  BY <1>1 DEF Accepted
<1>3. IsFiniteSet(M) /\ M = D \cup B /\ DownIn(D, M, R)
  BY PagesAssumption, FS_Subset DEF Covers
<1>4. \A p, q \in B : <<p, q>> \in Q => <<p, q>> \in R
  OBVIOUS
<1>5. Shows(o, Leads(M, R), R, limit)
        => Len(o) <= limit /\ \E U : DownIn(U, Leads(M, R), R) /\ Lists(o, U, R)
  BY DEF Shows
<1>6. CASE UsesKeys(candidate, sort)
  <2>1. sort = "score" /\ ks = SortKeys(d) /\ ~UsesHead(candidate, sort)
    BY <1>6 DEF UsesKeys, UsesHead
  <2>2. {p \in acc : ks[p] # None} = B
    BY <1>1, <1>2, <2>1
  <2> DEFINE s == Strongest(ks, B)
             families == Take(Offered(<<>>, s, Cardinality(Post)), limit - Len(page))
  <2>3. LocalSortedFamilyIds(ks, candidate, window, limit - Len(page)) = families
    BY <2>2 DEF LocalSortedFamilyIds
  <2>4. o = Offered(page, families, limit)
    BY <1>6, <2>1, <2>3 DEF ExtendFamilyPage
  <2>5. Lists(s, B, R)
    <3>1. Lists(s, B, Q)
      BY <1>2, <2>1, StrongestLists
    <3> HIDE DEF s, Q, B
    <3> QED
      BY <1>4, <3>1, ListsSame
  <2> HIDE DEF o, s, B
  <2>6. /\ Len(Offered(page, families, limit)) <= limit
        /\ \E U : DownIn(U, Leads(M, R), R) /\ Lists(Offered(page, families, limit), U, R)
        /\ D = {} => Shows(Offered(page, families, limit), Leads(M, R), R, limit)
    BY <1>3, <2>5, KeyedFamiliesShow
  <2> QED
    BY <1>6, <2>4, <2>6 DEF o
<1>7. CASE UsesHead(candidate, sort)
  <2>1. sort = "score" /\ hd = LaneHead(d) /\ ~UsesKeys(candidate, sort)
    BY <1>7 DEF UsesHead
  <2> DEFINE h == Among(hd, acc)
             s == Among(Lane(d), acc)
  <2>2. o = Offered(Offered(page, h, limit), s, limit)
    BY <1>7, <2>1 DEF ExtendFamilyPage, ExtendRankedFamilyPage
  <2>3. /\ StrictOrder(Q, Live(d)) /\ Lists(Lane(d), Live(d), Q)
        /\ \E U : DownIn(U, Live(d), Q) /\ Lists(LaneHead(d), U, Q)
    BY <2>1, LaneLists
  <2>4. PICK U : DownIn(U, Live(d), Q) /\ Lists(hd, U, Q)
    BY <2>1, <2>3
  <2> HIDE DEF Q, acc
  <2>5. Lists(h, U \cap acc, Q) /\ Lists(s, Live(d) \cap acc, Q) /\ Live(d) \cap acc = B
    BY <2>3, <2>4, AmongLists
  <2>6. U \cap acc \subseteq B /\ DownIn(U \cap acc, B, Q)
    <3>1. DownIn(U \cap acc, Live(d) \cap acc, Q)
      BY <2>4, DownInPart
    <3> QED
      BY <2>5, <3>1 DEF DownIn
  <2> HIDE DEF B, h, s, o
  <2>7. Lists(h, U \cap acc, R)
    <3>1. \A p, q \in U \cap acc : <<p, q>> \in Q => <<p, q>> \in R
      BY <1>4, <2>6
    <3> QED
      BY <2>5, <3>1, ListsSame
  <2>8. Lists(s, B, R)
    BY <1>4, <2>5, ListsSame
  <2>9. DownIn(D \cup (U \cap acc), M, R)
    <3>1. \A p, q \in B : <<p, q>> \in R <=> <<p, q>> \in Q
      BY DEF B, Q, acc
    <3> QED
      BY <1>3, <2>6, <3>1 DEF DownIn
  <2>10. Shows(Offered(Offered(page, h, limit), s, limit), Leads(M, R), R, limit)
    BY <1>3, <2>7, <2>8, <2>9, HeadThenLaneShows
  <2> QED
    BY <1>5, <2>2, <2>10 DEF o
<1>8. CASE ~UsesKeys(candidate, sort) /\ ~UsesHead(candidate, sort)
  <2>1. sort = "newest"
    BY <1>8 DEF UsesHead
  <2>2. (IF candidate.form = "finite" THEN acc ELSE acc \cap Live(d)) = B
    BY <1>2 DEF Accepted, Admits
  <2>3. o = Offered(page, Newest(B), limit)
    BY <1>8, <2>1, <2>2 DEF ExtendFamilyPage, ExtendNewestFamilyPage, NewestIds
  <2>4. Lists(Newest(B), B, R)
    <3>1. Lists(Newest(B), B, Q)
      BY <1>2, <2>1, NewestLists
    <3> HIDE DEF Q, B
    <3> QED
      BY <1>4, <3>1, ListsSame
  <2> HIDE DEF B, o
  <2>5. Shows(Offered(page, Newest(B), limit), Leads(M, R), R, limit)
    BY <1>3, <2>4, OfferedShows
  <2> QED
    BY <1>5, <2>3, <2>5 DEF o
<1> QED
  BY <1>6, <1>7, <1>8

-----------------------------------------------------------------------------
(* Pages with favourites first                                             *)

\* The favourites a search is given: their ids, and the allocation that holds them.
Given == [ids : SUBSET Post, arc : Nat]

\* No ranks are None.
LEMMA NoneIsNoRanks == None \notin [source : Given, available : SUBSET Post, score : Seq(Post)]
  BY ReadCachesAssumption DEF Given

\* The ranks made of a snapshot list its live favourites in the order of either sort.
LEMMA FavoriteOrderLists ==
  ASSUME NEW d \in Snapshots, NEW given \in Given, NEW sort \in {"newest", "score"}
  PROVE  LET ranked == FavoriteRanks(d, given) IN
         /\ ranked # None /\ ranked.available = given.ids \cap Live(d)
         /\ Lists(FavoriteOrder(ranked, sort), given.ids \cap Live(d), SortOrder(sort, SortKeys(d)))
<1> DEFINE held == [p \in given.ids |-> d[p]]
           A == given.ids \cap Live(d)
           ranked == FavoriteRanks(d, given)
<1>1. given.ids \in SUBSET Post
  BY DEF Given
<1>2. /\ Live(d) \in SUBSET Post /\ \A p \in Live(d) : SortKeys(d)[p] \in Int
  BY KeysOfLive
<1>3. Live(held) = A
  BY <1>1 DEF Live, Snapshots
<1>4. \A p \in A : SortKeys(held)[p] = SortKeys(d)[p]
  BY <1>1 DEF SortKeys, Snapshots
<1>5. ranked = [source |-> given, available |-> A, score |-> Strongest(SortKeys(held), A)]
  BY <1>3 DEF FavoriteRanks
<1>6. Lists(Strongest(SortKeys(held), A), A, SortOrder("score", SortKeys(held)))
  <2>1. A \in SUBSET Post /\ \A p \in A : SortKeys(held)[p] \in Int
    BY <1>2, <1>4
  <2> HIDE DEF A, held
  <2> QED
    BY <2>1, StrongestLists
<1> HIDE DEF held
<1>7. \A p, q \in A : <<p, q>> \in SortOrder("score", SortKeys(held))
                        => <<p, q>> \in SortOrder("score", SortKeys(d))
  BY <1>4 DEF SortOrder
<1>8. Lists(Strongest(SortKeys(held), A), A, SortOrder("score", SortKeys(d)))
  <2> HIDE DEF A
  <2> QED
    BY <1>6, <1>7, ListsSame
<1>9. Lists(Newest(A), A, SortOrder("newest", SortKeys(d)))
  <2>1. A \in SUBSET Post
    BY <1>2
  <2> HIDE DEF A
  <2> QED
    BY <2>1, NewestLists
<1>10. ranked # None
  <2>1. Strongest(SortKeys(held), A) \in Seq(Post)
    <3>1. Strongest(SortKeys(held), A) \in Seq(A) /\ A \subseteq Post
      BY <1>2, <1>6 DEF Lists
    <3> HIDE DEF A
    <3> QED
      BY <3>1, SeqWiden
  <2>2. A \in SUBSET Post
    BY <1>2
  <2> HIDE DEF A
  <2> QED
    BY <1>5, <2>1, <2>2, NoneIsNoRanks
<1>11. FavoriteOrder(ranked, sort) = IF sort = "newest" THEN Newest(A) ELSE Strongest(SortKeys(held), A)
  BY <1>5 DEF FavoriteOrder
<1>12. Lists(FavoriteOrder(ranked, sort), A, SortOrder(sort, SortKeys(d)))
  BY <1>8, <1>9, <1>11
<1> QED
  BY <1>5, <1>10, <1>12

\* The order of a page: favourites first, each half in the order that is asked for.
PageOrder(d, F, sort) == FavoritesFirst(SortOrder(sort, SortKeys(d)), F)

\* The live posts of a snapshot that a search lets through.
Found(d, candidate, window) == Accepted(candidate, window) \cap Live(d)

\* A page that shows, in order, what comes first of a set, and no more than n of it.
Begins(s, M, R, n) == Len(s) <= n /\ \E U : DownIn(U, M, R) /\ Lists(s, U, R)

\* The order of a page is a strict one of live posts.
LEMMA PageOrderIsStrict ==
  ASSUME NEW d \in Snapshots, NEW F, NEW sort \in {"newest", "score"}, NEW M \in SUBSET Live(d)
  PROVE  LET Q == SortOrder(sort, SortKeys(d))
             R == PageOrder(d, F, sort)
         IN  /\ StrictOrder(Q, M) /\ StrictOrder(R, M)
             /\ \A p \in M \cap F, q \in M \ F : <<p, q>> \in R /\ <<q, p>> \notin R
             /\ \A p, q \in M \cap F : <<p, q>> \in R <=> <<p, q>> \in Q
             /\ \A p, q \in M \ F : <<p, q>> \in R <=> <<p, q>> \in Q
<1> DEFINE Q == SortOrder(sort, SortKeys(d))
<1>1. M \in SUBSET Post /\ \A p \in M : SortKeys(d)[p] \in Int
  BY KeysOfLive
<1>2. StrictOrder(Q, M)
  BY <1>1, SortIsStrict
<1> HIDE DEF Q
<1>3. /\ StrictOrder(FavoritesFirst(Q, F), M)
      /\ \A p \in M \cap F, q \in M \ F : <<p, q>> \in FavoritesFirst(Q, F)
      /\ \A p, q \in M \cap F : <<p, q>> \in FavoritesFirst(Q, F) <=> <<p, q>> \in Q
      /\ \A p, q \in M \ F : <<p, q>> \in FavoritesFirst(Q, F) <=> <<p, q>> \in Q
      /\ \A p \in M \ F, q \in M \cap F : <<p, q>> \notin FavoritesFirst(Q, F)
  BY <1>1, <1>2, FavoritesFirstIsStrict
<1> QED
  BY <1>2, <1>3 DEF PageOrder, Q

\* A page of posts, favourites first when there are any.
LEMMA PostPageShows ==
  ASSUME NEW d \in Snapshots, NEW given \in Given, NEW candidate,
         candidate.form \in {"finite", "cofinite"},
         candidate.form = "finite" => candidate.ids \subseteq Live(d),
         NEW sort \in {"newest", "score"}, NEW window, NEW limit \in Nat,
         NEW ranked, ranked = IF given.ids = {} THEN None ELSE FavoriteRanks(d, given),
         NEW rest, rest = IF ranked = None THEN candidate ELSE Ordinary(candidate, ranked),
         NEW filled, filled <=>
           /\ ranked # None
           /\ Len(Among(FavoriteOrder(ranked, sort), Accepted(Favored(candidate, ranked), window)))
                >= limit,
         NEW hd, NEW ks,
         ~filled /\ UsesHead(rest, sort) => hd = LaneHead(d),
         ~filled /\ UsesKeys(rest, sort) => ks = SortKeys(d)
  PROVE  Shows(FavoriteOrderedIds(d, hd, ks, candidate, ranked, sort, window, limit),
               Found(d, candidate, window), PageOrder(d, given.ids, sort), limit)
<1> SUFFICES Shows(FavoriteOrderedIds(d, hd, ks, candidate, ranked, sort, window, limit),
                   Accepted(candidate, window) \cap Live(d), PageOrder(d, given.ids, sort), limit)
  BY DEF Found
<1> DEFINE F == given.ids
           M == Accepted(candidate, window) \cap Live(d)
           Q == SortOrder(sort, SortKeys(d))
           R == PageOrder(d, F, sort)
           ids == FavoriteOrderedIds(d, hd, ks, candidate, ranked, sort, window, limit)
<1>1. /\ StrictOrder(Q, M) /\ StrictOrder(R, M)
      /\ \A p \in M \cap F, q \in M \ F : <<p, q>> \in R /\ <<q, p>> \notin R
      /\ \A p, q \in M \cap F : <<p, q>> \in R <=> <<p, q>> \in Q
      /\ \A p, q \in M \ F : <<p, q>> \in R <=> <<p, q>> \in Q
  <2>1. M \in SUBSET Live(d)
    OBVIOUS
  <2> HIDE DEF M
  <2> QED
    BY <2>1, PageOrderIsStrict
<1>2. CASE F = {}
  <2>1. ranked = None /\ rest = candidate /\ ~filled /\ M \ F = M
    BY <1>2
  <2>2. ids = PostIds(d, hd, ks, candidate, sort, window, limit)
    BY <2>1 DEF FavoriteOrderedIds
  <2>3. Shows(ids, M, Q, limit)
    <3>1. /\ UsesHead(candidate, sort) => hd = LaneHead(d)
          /\ UsesKeys(candidate, sort) => ks = SortKeys(d)
      BY <2>1
    <3>2. Shows(PostIds(d, hd, ks, candidate, sort, window, limit), M, Q, limit)
      BY <3>1, PostIdsShows
    <3> QED
      BY <2>2, <3>2
  <2> HIDE DEF M, Q, R, ids
  <2> QED
    BY <1>1, <2>1, <2>3, ShowsSame DEF M, R, ids
<1>3. CASE F # {}
  <2> DEFINE A == F \cap Live(d)
             favored == Among(FavoriteOrder(ranked, sort), Accepted(Favored(candidate, ranked), window))
             first == Take(favored, limit)
  <2>1. /\ ranked # None /\ ranked.available = A
        /\ Lists(FavoriteOrder(ranked, sort), A, Q)
    BY <1>3, FavoriteOrderLists
  <2>2. /\ A \cap Accepted(Favored(candidate, ranked), window) = M \cap F
        /\ Accepted(Ordinary(candidate, ranked), window) \cap Live(d) = M \ F
    <3>1. \A p \in Post : /\ Admits(Favored(candidate, ranked), p) <=> Admits(candidate, p) /\ p \in A
                          /\ Admits(Ordinary(candidate, ranked), p) <=> Admits(candidate, p) /\ p \notin A
      BY <2>1, HalvesAdmit
    <3> QED
      BY <3>1 DEF Accepted
  <2>3. Lists(favored, M \cap F, R)
    <3>1. Lists(favored, M \cap F, Q)
      <4> HIDE DEF A, Q, M
      <4> QED
        BY <2>1, <2>2, AmongLists
    <3> HIDE DEF favored, M, Q, R
    <3> QED
      BY <1>1, <3>1, ListsSame
  <2>4. StrictOrder(R, M \cap F)
    <3>1. M \cap F \in SUBSET M
      OBVIOUS
    <3> HIDE DEF M, R
    <3> QED
      BY <1>1, <3>1, OrderOfPart
  <2>5. Shows(first, M \cap F, R, limit)
    <3> HIDE DEF favored, M, R
    <3> QED
      BY <2>3, <2>4, ListShows
  <2>6. CASE Len(first) = limit
    <3>1. ids = first
      BY <2>1, <2>6 DEF FavoriteOrderedIds
    <3>2. DownIn(M \cap F, M, R)
      BY <1>1 DEF DownIn
    <3> HIDE DEF first, M, R, ids
    <3> QED
      BY <2>5, <2>6, <3>1, <3>2, ShowsFull DEF M, R, ids
  <2>7. CASE Len(first) # limit
    <3>1. Len(first) \in Nat /\ Len(first) < limit /\ Len(favored) \in Nat /\ Len(favored) < limit
      <4>1. favored \in Seq(M \cap F)
        BY <2>3 DEF Lists
      <4> HIDE DEF favored
      <4> QED
        BY <2>7, <4>1 DEF Take, Smaller
    <3>2. ~filled /\ rest = Ordinary(candidate, ranked) /\ limit - Len(first) \in Nat
      BY <2>1, <3>1
    <3> DEFINE more == PostIds(d, hd, ks, rest, sort, window, limit - Len(first))
    <3>3. ids = first \o more
      BY <2>1, <2>7, <3>2 DEF FavoriteOrderedIds
    <3>4. rest.form = "finite" => rest.ids \subseteq Live(d)
      BY <3>2, OrdinaryIsPart
    <3>5. Shows(more, Accepted(rest, window) \cap Live(d), Q, limit - Len(first))
      <4> HIDE DEF first
      <4> QED
        BY <3>2, <3>4, PostIdsShows
    <3>6. Shows(more, M \ F, Q, limit - Len(first))
      BY <2>2, <3>2, <3>5
    <3> HIDE DEF first, more, M, Q, R, ids
    <3>7. Shows(more, M \ F, R, limit - Len(first))
      BY <1>1, <3>6, ShowsSame
    <3>8. Shows(first \o more, (M \cap F) \cup (M \ F), R, limit)
      BY <1>1, <2>5, <2>7, <3>7, ShowsJoin
    <3>9. (M \cap F) \cup (M \ F) = M
      OBVIOUS
    <3> QED
      BY <3>3, <3>8, <3>9 DEF M, R, ids
  <2> QED
    BY <2>6, <2>7
<1> QED
  BY <1>2, <1>3

\* The families favourites alone fill a page with.
FavoriteFamilies(candidate, held, sort, window, limit) ==
    Offered(<<>>, Among(FavoriteOrder(held, sort), Accepted(Favored(candidate, held), window)), limit)

\* A page of families: the first of them, or, keyed and begun by favourites, some.
LEMMA FamilyIdsShow ==
  ASSUME NEW d \in Snapshots, NEW given \in Given, NEW candidate,
         candidate.form \in {"finite", "cofinite"},
         candidate.form = "finite" => candidate.ids \subseteq Live(d),
         NEW sort \in {"newest", "score"}, NEW window, NEW limit \in Nat,
         NEW ranked, ranked = IF given.ids = {} THEN None ELSE FavoriteRanks(d, given),
         NEW rest, rest = IF ranked = None THEN candidate ELSE Ordinary(candidate, ranked),
         NEW filled, filled <=>
           /\ ranked # None
           /\ Len(FavoriteFamilies(candidate, ranked, sort, window, limit)) >= limit,
         NEW hd, NEW ks,
         ~filled /\ UsesHead(rest, sort) => hd = LaneHead(d),
         ~filled /\ UsesKeys(rest, sort) => ks = SortKeys(d)
  PROVE  LET M == Found(d, candidate, window)
             R == PageOrder(d, given.ids, sort)
             ids == FamilyIds(d, hd, ks, candidate, ranked, sort, window, limit)
         IN  /\ Begins(ids, Leads(M, R), R, limit)
             /\ (ranked # None /\ UsesKeys(rest, sort)) \/ Shows(ids, Leads(M, R), R, limit)
<1> DEFINE F == given.ids
           M == Accepted(candidate, window) \cap Live(d)
           Q == SortOrder(sort, SortKeys(d))
           R == PageOrder(d, F, sort)
           ids == FamilyIds(d, hd, ks, candidate, ranked, sort, window, limit)
           Want == /\ Len(ids) <= limit /\ \E U : DownIn(U, Leads(M, R), R) /\ Lists(ids, U, R)
                   /\ (ranked # None /\ UsesKeys(rest, sort)) \/ Shows(ids, Leads(M, R), R, limit)
<1> SUFFICES Want
  BY DEF Found, Begins
<1>1. /\ M \in SUBSET Live(d) /\ M \in SUBSET Post /\ IsFiniteSet(M)
      /\ StrictOrder(Q, M) /\ StrictOrder(R, M)
      /\ \A p \in M \cap F, q \in M \ F : <<p, q>> \in R /\ <<q, p>> \notin R
      /\ \A p, q \in M \cap F : <<p, q>> \in R <=> <<p, q>> \in Q
      /\ \A p, q \in M \ F : <<p, q>> \in R <=> <<p, q>> \in Q
  <2>1. M \in SUBSET Live(d)
    OBVIOUS
  <2>2. Live(d) \in SUBSET Post /\ IsFiniteSet(Live(d))
    BY KeysOfLive
  <2> HIDE DEF M
  <2> QED
    BY <2>1, <2>2, PageOrderIsStrict, FS_Subset
<1>2. Shows(ids, Leads(M, R), R, limit) => Want
  BY DEF Shows
<1>3. CASE F = {}
  <2>1. ranked = None /\ rest = candidate /\ ~filled /\ M \ F = M
    BY <1>3
  <2>2. ids = ExtendFamilyPage(<<>>, d, hd, ks, candidate, sort, window, limit)
    BY <2>1 DEF FamilyIds
  <2>3. /\ UsesHead(candidate, sort) => hd = LaneHead(d)
        /\ UsesKeys(candidate, sort) => ks = SortKeys(d)
    BY <2>1
  <2>4. \A p, q \in Accepted(candidate, window) \cap Live(d) :
           <<p, q>> \in R <=> <<p, q>> \in SortOrder(sort, SortKeys(d))
    BY <1>1, <2>1
  <2> DEFINE page == <<>>
             D == {}
  <2>5. Covers(page, D, M, R) /\ Len(page) <= limit
    BY NothingCovered
  <2>6. /\ M = D \cup (Accepted(candidate, window) \cap Live(d))
        /\ M \in SUBSET Post /\ StrictOrder(R, M)
    BY <1>1
  <2> HIDE DEF page, D, M, R
  <2>7. LET o == ExtendFamilyPage(page, d, hd, ks, candidate, sort, window, limit) IN
        /\ Len(o) <= limit /\ \E U : DownIn(U, Leads(M, R), R) /\ Lists(o, U, R)
        /\ (UsesKeys(candidate, sort) /\ D # {}) \/ Shows(o, Leads(M, R), R, limit)
    BY ONLY d \in Snapshots, candidate.form = "finite" => candidate.ids \subseteq Live(d),
            sort \in {"newest", "score"}, limit \in Nat,
            <2>3, <2>4, <2>5, <2>6, FamilyPageShows
  <2>8. D = {} /\ ids = ExtendFamilyPage(page, d, hd, ks, candidate, sort, window, limit)
    BY <2>2 DEF D, page
  <2> HIDE DEF ids, Want
  <2> QED
    BY <1>2, <2>7, <2>8
<1>4. CASE F # {}
  <2> DEFINE A == F \cap Live(d)
             favored == Among(FavoriteOrder(ranked, sort), Accepted(Favored(candidate, ranked), window))
             first == Offered(<<>>, favored, limit)
  <2>1. /\ ranked # None /\ ranked.available = A
        /\ Lists(FavoriteOrder(ranked, sort), A, Q)
    BY <1>4, FavoriteOrderLists
  <2>2. /\ A \cap Accepted(Favored(candidate, ranked), window) = M \cap F
        /\ Accepted(Ordinary(candidate, ranked), window) \cap Live(d) = M \ F
    <3>1. \A p \in Post : /\ Admits(Favored(candidate, ranked), p) <=> Admits(candidate, p) /\ p \in A
                          /\ Admits(Ordinary(candidate, ranked), p) <=> Admits(candidate, p) /\ p \notin A
      BY <2>1, HalvesAdmit
    <3> QED
      BY <3>1 DEF Accepted
  <2>3. Lists(favored, M \cap F, R)
    <3>1. Lists(favored, M \cap F, Q)
      <4> HIDE DEF A, Q, M
      <4> QED
        BY <2>1, <2>2, AmongLists
    <3> HIDE DEF favored, M, Q, R
    <3> QED
      BY <1>1, <3>1, ListsSame
  <2>4. DownIn(M \cap F, M, R)
    BY <1>1 DEF DownIn
  <2>5. /\ Len(first) <= limit
        /\ \E E : Covers(first, E, M, R) /\ (Len(first) = limit \/ E = M \cap F)
    <3> DEFINE page == <<>>
               D == {}
    <3>1. Covers(page, D, M, R) /\ Len(page) <= limit
      BY NothingCovered
    <3> DEFINE S == M \cap F
    <3>2. /\ DownIn(D \cup S, M, R) /\ Lists(favored, S, R)
          /\ IsFiniteSet(M) /\ StrictOrder(R, M)
      BY <1>1, <2>3, <2>4
    <3> HIDE DEF page, D, M, R, favored, S
    <3>3. LET o == Offered(page, favored, limit) IN
          /\ Len(o) <= limit
          /\ \E E : Covers(o, E, M, R) /\ (Len(o) = limit \/ E = D \cup S)
      BY ONLY limit \in Nat, <3>1, <3>2, OfferedCovers
    <3> QED
      BY <3>3 DEF page, D, S
  <2> HIDE DEF favored
  <2>6. PICK E : Covers(first, E, M, R) /\ (Len(first) = limit \/ E = M \cap F)
    BY <2>5
  <2>7. CASE Len(first) = limit
    <3>1. ids = first
      BY <2>1, <2>7 DEF FamilyIds, favored
    <3> HIDE DEF first, M, R, ids, Want
    <3> QED
      BY <1>2, <2>5, <2>6, <2>7, <3>1, CoversShows
  <2>8. CASE Len(first) # limit
    <3>1. Covers(first, M \cap F, M, R)
      BY <2>6, <2>8
    <3>2. Len(first) \in Nat /\ Len(first) < limit
      <4>1. Len(first) \in Nat
        BY <3>1, ListsHas DEF Covers
      <4> QED
        BY <2>5, <2>8, <4>1
    <3>3. ~filled /\ rest = Ordinary(candidate, ranked)
      BY <2>1, <3>2 DEF favored, FavoriteFamilies
    <3>4. ids = ExtendFamilyPage(first, d, hd, ks, rest, sort, window, limit)
      BY <2>1, <2>8, <3>3 DEF FamilyIds, favored
    <3>5. rest.form = "finite" => rest.ids \subseteq Live(d)
      BY <3>3, OrdinaryIsPart
    <3>6. Accepted(rest, window) \cap Live(d) = M \ F
      BY <2>2, <3>3
    <3>7. M = (M \cap F) \cup (Accepted(rest, window) \cap Live(d))
      BY <3>6
    <3>8. \A p, q \in Accepted(rest, window) \cap Live(d) :
             <<p, q>> \in R <=> <<p, q>> \in SortOrder(sort, SortKeys(d))
      BY <1>1, <3>6
    <3>9. /\ UsesHead(rest, sort) => hd = LaneHead(d)
          /\ UsesKeys(rest, sort) => ks = SortKeys(d)
      BY <3>3
    <3> DEFINE D == M \cap F
    <3>10. M = D \cup (Accepted(rest, window) \cap Live(d)) /\ M \in SUBSET Post /\ StrictOrder(R, M)
      BY <1>1, <3>7
    <3>11. Covers(first, D, M, R)
      BY <3>1
    <3> HIDE DEF first, M, R, D
    <3>12. LET o == ExtendFamilyPage(first, d, hd, ks, rest, sort, window, limit) IN
           /\ Len(o) <= limit /\ \E U : DownIn(U, Leads(M, R), R) /\ Lists(o, U, R)
           /\ (UsesKeys(rest, sort) /\ D # {}) \/ Shows(o, Leads(M, R), R, limit)
      BY ONLY d \in Snapshots, sort \in {"newest", "score"}, limit \in Nat,
              <2>5, <3>5, <3>8, <3>9, <3>10, <3>11, FamilyPageShows
    <3> HIDE DEF ids
    <3> QED
      BY <2>1, <3>4, <3>12
  <2> QED
    BY <2>7, <2>8
<1> QED
  BY <1>3, <1>4

-----------------------------------------------------------------------------
(* The window of the days that are asked for                               *)

\* The least of a set of naturals that is not empty.
LEMMA LeastOf ==
  ASSUME NEW S \in SUBSET Nat, S # {}
  PROVE  Min(S) \in S /\ \A x \in S : Min(S) <= x
<1>1. PICK n \in S : \A m \in S : n <= m
  BY NatMin
<1> QED
  BY <1>1 DEF Min

\* The greatest of a set of posts that is not empty: posts are finitely many.
LEMMA GreatestOf ==
  ASSUME NEW S \in SUBSET Post, S # {}
  PROVE  Max(S) \in S /\ \A x \in S : x <= Max(S)
<1> DEFINE R == {pq \in Post \X Post : pq[1] > pq[2]}
<1>1. Post \subseteq Int /\ IsFiniteSet(Post)
  BY PagesAssumption
<1>2. \A p, q \in Post : <<p, q>> \in R <=> p > q
  OBVIOUS
<1> HIDE DEF R
<1>3. StrictOrder(R, Post)
  BY <1>1, <1>2 DEF StrictOrder
<1>4. S \subseteq Post /\ S \in SUBSET Post /\ S # {} /\ IsFiniteSet(Post)
  BY <1>1
<1>5. PICK p \in S : \A q \in S : q = p \/ <<p, q>> \in R
  BY ONLY <1>3, <1>4, FirstOf
<1>6. ASSUME NEW q \in S PROVE p >= q
  <2>1. q = p \/ p > q
    BY <1>2, <1>5, <1>4
  <2>2. p \in Int /\ q \in Int
    BY <1>1, <1>4
  <2> QED
    BY <2>1, <2>2
<1>7. Max(S) \in S /\ \A y \in S : Max(S) >= y
  BY <1>6 DEF Max
<1> QED
  BY <1>1, <1>4, <1>7

\* What is no larger than the others is the least.
LEMMA LeastIs ==
  ASSUME NEW S \in SUBSET Nat, NEW m \in S, \A x \in S : m <= x
  PROVE  Min(S) = m
<1>1. Min(S) \in S /\ Min(S) <= m /\ m <= Min(S)
  BY LeastOf
<1>2. m \in Nat /\ Min(S) \in Nat
  BY <1>1
<1> QED
  BY <1>1, <1>2

\* What is no smaller than the others is the greatest.
LEMMA GreatestIs ==
  ASSUME NEW S \in SUBSET Post, NEW m \in S, \A x \in S : x <= m
  PROVE  Max(S) = m
<1>1. Max(S) \in S /\ Max(S) <= m /\ m <= Max(S)
  BY GreatestOf
<1>2. m \in Nat /\ Max(S) \in Nat
  BY <1>1, PagesAssumption
<1> QED
  BY <1>1, <1>2

\* The post is of a day at or past the edge.
InDay(edge, target, p) == IF edge = "lower" THEN DayOf[p] >= target ELSE DayOf[p] <= target

\* The live posts on that side of the edge, among the ids from lo to hi.
Inside(d, edge, target, lo, hi) == {p \in Live(d) : lo <= p /\ p <= hi /\ InDay(edge, target, p)}

\* The outermost post of a set, and the answer so far when there is none.
Edge(edge, S, answer) ==
    IF S = {} THEN answer ELSE IF edge = "lower" THEN Min(S) ELSE Max(S)

\* day_bound finds the outermost live post of the days, though it probes few of them: posts
\* are of days that never fall as their ids climb.
LEMMA DayBoundIsEdge ==
  ASSUME NEW d, Live(d) \in SUBSET Post, Live(d) # {}, NEW edge \in {"lower", "upper"}, NEW target \in Nat
  PROVE  DayBound(d, edge, target)
           = Edge(edge, {p \in Live(d) : InDay(edge, target, p)}, None)
<1> DEFINE L == Live(d)
           top == Max(L)
           A == 0 .. top + 1
           B == -1 .. top
           C == Post \cup {None}
           Mid(lo, hi) == lo + ((hi - lo) \div 2)
           Probes(lo, hi) == {p \in L : IF edge = "lower" THEN Mid(lo, hi) <= p /\ p <= hi
                                                          ELSE lo <= p /\ p <= Mid(lo, hi)}
           Pid(lo, hi) == IF edge = "lower" THEN Min(Probes(lo, hi)) ELSE Max(Probes(lo, hi))
           Hit(lo, hi) == InDay(edge, target, Pid(lo, hi))
           W(lo, hi) == Inside(d, edge, target, lo, hi)
           F(f, at) ==
             IF at[1] > at[2] THEN at[3]
             ELSE IF Probes(at[1], at[2]) = {} /\ edge = "lower"
                  THEN f[<<at[1], Mid(at[1], at[2]) - 1, at[3]>>]
             ELSE IF Probes(at[1], at[2]) = {} THEN f[<<Mid(at[1], at[2]) + 1, at[2], at[3]>>]
             ELSE IF Hit(at[1], at[2]) <=> edge = "lower"
                  THEN f[<<at[1], Pid(at[1], at[2]) - 1,
                           IF Hit(at[1], at[2]) THEN Pid(at[1], at[2]) ELSE at[3]>>]
                  ELSE f[<<Pid(at[1], at[2]) + 1, at[2],
                           IF Hit(at[1], at[2]) THEN Pid(at[1], at[2]) ELSE at[3]>>]
           Next2(f, lo, hi, answer) == F(f, <<lo, hi, answer>>)
           At == A \X B \X C
           Eq(f) == f = [at \in At |-> F(f, at)]
           bisect == CHOOSE f : Eq(f)
           G == [at \in At |-> Edge(edge, W(at[1], at[2]), at[3])]
<1>1. DayBound(d, edge, target) = bisect[<<0, top, None>>]
  BY DEF DayBound, InDay
<1>2. L \in SUBSET Post /\ L \in SUBSET Nat /\ top \in L /\ top \in Nat /\ \A p \in L : p <= top /\ p > 0
  <2>1. top \in L /\ \A p \in L : p <= top
    BY GreatestOf
  <2>2. \A p \in L : p \in Nat \ {0}
    BY PagesAssumption
  <2> HIDE DEF top
  <2> QED
    BY <2>1, <2>2
<1>3. A \subseteq Int /\ B \subseteq Int /\ \A lo \in A, hi \in B : 0 <= lo /\ lo <= top + 1 /\ -1 <= hi /\ hi <= top
  BY <1>2
<1>4. ASSUME NEW lo \in A, NEW hi \in B
      PROVE  /\ W(lo, hi) \in SUBSET L
             /\ lo > hi => W(lo, hi) = {}
             /\ lo <= hi => Mid(lo, hi) \in Int /\ lo <= Mid(lo, hi) /\ Mid(lo, hi) <= hi
  <2>1. W(lo, hi) \in SUBSET L
    BY DEF Inside
  <2>2. lo > hi => W(lo, hi) = {}
    BY <1>2, <1>3 DEF Inside
  <2>3. ASSUME lo <= hi PROVE Mid(lo, hi) \in Int /\ lo <= Mid(lo, hi) /\ Mid(lo, hi) <= hi
    <3>1. hi - lo \in Nat /\ lo \in Int /\ hi \in Int
      BY <1>3, <2>3
    <3>2. \A k \in Nat : k \div 2 \in Nat /\ k \div 2 <= k
      OBVIOUS
    <3>3. (hi - lo) \div 2 \in Nat /\ (hi - lo) \div 2 <= hi - lo
      BY <3>1, <3>2
    <3> QED
      BY <3>1, <3>3
  <2> QED
    BY <2>1, <2>2, <2>3
<1>5. \A p, q \in L : p <= q => DayOf[p] <= DayOf[q] /\ DayOf[p] \in Nat
  BY <1>2, PagesAssumption
<1>6. ASSUME NEW lo \in A, NEW hi \in B, lo <= hi
      PROVE  /\ Probes(lo, hi) = {} =>
                  IF edge = "lower" THEN W(lo, Mid(lo, hi) - 1) = W(lo, hi) /\ Mid(lo, hi) - 1 \in B
                  ELSE W(Mid(lo, hi) + 1, hi) = W(lo, hi) /\ Mid(lo, hi) + 1 \in A
             /\ Probes(lo, hi) # {} => Pid(lo, hi) \in L /\ lo <= Pid(lo, hi) /\ Pid(lo, hi) <= hi
  <2> DEFINE mid == Mid(lo, hi)
  <2>1. mid \in Int /\ lo <= mid /\ mid <= hi /\ lo \in Int /\ hi \in Int
    BY <1>3, <1>4, <1>6
  <2>2. mid - 1 \in B /\ mid + 1 \in A
    BY <1>2, <1>3, <2>1
  <2>3. Probes(lo, hi) \in SUBSET L /\ Probes(lo, hi) \in SUBSET Nat /\ Probes(lo, hi) \in SUBSET Post
    BY <1>2
  <2> HIDE DEF mid
  <2>4. ASSUME Probes(lo, hi) = {}, edge = "lower" PROVE W(lo, mid - 1) = W(lo, hi)
    <3>1. \A p \in L : ~(mid <= p /\ p <= hi)
      BY <2>4 DEF mid
    <3>2. \A p \in L : lo <= p /\ p <= mid - 1 <=> lo <= p /\ p <= hi
      BY <1>2, <2>1, <3>1
    <3> QED
      BY <3>2 DEF Inside
  <2>5. ASSUME Probes(lo, hi) = {}, edge # "lower" PROVE W(mid + 1, hi) = W(lo, hi)
    <3>1. \A p \in L : ~(lo <= p /\ p <= mid)
      BY <2>5 DEF mid
    <3>2. \A p \in L : mid + 1 <= p /\ p <= hi <=> lo <= p /\ p <= hi
      BY <1>2, <2>1, <3>1
    <3> QED
      BY <3>2 DEF Inside
  <2>6. ASSUME Probes(lo, hi) # {}
        PROVE  Pid(lo, hi) \in L /\ lo <= Pid(lo, hi) /\ Pid(lo, hi) <= hi
    <3>1. Pid(lo, hi) \in Probes(lo, hi)
      <4> HIDE DEF Probes
      <4> QED
        BY <2>3, <2>6, LeastOf, GreatestOf
    <3>2. \A p \in Probes(lo, hi) : p \in L /\ lo <= p /\ p <= hi
      BY <1>2, <2>1 DEF mid
    <3> HIDE DEF Pid, Probes
    <3> QED
      BY <3>1, <3>2
  <2> HIDE DEF Probes, Pid, W, A, B
  <2> QED
    BY <2>2, <2>4, <2>5, <2>6 DEF mid
<1>7. ASSUME NEW lo \in A, NEW hi \in B, lo <= hi, NEW pid \in L, lo <= pid, pid <= hi, NEW answer
      PROVE  /\ pid - 1 \in B /\ pid + 1 \in A
             /\ edge = "lower" /\ InDay(edge, target, pid) =>
                  Edge(edge, W(lo, pid - 1), pid) = Edge(edge, W(lo, hi), answer)
             /\ edge = "lower" /\ ~InDay(edge, target, pid) => W(pid + 1, hi) = W(lo, hi)
             /\ edge # "lower" /\ InDay(edge, target, pid) =>
                  Edge(edge, W(pid + 1, hi), pid) = Edge(edge, W(lo, hi), answer)
             /\ edge # "lower" /\ ~InDay(edge, target, pid) => W(lo, pid - 1) = W(lo, hi)
  <2>1. pid - 1 \in B /\ pid + 1 \in A /\ pid \in Nat /\ lo \in Int /\ hi \in Int
    BY <1>2, <1>3, <1>7
  <2>2. \A p \in L : p \in Nat /\ DayOf[p] \in Nat
    BY <1>2, <1>5
  <2>3. /\ \A p \in W(lo, hi) : p \in L /\ InDay(edge, target, p)
        /\ \A p : p \in W(lo, pid - 1) <=> p \in W(lo, hi) /\ p < pid
        /\ \A p : p \in W(pid + 1, hi) <=> p \in W(lo, hi) /\ p > pid
    <3>1. \A p \in L : lo <= p /\ p <= pid - 1 <=> lo <= p /\ p <= hi /\ p < pid
      BY <1>7, <2>1, <2>2
    <3>2. \A p \in L : pid + 1 <= p /\ p <= hi <=> lo <= p /\ p <= hi /\ p > pid
      BY <1>7, <2>1, <2>2
    <3> QED
      BY <3>1, <3>2 DEF Inside
  <2>4. InDay(edge, target, pid) => pid \in W(lo, hi)
    BY <1>7 DEF Inside
  <2>5. W(lo, hi) \in SUBSET Nat /\ W(lo, hi) \in SUBSET Post
    BY <1>2, <2>3
  <2> HIDE DEF W, A, B
  <2>6. ASSUME edge = "lower", InDay(edge, target, pid)
        PROVE  Edge(edge, W(lo, pid - 1), pid) = Edge(edge, W(lo, hi), answer)
    <3>1. CASE W(lo, pid - 1) = {}
      <4>1. ASSUME NEW p \in W(lo, hi) PROVE pid <= p
        <5>1. ~(p < pid)
          BY <2>3, <3>1
        <5>2. p \in Nat
          BY <2>5
        <5> QED
          BY <2>1, <5>1, <5>2
      <4>2. Min(W(lo, hi)) = pid
        BY <2>4, <2>5, <2>6, <4>1, LeastIs
      <4> QED
        BY <2>4, <2>6, <3>1, <4>2 DEF Edge
    <3>2. CASE W(lo, pid - 1) # {}
      <4> DEFINE m == Min(W(lo, pid - 1))
      <4>1. W(lo, pid - 1) \in SUBSET Nat
        BY <2>3, <2>5
      <4>2. m \in W(lo, pid - 1) /\ \A x \in W(lo, pid - 1) : m <= x
        BY <3>2, <4>1, LeastOf
      <4> HIDE DEF m
      <4>3. m \in W(lo, hi) /\ m < pid /\ m \in Nat
        BY <2>3, <2>5, <4>2
      <4>4. \A x \in W(lo, hi) : m <= x
        BY <2>1, <2>3, <2>5, <4>2, <4>3
      <4>5. Min(W(lo, hi)) = m
        BY <2>5, <4>3, <4>4, LeastIs
      <4> QED
        BY <2>4, <2>6, <3>2, <4>5 DEF Edge, m
    <3> QED
      BY <3>1, <3>2
  <2>7. ASSUME edge = "lower", ~InDay(edge, target, pid) PROVE W(pid + 1, hi) = W(lo, hi)
    <3>1. \A p \in W(lo, hi) : p > pid
      <4> SUFFICES ASSUME NEW p \in W(lo, hi) PROVE p > pid
        OBVIOUS
      <4>1. p \in L /\ DayOf[p] >= target /\ ~(DayOf[pid] >= target)
        BY <2>3, <2>7 DEF InDay
      <4>2. ~(p <= pid)
        BY <1>5, <2>2, <4>1
      <4> QED
        BY <2>1, <2>2, <4>1, <4>2
    <3> QED
      BY <2>3, <3>1
  <2>8. ASSUME edge # "lower", InDay(edge, target, pid)
        PROVE  Edge(edge, W(pid + 1, hi), pid) = Edge(edge, W(lo, hi), answer)
    <3>1. CASE W(pid + 1, hi) = {}
      <4>1. ASSUME NEW p \in W(lo, hi) PROVE p <= pid
        <5>1. ~(p > pid)
          BY <2>3, <3>1
        <5>2. p \in Nat
          BY <2>5
        <5> QED
          BY <2>1, <5>1, <5>2
      <4>2. Max(W(lo, hi)) = pid
        BY <2>4, <2>5, <2>8, <4>1, GreatestIs
      <4> QED
        BY <2>4, <2>8, <3>1, <4>2 DEF Edge
    <3>2. CASE W(pid + 1, hi) # {}
      <4> DEFINE m == Max(W(pid + 1, hi))
      <4>1. W(pid + 1, hi) \in SUBSET Post
        BY <2>3, <2>5
      <4>2. m \in W(pid + 1, hi) /\ \A x \in W(pid + 1, hi) : x <= m
        BY <3>2, <4>1, GreatestOf
      <4> HIDE DEF m
      <4>3. m \in W(lo, hi) /\ m > pid /\ m \in Nat
        BY <2>3, <2>5, <4>2
      <4>4. \A x \in W(lo, hi) : x <= m
        BY <2>1, <2>3, <2>5, <4>2, <4>3
      <4>5. Max(W(lo, hi)) = m
        BY <2>5, <4>3, <4>4, GreatestIs
      <4> QED
        BY <2>4, <2>8, <3>2, <4>5 DEF Edge, m
    <3> QED
      BY <3>1, <3>2
  <2>9. ASSUME edge # "lower", ~InDay(edge, target, pid) PROVE W(lo, pid - 1) = W(lo, hi)
    <3>1. \A p \in W(lo, hi) : p < pid
      <4> SUFFICES ASSUME NEW p \in W(lo, hi) PROVE p < pid
        OBVIOUS
      <4>1. p \in L /\ DayOf[p] <= target /\ ~(DayOf[pid] <= target)
        BY <2>3, <2>9 DEF InDay
      <4>2. ~(pid <= p)
        BY <1>5, <2>2, <4>1
      <4> QED
        BY <2>1, <2>2, <4>1, <4>2
    <3> QED
      BY <2>3, <3>1
  <2> QED
    BY <2>1, <2>6, <2>7, <2>8, <2>9
<1>8. ASSUME NEW lo \in A, NEW hi \in B, NEW answer \in C
      PROVE  /\ lo > hi => Edge(edge, W(lo, hi), answer) = answer
             /\ lo <= hi =>
                  \E lo2 \in A, hi2 \in B, found \in C :
                     /\ hi2 - lo2 < hi - lo
                     /\ \A f : Next2(f, lo, hi, answer) = f[<<lo2, hi2, found>>]
                     /\ Edge(edge, W(lo2, hi2), found) = Edge(edge, W(lo, hi), answer)
  <2>1. lo > hi => Edge(edge, W(lo, hi), answer) = answer
    BY <1>4 DEF Edge
  <2> SUFFICES ASSUME lo <= hi
               PROVE  \E lo2 \in A, hi2 \in B, found \in C :
                     /\ hi2 - lo2 < hi - lo
                     /\ \A f : Next2(f, lo, hi, answer) = f[<<lo2, hi2, found>>]
                     /\ Edge(edge, W(lo2, hi2), found) = Edge(edge, W(lo, hi), answer)
    BY <2>1
  <2> DEFINE mid == Mid(lo, hi)
             pid == Pid(lo, hi)
  <2>2. lo \in Int /\ hi \in Int /\ ~(lo > hi) /\ mid \in Int /\ lo <= mid /\ mid <= hi
    BY <1>3, <1>4
  <2>3. CASE Probes(lo, hi) = {} /\ edge = "lower"
    <3>1. W(lo, mid - 1) = W(lo, hi) /\ mid - 1 \in B
      BY <1>6, <2>3
    <3>2. (mid - 1) - lo < hi - lo
      BY <2>2
    <3>3. \A f : Next2(f, lo, hi, answer) = f[<<lo, mid - 1, answer>>]
      BY <2>2, <2>3
    <3> HIDE DEF Next2, W, A, B, C, mid
    <3> QED
      BY <3>1, <3>2, <3>3
  <2>4. CASE Probes(lo, hi) = {} /\ edge # "lower"
    <3>1. W(mid + 1, hi) = W(lo, hi) /\ mid + 1 \in A
      BY <1>6, <2>4
    <3>2. hi - (mid + 1) < hi - lo
      BY <2>2
    <3>3. \A f : Next2(f, lo, hi, answer) = f[<<mid + 1, hi, answer>>]
      BY <2>2, <2>4
    <3> HIDE DEF Next2, W, A, B, C, mid
    <3> QED
      BY <3>1, <3>2, <3>3
  <2>5. CASE Probes(lo, hi) # {}
    <3>1. pid \in L /\ lo <= pid /\ pid <= hi
      BY <1>6, <2>5
    <3>2. pid \in Int /\ pid \in C
      BY <1>2, <3>1
    <3>3. (pid - 1) - lo < hi - lo /\ hi - (pid + 1) < hi - lo
      BY <2>2, <3>1, <3>2
    <3>4. \A f : Next2(f, lo, hi, answer)
                   = IF Hit(lo, hi) <=> edge = "lower"
                     THEN f[<<lo, pid - 1, IF Hit(lo, hi) THEN pid ELSE answer>>]
                     ELSE f[<<pid + 1, hi, IF Hit(lo, hi) THEN pid ELSE answer>>]
      BY <2>2, <2>5
    <3>5. Hit(lo, hi) <=> InDay(edge, target, pid)
      OBVIOUS
    <3> HIDE DEF Next2, W, A, B, C, pid, Hit, L
    <3>6. /\ pid - 1 \in B /\ pid + 1 \in A
          /\ edge = "lower" /\ InDay(edge, target, pid) =>
                Edge(edge, W(lo, pid - 1), pid) = Edge(edge, W(lo, hi), answer)
          /\ edge = "lower" /\ ~InDay(edge, target, pid) => W(pid + 1, hi) = W(lo, hi)
          /\ edge # "lower" /\ InDay(edge, target, pid) =>
                Edge(edge, W(pid + 1, hi), pid) = Edge(edge, W(lo, hi), answer)
          /\ edge # "lower" /\ ~InDay(edge, target, pid) => W(lo, pid - 1) = W(lo, hi)
      BY <1>7, <3>1
    <3>7. CASE edge = "lower" /\ InDay(edge, target, pid)
      <4>1. \A f : Next2(f, lo, hi, answer) = f[<<lo, pid - 1, pid>>]
        BY <3>4, <3>5, <3>7
      <4> QED
        BY <3>2, <3>3, <3>6, <3>7, <4>1
    <3>8. CASE edge = "lower" /\ ~InDay(edge, target, pid)
      <4>1. \A f : Next2(f, lo, hi, answer) = f[<<pid + 1, hi, answer>>]
        BY <3>4, <3>5, <3>8
      <4> QED
        BY <3>3, <3>6, <3>8, <4>1
    <3>9. CASE edge # "lower" /\ InDay(edge, target, pid)
      <4>1. \A f : Next2(f, lo, hi, answer) = f[<<pid + 1, hi, pid>>]
        BY <3>4, <3>5, <3>9
      <4> QED
        BY <3>2, <3>3, <3>6, <3>9, <4>1
    <3>10. CASE edge # "lower" /\ ~InDay(edge, target, pid)
      <4>1. \A f : Next2(f, lo, hi, answer) = f[<<lo, pid - 1, answer>>]
        BY <3>4, <3>5, <3>10
      <4> QED
        BY <3>3, <3>6, <3>10, <4>1
    <3> QED
      BY <3>7, <3>8, <3>9, <3>10
  <2> QED
    BY <2>3, <2>4, <2>5
<1>9. Eq(G)
  <2>1. ASSUME NEW lo \in A, NEW hi \in B, NEW answer \in C
        PROVE  Edge(edge, W(lo, hi), answer) = F(G, <<lo, hi, answer>>)
    <3>1. CASE lo > hi
      <4>1. F(G, <<lo, hi, answer>>) = answer
        <5> HIDE DEF G, A, B, C
        <5> QED
          BY <3>1
      <4> HIDE DEF W, A, B, C, F, G
      <4> QED
        BY <1>8, <3>1, <4>1
    <3>2. CASE lo <= hi
      <4>1. \A lo2 \in A, hi2 \in B, found \in C :
              G[<<lo2, hi2, found>>] = Edge(edge, W(lo2, hi2), found)
        <5> HIDE DEF W, A, B, C
        <5> QED
          OBVIOUS
      <4>2. \A g : Next2(g, lo, hi, answer) = F(g, <<lo, hi, answer>>)
        OBVIOUS
      <4>3. PICK lo2 \in A, hi2 \in B, found \in C :
                     /\ hi2 - lo2 < hi - lo
                     /\ \A g : Next2(g, lo, hi, answer) = g[<<lo2, hi2, found>>]
                     /\ Edge(edge, W(lo2, hi2), found) = Edge(edge, W(lo, hi), answer)
        <5> HIDE DEF W, A, B, C, Next2
        <5> QED
          BY <1>8, <3>2
      <4> HIDE DEF W, A, B, C, Next2, F, G
      <4>4. Next2(G, lo, hi, answer) = G[<<lo2, hi2, found>>]
        BY <4>3
      <4>5. G[<<lo2, hi2, found>>] = Edge(edge, W(lo2, hi2), found)
        BY <4>1
      <4> QED
        BY ONLY <4>2, <4>3, <4>4, <4>5
    <3>3. lo \in Int /\ hi \in Int
      BY <1>3
    <3> HIDE DEF W, A, B, C, F, G
    <3> QED
      BY <3>1, <3>2, <3>3
  <2>2. ASSUME NEW at \in At PROVE Edge(edge, W(at[1], at[2]), at[3]) = F(G, at)
    <3>1. PICK lo \in A, hi \in B, answer \in C : at = <<lo, hi, answer>>
      <4> HIDE DEF A, B, C
      <4> QED
        OBVIOUS
    <3>2. at[1] = lo /\ at[2] = hi /\ at[3] = answer
      BY <3>1
    <3> HIDE DEF W, A, B, C, F, G, At
    <3> QED
      BY <2>1, <3>1, <3>2
  <2> HIDE DEF W, At, F
  <2> QED
    BY <2>2
<1>10. bisect = [at \in At |-> F(bisect, at)]
  <2>1. Eq(bisect)
    <3> HIDE DEF At, F, G, Eq
    <3> QED
      BY <1>9
  <2> HIDE DEF At, F, G, bisect
  <2> QED
    BY <2>1
<1> DEFINE f == bisect
<1>11. \A lo \in A, hi \in B, answer \in C : f[<<lo, hi, answer>>] = Next2(f, lo, hi, answer)
  <2>1. \A at \in At : f[at] = F(f, at)
    <3> HIDE DEF At, F, bisect
    <3> QED
      BY <1>10
  <2> HIDE DEF A, B, C, F, bisect
  <2> QED
    BY <2>1
<1>12. \A lo \in A, hi \in B, answer \in C : lo > hi => Edge(edge, W(lo, hi), answer) = answer
  <2> HIDE DEF W, A, B, C
  <2> QED
    BY <1>8
<1> HIDE DEF f, bisect, G, Eq
<1> DEFINE Good == {n \in 0 .. top + 1 :
                      \A lo \in A, hi \in B, answer \in C :
                         hi - lo < n => f[<<lo, hi, answer>>] = Edge(edge, W(lo, hi), answer)}
<1>13. 0 \in Good
  <2> SUFFICES ASSUME NEW lo \in A, NEW hi \in B, NEW answer \in C, hi - lo < 0
               PROVE  f[<<lo, hi, answer>>] = Edge(edge, W(lo, hi), answer)
    BY <1>2
  <2>1. lo > hi
    BY <1>3
  <2>2. f[<<lo, hi, answer>>] = answer
    BY <1>11, <2>1
  <2> HIDE DEF W, A, B, C
  <2> QED
    BY <1>12, <2>1, <2>2
<1>14. ASSUME NEW n \in 0 .. top, n \in Good PROVE n + 1 \in Good
  <2> SUFFICES ASSUME NEW lo \in A, NEW hi \in B, NEW answer \in C, hi - lo < n + 1
               PROVE  f[<<lo, hi, answer>>] = Edge(edge, W(lo, hi), answer)
    BY <1>2
  <2>1. CASE lo > hi
    <3>1. f[<<lo, hi, answer>>] = answer
      BY <1>11, <2>1
    <3> HIDE DEF W, A, B, C
    <3> QED
      BY <1>12, <2>1, <3>1
  <2>2. CASE lo <= hi
    <3>1. PICK lo2 \in A, hi2 \in B, found \in C :
                     /\ hi2 - lo2 < hi - lo
                     /\ \A g : Next2(g, lo, hi, answer) = g[<<lo2, hi2, found>>]
                     /\ Edge(edge, W(lo2, hi2), found) = Edge(edge, W(lo, hi), answer)
      <4> HIDE DEF W, A, B, C, Next2
      <4> QED
        BY <1>8, <2>2
    <3>2. hi2 - lo2 < n
      BY <1>2, <1>3, <3>1
    <3>3. f[<<lo2, hi2, found>>] = Edge(edge, W(lo2, hi2), found)
      BY <1>14, <3>2
    <3> HIDE DEF W, A, B, C, Next2, Good
    <3> QED
      BY <1>11, <3>1, <3>3
  <2> QED
    BY <1>3, <2>1, <2>2
<1>15. top + 1 \in Good
  <2>1. top + 1 \in Nat
    BY <1>2
  <2>2. ASSUME NEW k \in 1 .. top + 1, k - 1 \in Good PROVE k \in Good
    <3>1. k - 1 \in 0 .. top /\ (k - 1) + 1 = k
      BY <1>2
    <3> HIDE DEF Good
    <3>2. (k - 1) + 1 \in Good
      BY <1>14, <2>2, <3>1
    <3> QED
      BY <3>1, <3>2
  <2>3. Good \in SUBSET (0 .. top + 1) /\ top + 1 \in 0 .. top + 1
    BY <2>1
  <2> HIDE DEF Good, top
  <2> DEFINE n == top + 1
  <2>4. n \in Nat /\ Good \in SUBSET (0 .. n) /\ 0 \in Good
    BY <1>13, <2>1, <2>3
  <2>5. \A k \in 1 .. n : k - 1 \in Good => k \in Good
    BY <2>2
  <2> HIDE DEF n
  <2>6. \A k \in 0 .. n : k \in Good
    BY <2>4, <2>5, UpTo
  <2> QED
    BY <2>3, <2>6 DEF n
<1>16. 0 \in A /\ top \in B /\ None \in C /\ top - 0 < top + 1
  BY <1>2
<1>17. f[<<0, top, None>>] = Edge(edge, W(0, top), None)
  BY <1>15, <1>16
<1>18. W(0, top) = {p \in L : InDay(edge, target, p)}
  <2>1. \A p \in L : 0 <= p /\ p <= top
    BY <1>2
  <2> HIDE DEF top
  <2> QED
    BY <2>1 DEF Inside
<1> HIDE DEF W, L, top
<1> QED
  BY <1>1, <1>17, <1>18 DEF L, f

\* The date bounds a search may be asked for.
Days == [first : Nat \cup {None}, last : Nat \cup {None}]

\* No post is of a day past the last.
LEMMA LastDayBounds ==
  ASSUME Post # {}
  PROVE  LastDay \in Nat /\ \A p \in Post : DayOf[p] <= LastDay
<1> DEFINE S == {DayOf[p] : p \in Post}
           m == Max(Post)
<1>1. m \in Post /\ \A p \in Post : p <= m
  BY GreatestOf
<1> HIDE DEF m
<1>2. \A p \in Post : DayOf[p] \in Nat /\ p \in Nat
  BY PagesAssumption
<1>3. ASSUME NEW p \in Post PROVE DayOf[m] >= DayOf[p]
  <2>1. p < m \/ p = m
    BY <1>1, <1>2
  <2>2. DayOf[p] <= DayOf[m]
    BY <1>1, <1>2, <2>1, PagesAssumption
  <2> QED
    BY <1>1, <1>2, <2>2
<1>4. \E x \in S : \A y \in S : x >= y
  BY <1>1, <1>3
<1>5. Max(S) \in S /\ \A y \in S : Max(S) >= y
  BY <1>4 DEF Max
<1> QED
  BY <1>2, <1>5 DEF LastDay

\* Normalizing keeps no bounds none, and makes none of some.
LEMMA NormalizedDays ==
  ASSUME NEW dates \in Days
  PROVE  Normalized(dates) \in Days /\ (Normalized(dates) = NoDates <=> dates = NoDates)
  BY DEF Days, Normalized, NoDates

\* The window a search filters by: the live posts in it are those of its days.  day_bound
\* finds both ends by bisection, which the days of posts in the order of their ids justify.
THEOREM DateWindowExact ==
  ASSUME NEW d \in Snapshots, NEW dates \in Days, NEW window, window = DateWindow(d, dates)
  PROVE  /\ window.open <=> dates = NoDates
         /\ window.open => window.ids = Post
         /\ window.ids \in SUBSET Nat
         /\ IsFiniteSet(window.ids)
         /\ \A p \in Live(d) : p \in window.ids <=> InDays(p, dates)
<1>1. Live(d) \in SUBSET Post /\ Post \in SUBSET Nat /\ IsFiniteSet(Post)
      /\ \A p \in Post : DayOf[p] \in Nat /\ p \in Nat
  BY PagesAssumption DEF Snapshots, Live
<1>2. dates.first \in Nat \cup {None} /\ dates.last \in Nat \cup {None} /\ None \notin Int /\ None \notin Nat
      /\ dates = [first |-> dates.first, last |-> dates.last]
  BY PagesAssumption DEF Days
<1>3. CASE dates = NoDates
  <2>1. window = [open |-> TRUE, ids |-> Post]
    BY <1>3 DEF DateWindow
  <2>2. dates.first = None /\ dates.last = None
    BY <1>3 DEF NoDates
  <2>3. window.open /\ window.ids = Post
    BY <2>1
  <2>4. \A p \in Live(d) : InDays(p, dates)
    BY <2>2 DEF InDays
  <2> QED
    BY <1>1, <1>3, <2>3, <2>4
<1>4. CASE dates # NoDates /\ Live(d) = {}
  <2>1. window = [open |-> FALSE, ids |-> {}]
    BY <1>4 DEF DateWindow
  <2> QED
    BY <1>4, <2>1, FS_EmptySet
<1>5. CASE dates # NoDates /\ Live(d) # {}
  <2> DEFINE from == IF dates.first = None THEN 0 ELSE dates.first
             to == IF dates.last = None THEN LastDay ELSE dates.last
             Lo == {p \in Live(d) : InDay("lower", from, p)}
             Hi == {p \in Live(d) : InDay("upper", to, p)}
             lo == DayBound(d, "lower", from)
             hi == DayBound(d, "upper", to)
  <2>1. from \in Nat /\ to \in Nat /\ \A p \in Live(d) : DayOf[p] <= LastDay
    BY <1>1, <1>2, <1>5, LastDayBounds
  <2>2. lo = Edge("lower", Lo, None) /\ hi = Edge("upper", Hi, None)
    <3> HIDE DEF from, to
    <3> QED
      BY <1>1, <1>5, <2>1, DayBoundIsEdge
  <2>3. window = [open |-> FALSE, ids |-> IF None \in {lo, hi} THEN {} ELSE lo .. hi]
    BY <1>5 DEF DateWindow
  <2>4. \A p \in Live(d) : InDays(p, dates) <=> p \in Lo /\ p \in Hi
    BY <1>1, <1>2, <2>1 DEF InDays, InDay
  <2>5. Lo \in SUBSET Nat /\ Hi \in SUBSET Post /\ Lo \in SUBSET Live(d) /\ Hi \in SUBSET Live(d)
    BY <1>1
  <2>6. \A p, q \in Live(d) : p <= q => (p \in Lo => q \in Lo) /\ (q \in Hi => p \in Hi)
    <3> SUFFICES ASSUME NEW p \in Live(d), NEW q \in Live(d), p <= q
                 PROVE  (p \in Lo => q \in Lo) /\ (q \in Hi => p \in Hi)
      OBVIOUS
    <3>1. p \in Post /\ q \in Post /\ p \in Nat /\ q \in Nat
      BY <1>1
    <3>2. p < q \/ p = q
      BY <3>1
    <3>3. DayOf[p] <= DayOf[q] /\ DayOf[p] \in Nat /\ DayOf[q] \in Nat
      BY <1>1, <3>1, <3>2, PagesAssumption
    <3> HIDE DEF from, to
    <3> QED
      BY <2>1, <3>3 DEF InDay
  <2> HIDE DEF from, to, Lo, Hi, lo, hi
  <2>7. CASE Lo = {} \/ Hi = {}
    <3>1. lo = None \/ hi = None
      BY <2>2, <2>7 DEF Edge
    <3>2. window = [open |-> FALSE, ids |-> {}]
      BY <2>3, <3>1
    <3> QED
      BY <1>5, <2>4, <2>7, <3>2, FS_EmptySet
  <2>8. CASE Lo # {} /\ Hi # {}
    <3>1. lo = Min(Lo) /\ hi = Max(Hi)
      BY <2>2, <2>8 DEF Edge
    <3>2. lo \in Lo /\ (\A p \in Lo : lo <= p) /\ hi \in Hi /\ \A p \in Hi : p <= hi
      BY <2>5, <2>8, <3>1, LeastOf, GreatestOf
    <3>3. lo \in Nat /\ hi \in Nat /\ lo \in Live(d) /\ hi \in Live(d)
      BY <1>1, <2>5, <3>2
    <3>4. window = [open |-> FALSE, ids |-> lo .. hi]
      BY <1>2, <2>3, <3>3
    <3>5. ASSUME NEW p \in Live(d) PROVE p \in lo .. hi <=> p \in Lo /\ p \in Hi
      <4>1. p \in Nat
        BY <1>1
      <4>2. p \in lo .. hi <=> lo <= p /\ p <= hi
        BY <3>3, <4>1
      <4>3. lo <= p => p \in Lo
        BY <2>6, <3>2, <3>3
      <4>4. p <= hi => p \in Hi
        BY <2>6, <3>2, <3>3
      <4> QED
        BY <3>2, <4>2, <4>3, <4>4
    <3>6. lo .. hi \in SUBSET Nat /\ IsFiniteSet(lo .. hi)
      BY <3>3, FS_Interval
    <3> QED
      BY <1>5, <2>4, <3>4, <3>5, <3>6
  <2> QED
    BY <2>7, <2>8
<1> QED
  BY <1>3, <1>4, <1>5

-----------------------------------------------------------------------------
(* The page that a snapshot promises                                       *)

\* The searches there are.
Asks == [query : {"all", "tag", "nottag", "favorites"}, sort : {"newest", "score"},
         dates : Days, grouped : BOOLEAN, limit : Nat]

\* The favourites of F that are live in the snapshot.
Held(d, F) == F \cap Live(d)

\* What a query admits of the live posts is what it asks for.
Wanted(d, F, query, p) ==
    CASE query = "all" -> TRUE
      [] query = "tag" -> d[p].tagged
      [] query = "nottag" -> ~d[p].tagged
      [] query = "favorites" -> p \in F

\* The candidate of a query admits of the live posts those that are asked for.
LEMMA CandidateExact ==
  ASSUME NEW d \in Snapshots, NEW query \in {"all", "tag", "nottag", "favorites"}, NEW F,
         NEW candidate, candidate = CandidateSet(d, query, Held(d, F))
  PROVE  /\ candidate.form \in {"finite", "cofinite"}
         /\ candidate.ids \subseteq Live(d)
         /\ \A p \in Live(d) : Admits(candidate, p) <=> Wanted(d, F, query, p)
<1>1. CASE query = "all"
  BY <1>1 DEF CandidateSet, Everything, Cofinite, Admits, Wanted
<1>2. CASE query = "tag"
  <2>1. candidate = Finite({p \in Live(d) : d[p].tagged})
    BY <1>2 DEF CandidateSet
  <2>2. \A p : Wanted(d, F, query, p) <=> d[p].tagged
    BY <1>2 DEF Wanted
  <2> QED
    BY <2>1, <2>2 DEF Finite, Admits
<1>3. CASE query = "nottag"
  <2>1. candidate = Cofinite({p \in Live(d) : d[p].tagged})
    BY <1>3 DEF CandidateSet
  <2>2. \A p : Wanted(d, F, query, p) <=> ~d[p].tagged
    BY <1>3 DEF Wanted
  <2> QED
    BY <2>1, <2>2 DEF Cofinite, Admits
<1>4. CASE query = "favorites"
  <2>1. candidate = Finite(F \cap Live(d))
    BY <1>4 DEF CandidateSet, Held
  <2>2. \A p : Wanted(d, F, query, p) <=> p \in F
    BY <1>4 DEF Wanted
  <2> QED
    BY <2>1, <2>2 DEF Finite, Admits
<1> QED
  BY <1>1, <1>2, <1>3, <1>4

\* The posts a search filters its page from are those that match its query and its days.  The
\* candidates it reports are no fewer, and exactly as many when no days are asked for.
THEOREM MatchingExact ==
  ASSUME NEW d \in Snapshots, NEW ask \in Asks, NEW F,
         NEW candidate, candidate = CandidateSet(d, ask.query, Held(d, F)),
         NEW window, window = DateWindow(d, Normalized(ask.dates))
  PROVE  /\ Found(d, candidate, window) = Matching(d, F, ask)
         /\ CandidateCount(d, candidate, window) >= Cardinality(Matching(d, F, ask))
         /\ ask.dates = NoDates => CandidateCount(d, candidate, window) = Cardinality(Matching(d, F, ask))
<1> DEFINE M == Matching(d, F, ask)
           C == candidate.ids
           count == CandidateCount(d, candidate, window)
<1>1. /\ window.open <=> ask.dates = NoDates
      /\ window.open => window.ids = Post
      /\ IsFiniteSet(window.ids)
      /\ \A p \in Live(d) : p \in window.ids <=> InDays(p, Normalized(ask.dates))
  <2>1. ask.dates \in Days
    BY DEF Asks
  <2> QED
    BY <2>1, NormalizedDays, DateWindowExact
<1>2. /\ candidate.form \in {"finite", "cofinite"}
      /\ C \subseteq Live(d)
      /\ \A p \in Live(d) : Admits(candidate, p) <=> Wanted(d, F, ask.query, p)
  <2>1. ask.query \in {"all", "tag", "nottag", "favorites"}
    BY DEF Asks
  <2> QED
    BY <2>1, CandidateExact
<1>3. Live(d) \in SUBSET Post /\ IsFiniteSet(Live(d))
  BY PagesAssumption, FS_Subset DEF Snapshots, Live
<1>4. M = {p \in Live(d) : InDays(p, Normalized(ask.dates)) /\ Wanted(d, F, ask.query, p)}
  BY DEF Matching, Wanted
<1> HIDE DEF M
<1>5. Found(d, candidate, window) = M
  BY <1>1, <1>2, <1>3, <1>4 DEF Accepted, Found
<1>6. M = {p \in Live(d) : p \in window.ids /\ (p \in C <=> candidate.form = "finite")}
  BY <1>1, <1>2, <1>4 DEF Admits
<1>7. IsFiniteSet(M) /\ Cardinality(M) \in Nat
  BY <1>3, <1>6, FS_Subset, FS_CardinalityType
<1>8. CASE candidate.form = "finite"
  <2>1. C \cap window.ids = M
    BY <1>2, <1>6, <1>8
  <2>2. count = Cardinality(M)
    BY <1>8, <2>1 DEF CandidateCount
  <2> HIDE DEF count
  <2> QED
    BY <1>5, <1>7, <2>2 DEF M, count
<1>9. CASE candidate.form = "cofinite"
  <2> DEFINE whole == IF window.open THEN Live(d) ELSE window.ids
  <2>1. candidate.form # "finite"
    BY <1>9
  <2>2. count = Cardinality(whole) - Cardinality(C \cap window.ids)
    BY <2>1 DEF CandidateCount
  <2>3. IsFiniteSet(whole) /\ C \cap window.ids \subseteq whole
    BY <1>1, <1>2, <1>3
  <2>4. M \subseteq whole \ (C \cap window.ids)
    BY <1>6, <2>1
  <2>5. window.open => M = whole \ (C \cap window.ids)
    BY <1>1, <1>3, <1>6, <2>1
  <2> HIDE DEF whole, count
  <2>6. IsFiniteSet(C \cap window.ids) /\ IsFiniteSet(whole \ (C \cap window.ids))
    BY <2>3, FS_Subset
  <2> DEFINE part == C \cap window.ids
  <2>7. IsFiniteSet(part) /\ part \subseteq whole
    BY <2>3, <2>6
  <2> HIDE DEF part
  <2>8. Cardinality(whole \ part) = Cardinality(whole) - Cardinality(whole \cap part)
    BY <2>3, FS_Difference
  <2>9. whole \cap part = part
    BY <2>7
  <2>10. count = Cardinality(whole \ part)
    BY <2>2, <2>8, <2>9 DEF part
  <2>11. Cardinality(M) <= Cardinality(whole \ part)
    BY <2>4, <2>6, FS_Subset DEF part
  <2>12. Cardinality(whole \ part) \in Nat
    BY <2>6, FS_CardinalityType DEF part
  <2> QED
    BY <1>1, <1>5, <1>7, <2>5, <2>10, <2>11, <2>12 DEF part, M, count
<1> QED
  BY <1>2, <1>8, <1>9

\* What a page is promised from: every post that matches, or the first of each family.
Pool(d, F, ask) ==
    LET all == Matching(d, F, ask) IN
    IF ask.grouped THEN Leads(all, PageOrder(d, F, ask.sort)) ELSE all

\* The posts that match are finitely many live ones, in strict order, as are the leads of
\* their families.
LEMMA MatchingOrder ==
  ASSUME NEW d \in Snapshots, NEW F, NEW ask \in Asks
  PROVE  LET M == Matching(d, F, ask)
             R == PageOrder(d, F, ask.sort)
         IN  M \in SUBSET Live(d) /\ IsFiniteSet(M) /\ StrictOrder(R, M)
             /\ Pool(d, F, ask) \in SUBSET M /\ StrictOrder(R, Pool(d, F, ask))
<1> DEFINE M == Matching(d, F, ask)
           R == PageOrder(d, F, ask.sort)
           N == Pool(d, F, ask)
<1>1. M \in SUBSET Live(d)
  BY DEF Matching
<1>2. IsFiniteSet(M)
  BY <1>1, KeysOfLive, FS_Subset
<1>3. StrictOrder(R, M)
  <2> HIDE DEF M
  <2>1. ask.sort \in {"newest", "score"}
    BY DEF Asks
  <2> QED
    BY <1>1, <2>1, PageOrderIsStrict
<1>4. N \in SUBSET M
  BY LeadsAreIn DEF Pool
<1>5. StrictOrder(R, N)
  <2> HIDE DEF M, R, N
  <2> QED
    BY <1>3, <1>4, OrderOfPart
<1> QED
  BY <1>1, <1>2, <1>3, <1>4, <1>5

\* Ordering lists what a page is promised from, in the order of the page: it is the reference
\* the page is compared with, and a list in a strict order is the only one.
THEOREM OrderingLists ==
  ASSUME NEW d \in Snapshots, NEW F, NEW ask \in Asks
  PROVE  Lists(Ordering(d, F, ask), Pool(d, F, ask), PageOrder(d, F, ask.sort))
<1> DEFINE M == Matching(d, F, ask)
           Q == SortOrder(ask.sort, SortKeys(d))
           R == PageOrder(d, F, ask.sort)
           fore == BySort(ask.sort, SortKeys(d), M \cap F)
           aft == BySort(ask.sort, SortKeys(d), M \ F)
           all == fore \o aft
           leads == {i \in DOMAIN all : \A j \in 1 .. i - 1 : RootOf[all[j]] # RootOf[all[i]]}
<1>1. Ordering(d, F, ask) = IF ask.grouped THEN Among(all, {all[i] : i \in leads}) ELSE all
  BY DEF Ordering
<1>2. M \in SUBSET Live(d) /\ StrictOrder(R, M) /\ ask.sort \in {"newest", "score"}
  BY MatchingOrder DEF Asks
<1> HIDE DEF M
<1>3. /\ \A p \in M \cap F, q \in M \ F : <<p, q>> \in R /\ <<q, p>> \notin R
      /\ \A p, q \in M \cap F : <<p, q>> \in R <=> <<p, q>> \in Q
      /\ \A p, q \in M \ F : <<p, q>> \in R <=> <<p, q>> \in Q
  BY <1>2, PageOrderIsStrict
<1>4. /\ M \cap F \in SUBSET Post /\ M \ F \in SUBSET Post
      /\ \A p \in M : SortKeys(d)[p] \in Int
  BY <1>2, KeysOfLive
<1>5. Lists(fore, M \cap F, Q) /\ Lists(aft, M \ F, Q)
  BY <1>2, <1>4, BySortLists
<1> HIDE DEF Q, R, fore, aft
<1>6. Lists(fore, M \cap F, R) /\ Lists(aft, M \ F, R)
  BY <1>3, <1>5, ListsSame
<1>7. Lists(all, M, R)
  <2>1. Lists(all, (M \cap F) \cup (M \ F), R)
    BY <1>3, <1>6, ListsJoin
  <2>2. (M \cap F) \cup (M \ F) = M
    OBVIOUS
  <2> QED
    BY <2>1, <2>2
<1> HIDE DEF all, leads
<1>8. /\ Len(all) \in Nat /\ DOMAIN all = 1 .. Len(all)
      /\ \A i \in 1 .. Len(all) : all[i] \in M
      /\ \A p \in M : \E i \in 1 .. Len(all) : all[i] = p
      /\ \A i, j \in 1 .. Len(all) : i < j => <<all[i], all[j]>> \in R
  BY <1>7, ListsHas
<1>9. \A i, j \in 1 .. Len(all) : <<all[i], all[j]>> \in R => i < j
  <2> SUFFICES ASSUME NEW i \in 1 .. Len(all), NEW j \in 1 .. Len(all),
                      <<all[i], all[j]>> \in R
               PROVE  i < j
    OBVIOUS
  <2>1. i \in Int /\ j \in Int /\ all[i] \in M /\ all[j] \in M
    BY <1>8
  <2>2. <<all[i], all[i]>> \notin R
    BY <1>2, <2>1 DEF StrictOrder
  <2>3. ~(j < i)
    BY <1>2, <1>8, <2>1, <2>2 DEF StrictOrder
  <2>4. i # j
    BY <2>2
  <2> QED
    BY <2>1, <2>3, <2>4
<1>10. {all[i] : i \in leads} = Leads(M, R)
  <2>1. ASSUME NEW i \in 1 .. Len(all) PROVE i \in leads <=> all[i] \in Leads(M, R)
    <3>1. \A j : j \in 1 .. i - 1 <=> j \in 1 .. Len(all) /\ j < i
      BY <1>8
    <3>2. \A j \in 1 .. Len(all) : j < i <=> <<all[j], all[i]>> \in R
      BY <1>8, <1>9
    <3>3. i \in leads <=> \A j \in 1 .. Len(all) : <<all[j], all[i]>> \in R => RootOf[all[j]] # RootOf[all[i]]
      BY <1>8, <3>1, <3>2 DEF leads
    <3>4. all[i] \in Leads(M, R)
            <=> \A q \in M : <<q, all[i]>> \in R => RootOf[q] # RootOf[all[i]]
      BY <1>8 DEF Leads
    <3> QED
      BY <1>8, <3>3, <3>4
  <2>2. leads \subseteq 1 .. Len(all)
    BY <1>8 DEF leads
  <2>3. Leads(M, R) \subseteq M
    BY LeadsAreIn
  <2> QED
    BY <1>8, <2>1, <2>2, <2>3
<1>11. Lists(Among(all, Leads(M, R)), Leads(M, R), R)
  <2>1. M \cap Leads(M, R) = Leads(M, R)
    BY LeadsAreIn
  <2>2. Lists(Among(all, Leads(M, R)), M \cap Leads(M, R), R)
    BY <1>7, AmongLists
  <2> QED
    BY <2>1, <2>2
<1>12. Pool(d, F, ask) = IF ask.grouped THEN Leads(M, R) ELSE M
  BY DEF Pool, M, R
<1> QED
  BY <1>1, <1>7, <1>10, <1>11, <1>12 DEF R

\* What a page is made from: its snapshot, what it was given, and caches that are none or
\* as the snapshot has them.
Sources(d, given, ask, candidate, window, ranked, rest, hd, ks) ==
    /\ ranked = IF given.ids = {} THEN None ELSE FavoriteRanks(d, given)
    /\ window = DateWindow(d, Normalized(ask.dates))
    /\ candidate = CandidateSet(d, ask.query, IF ranked = None THEN {} ELSE ranked.available)
    /\ rest = IF ranked = None THEN candidate ELSE Ordinary(candidate, ranked)

\* The page of a search, made of one snapshot, is the first of what the snapshot promises:
\* the reference Ordering sorts all that match, the page reads heads, lanes, keys and ranks.
THEOREM PageIdsExact ==
  ASSUME NEW d \in Snapshots, NEW given \in Given, NEW ask \in Asks, NEW candidate, NEW window,
         NEW ranked, NEW rest, NEW hd, NEW ks,
         Sources(d, given, ask, candidate, window, ranked, rest, hd, ks),
         NEW filled, filled <=>
           /\ ranked # None
           /\ LET favored == Among(FavoriteOrder(ranked, ask.sort),
                                   Accepted(Favored(candidate, ranked), window))
              IN  Len(IF ask.grouped THEN Offered(<<>>, favored, ask.limit) ELSE favored)
                    >= ask.limit,
         ~filled /\ UsesHead(rest, ask.sort) => hd = LaneHead(d),
         ~filled /\ UsesKeys(rest, ask.sort) => ks = SortKeys(d)
  PROVE  LET ids == PageIds(d, hd, ks, ranked, ask, candidate, window)
             promised == Ordering(d, given.ids, ask)
         IN  /\ IsPrefix(ids, promised)
             /\ (ranked # None /\ ask.grouped /\ UsesKeys(rest, ask.sort))
                  \/ ids = Take(promised, ask.limit)
             /\ Len(ids) <= ask.limit
             /\ \E U : /\ DownIn(U, Pool(d, given.ids, ask), PageOrder(d, given.ids, ask.sort))
                       /\ Lists(ids, U, PageOrder(d, given.ids, ask.sort))
<1> DEFINE F == given.ids
           M == Matching(d, F, ask)
           N == Pool(d, F, ask)
           R == PageOrder(d, F, ask.sort)
           ids == PageIds(d, hd, ks, ranked, ask, candidate, window)
           t == Ordering(d, F, ask)
           short == ranked # None /\ ask.grouped /\ UsesKeys(rest, ask.sort)
<1>1. ask.sort \in {"newest", "score"} /\ ask.limit \in Nat /\ ask.dates \in Days /\ ask.grouped \in BOOLEAN
      /\ ask.query \in {"all", "tag", "nottag", "favorites"}
  BY DEF Asks
<1>2. /\ ranked = IF F = {} THEN None ELSE FavoriteRanks(d, given)
      /\ window = DateWindow(d, Normalized(ask.dates))
      /\ candidate = CandidateSet(d, ask.query, IF ranked = None THEN {} ELSE ranked.available)
      /\ rest = IF ranked = None THEN candidate ELSE Ordinary(candidate, ranked)
  BY DEF Sources
<1>3. (IF ranked = None THEN {} ELSE ranked.available) = Held(d, F)
  <2>1. CASE F = {}
    BY <1>2, <2>1 DEF Held
  <2>2. CASE F # {}
    <3>1. ranked # None /\ ranked.available = F \cap Live(d)
      BY <1>1, <1>2, <2>2, FavoriteOrderLists
    <3> QED
      BY <3>1 DEF Held
  <2> QED
    BY <2>1, <2>2
<1>4. /\ candidate.form \in {"finite", "cofinite"} /\ candidate.ids \subseteq Live(d)
      /\ Found(d, candidate, window) = M
  <2>1. candidate = CandidateSet(d, ask.query, Held(d, F))
    BY <1>2, <1>3
  <2> HIDE DEF M, F
  <2>2. candidate.form \in {"finite", "cofinite"} /\ candidate.ids \subseteq Live(d)
    BY <1>1, <2>1, CandidateExact
  <2>3. Found(d, candidate, window) = M
    BY <1>2, <2>1, MatchingExact DEF M
  <2> QED
    BY <2>2, <2>3
<1>5. Lists(t, N, R) /\ StrictOrder(R, N)
  BY OrderingLists, MatchingOrder
<1>6. /\ Len(ids) <= ask.limit /\ \E U : DownIn(U, N, R) /\ Lists(ids, U, R)
      /\ short \/ Shows(ids, N, R, ask.limit)
  <2>1. CASE ask.grouped
    <3>1. ids = FamilyIds(d, hd, ks, candidate, ranked, ask.sort, window, ask.limit)
      BY <2>1 DEF PageIds
    <3>2. N = Leads(M, R)
      BY <2>1 DEF Pool
    <3>3. filled <=> /\ ranked # None
                     /\ Len(Offered(<<>>, Among(FavoriteOrder(ranked, ask.sort),
                                      Accepted(Favored(candidate, ranked), window)), ask.limit))
                          >= ask.limit
      BY <2>1
    <3> DEFINE M2 == Found(d, candidate, window)
               ids2 == FamilyIds(d, hd, ks, candidate, ranked, ask.sort, window, ask.limit)
    <3> DEFINE sort == ask.sort
               limit == ask.limit
    <3>4. /\ filled <=> /\ ranked # None
                     /\ Len(FavoriteFamilies(candidate, ranked, sort, window, limit)) >= limit
          /\ ~filled /\ UsesHead(rest, sort) => hd = LaneHead(d)
          /\ ~filled /\ UsesKeys(rest, sort) => ks = SortKeys(d)
          /\ sort \in {"newest", "score"} /\ limit \in Nat
          /\ candidate.form = "finite" => candidate.ids \subseteq Live(d)
      BY <1>1, <1>4, <3>3 DEF FavoriteFamilies
    <3> HIDE DEF sort, limit
    <3>5. LET S == Found(d, candidate, window)
              O == PageOrder(d, given.ids, sort)
              them == FamilyIds(d, hd, ks, candidate, ranked, sort, window, limit)
          IN  /\ Begins(them, Leads(S, O), O, limit)
              /\ (ranked # None /\ UsesKeys(rest, sort)) \/ Shows(them, Leads(S, O), O, limit)
      BY ONLY SMTT(30), d \in Snapshots, given \in Given, <1>2, <1>4, <3>4, FamilyIdsShow
    <3>6. /\ Len(ids2) <= ask.limit /\ \E U : DownIn(U, Leads(M2, R), R) /\ Lists(ids2, U, R)
          /\ (ranked # None /\ UsesKeys(rest, ask.sort)) \/ Shows(ids2, Leads(M2, R), R, ask.limit)
      BY <3>5 DEF sort, limit, Begins
    <3>7. M2 = M
      BY <1>4
    <3> HIDE DEF M2, ids2, ids, M, N, R
    <3> QED
      BY <2>1, <3>1, <3>2, <3>6, <3>7 DEF ids2
  <2>2. CASE ~ask.grouped
    <3>1. ids = FavoriteOrderedIds(d, hd, ks, candidate, ranked, ask.sort, window, ask.limit)
      BY <2>2 DEF PageIds
    <3>2. N = M
      BY <2>2 DEF Pool
    <3>3. filled <=> /\ ranked # None
                     /\ Len(Among(FavoriteOrder(ranked, ask.sort),
                                  Accepted(Favored(candidate, ranked), window))) >= ask.limit
      BY <2>2
    <3> DEFINE M2 == Found(d, candidate, window)
               ids2 == FavoriteOrderedIds(d, hd, ks, candidate, ranked, ask.sort, window, ask.limit)
    <3> DEFINE sort == ask.sort
               limit == ask.limit
    <3>4. /\ filled <=> /\ ranked # None
                     /\ Len(Among(FavoriteOrder(ranked, sort),
                                  Accepted(Favored(candidate, ranked), window))) >= limit
          /\ ~filled /\ UsesHead(rest, sort) => hd = LaneHead(d)
          /\ ~filled /\ UsesKeys(rest, sort) => ks = SortKeys(d)
          /\ sort \in {"newest", "score"} /\ limit \in Nat
          /\ candidate.form = "finite" => candidate.ids \subseteq Live(d)
      BY <1>1, <1>4, <3>3
    <3> HIDE DEF sort, limit
    <3>5. Shows(FavoriteOrderedIds(d, hd, ks, candidate, ranked, sort, window, limit),
                Found(d, candidate, window), PageOrder(d, given.ids, sort), limit)
      BY ONLY d \in Snapshots, given \in Given, <1>2, <1>4, <3>4, PostPageShows
    <3>6. Shows(ids2, M2, R, ask.limit)
      BY <3>5 DEF sort, limit
    <3>7. M2 = M
      BY <1>4
    <3> HIDE DEF M2, ids2, ids, M, N, R
    <3>8. Shows(ids, N, R, ask.limit)
      BY <3>1, <3>2, <3>6, <3>7 DEF ids2
    <3> QED
      BY <3>8 DEF Shows
  <2> QED
    BY <1>1, <2>1, <2>2
<1> HIDE DEF M, N, R, ids, t
<1>7. IsPrefix(ids, t)
  BY <1>5, <1>6, ShowsIsPrefix
<1>8. short \/ ids = Take(t, ask.limit)
  BY <1>1, <1>5, <1>6, ShowsIsTake
<1> QED
  BY <1>6, <1>7, <1>8 DEF M, N, R, ids, t

-----------------------------------------------------------------------------
(* Pages that repeat nothing, whatever states their caches are of          *)

\* A list without repeats.
Apart(s, S) == s \in Seq(S) /\ \A i, j \in DOMAIN s : s[i] = s[j] => i = j

\* A list of posts no two of which are of one family.
FamiliesApart(s, S) ==
    s \in Seq(S) /\ \A i, j \in DOMAIN s : RootOf[s[i]] = RootOf[s[j]] => i = j

\* Keys as a cache may hold them, of whichever states of the records.
KeysShaped(ks) == \A p \in Post : ks[p] \in Int \cup {None}

\* A list without repeats is one of every larger set.
LEMMA ApartWiden ==
  ASSUME NEW S, NEW T, S \subseteq T, NEW s, Apart(s, S)
  PROVE  Apart(s, T)
BY SeqWiden DEF Apart

\* A list in a strict order is without repeats.
LEMMA ListsApart ==
  ASSUME NEW S, NEW R, StrictOrder(R, S), NEW s, Lists(s, S, R)
  PROVE  Apart(s, S)
<1>1. s \in Seq(S)
  BY DEF Lists
<1>2. \A i, j \in DOMAIN s : s[i] = s[j] => i = j
  BY ListsInjective
<1> QED
  BY <1>1, <1>2 DEF Apart

\* Cutting a list repeats nothing.
LEMMA TakeApart ==
  ASSUME NEW S, NEW s, Apart(s, S), NEW n \in Nat
  PROVE  Apart(Take(s, n), S) /\ Len(Take(s, n)) <= n
<1>1. s \in Seq(S) /\ Len(s) \in Nat /\ DOMAIN s = 1 .. Len(s)
  BY DEF Apart
<1>2. PICK k \in 0 .. Len(s) : Take(s, n) = SubSeq(s, 1, k) /\ k <= n
  <2>1. Smaller(n, Len(s)) \in 0 .. Len(s) /\ Smaller(n, Len(s)) <= n
    BY <1>1 DEF Smaller
  <2> QED
    BY <2>1 DEF Take
<1>3. /\ SubSeq(s, 1, k) \in Seq(S) /\ Len(SubSeq(s, 1, k)) = k
      /\ \A i \in 1 .. k : SubSeq(s, 1, k)[i] = s[i] /\ i \in DOMAIN s
  BY <1>1
<1> QED
  BY <1>2, <1>3 DEF Apart

\* Filtering a list repeats nothing.
LEMMA AmongApart ==
  ASSUME NEW S, NEW s, Apart(s, S), NEW T
  PROVE  Apart(Among(s, T), S \cap T)
<1> DEFINE U == {s[i] : i \in DOMAIN s}
           R == {pq \in U \X U : \E i, j \in DOMAIN s : i < j /\ pq = <<s[i], s[j]>>}
<1>1. StrictOrder(R, U) /\ Lists(s, U, R)
  BY InjectiveLists DEF Apart
<1>2. U \subseteq S
  BY DEF Apart
<1> HIDE DEF U, R
<1> DEFINE V == U \cap T
<1>3. Lists(Among(s, T), V, R)
  BY <1>1, AmongLists
<1>4. V \in SUBSET U /\ V \subseteq S \cap T
  BY <1>2
<1> HIDE DEF V
<1>5. StrictOrder(R, V)
  BY <1>1, <1>4, OrderOfPart
<1>6. Apart(Among(s, T), V)
  BY <1>3, <1>5, ListsApart
<1> DEFINE W == S \cap T
<1>7. V \subseteq W
  BY <1>4
<1> HIDE DEF W
<1>8. Apart(Among(s, T), W)
  BY <1>6, <1>7, ApartWiden
<1> QED
  BY <1>8 DEF W

\* Lists of disjoint sets, one after the other, repeat nothing.
LEMMA ApartJoin ==
  ASSUME NEW S, NEW s, Apart(s, S), NEW T, NEW t, Apart(t, T), NEW U, S \subseteq U, T \subseteq U,
         \A p \in S : p \notin T
  PROVE  Apart(s \o t, U) /\ Len(s \o t) = Len(s) + Len(t)
<1>1. /\ s \in Seq(S) /\ t \in Seq(T) /\ Len(s) \in Nat /\ Len(t) \in Nat
      /\ DOMAIN s = 1 .. Len(s) /\ DOMAIN t = 1 .. Len(t)
      /\ s \in Seq(U) /\ t \in Seq(U)
  BY SeqWiden DEF Apart
<1>2. /\ s \o t \in Seq(U) /\ Len(s \o t) = Len(s) + Len(t) /\ DOMAIN (s \o t) = 1 .. Len(s) + Len(t)
      /\ \A i \in 1 .. Len(s) + Len(t) : (s \o t)[i] = IF i <= Len(s) THEN s[i] ELSE t[i - Len(s)]
  BY <1>1
<1> DEFINE c == s \o t
<1> HIDE DEF c
<1>3. /\ \A i \in 1 .. Len(s) : s[i] \in S
      /\ \A i \in 1 .. Len(t) : t[i] \in T
      /\ \A i, j \in 1 .. Len(s) : s[i] = s[j] => i = j
      /\ \A i, j \in 1 .. Len(t) : t[i] = t[j] => i = j
  BY <1>1 DEF Apart
<1>4. ASSUME NEW i \in 1 .. Len(s) + Len(t), NEW j \in 1 .. Len(s) + Len(t), c[i] = c[j]
      PROVE  i = j
  <2>1. /\ c[i] = IF i <= Len(s) THEN s[i] ELSE t[i - Len(s)]
        /\ c[j] = IF j <= Len(s) THEN s[j] ELSE t[j - Len(s)]
    BY <1>2 DEF c
  <2>2. /\ i <= Len(s) => i \in 1 .. Len(s)
        /\ j <= Len(s) => j \in 1 .. Len(s)
        /\ ~(i <= Len(s)) => i - Len(s) \in 1 .. Len(t)
        /\ ~(j <= Len(s)) => j - Len(s) \in 1 .. Len(t)
    BY <1>1
  <2>3. CASE i <= Len(s) /\ j <= Len(s)
    BY <1>3, <1>4, <2>1, <2>2, <2>3
  <2>4. CASE i <= Len(s) /\ ~(j <= Len(s))
    BY <1>3, <1>4, <2>1, <2>2, <2>4
  <2>5. CASE ~(i <= Len(s)) /\ j <= Len(s)
    BY <1>3, <1>4, <2>1, <2>2, <2>5
  <2>6. CASE ~(i <= Len(s)) /\ ~(j <= Len(s))
    <3>1. i - Len(s) = j - Len(s)
      BY <1>3, <1>4, <2>1, <2>2, <2>6
    <3> QED
      BY <1>1, <3>1
  <2> QED
    BY <2>3, <2>4, <2>5, <2>6
<1> QED
  BY <1>2, <1>4 DEF Apart, c

\* What the pages of an order list is one post at most once.
LEMMA PostIdsApart ==
  ASSUME NEW d \in Snapshots, NEW hd, NEW ks, NEW candidate, NEW sort \in {"newest", "score"},
         NEW window, NEW n \in Nat,
         UsesHead(candidate, sort) => Apart(hd, Post),
         UsesKeys(candidate, sort) => KeysShaped(ks)
  PROVE  /\ Apart(PostIds(d, hd, ks, candidate, sort, window, n), Accepted(candidate, window))
         /\ Len(PostIds(d, hd, ks, candidate, sort, window, n)) <= n
<1> DEFINE A == Accepted(candidate, window)
           ids == PostIds(d, hd, ks, candidate, sort, window, n)
<1>1. A \subseteq Post /\ Post \cap A = A
  BY DEF Accepted
<1> HIDE DEF A
<1>2. CASE UsesKeys(candidate, sort)
  <2> DEFINE known == {p \in A : ks[p] # None}
  <2>1. ids = Take(Strongest(ks, known), n)
    BY <1>2 DEF PostIds, UsesHead, UsesKeys, LocalSortedIds, A
  <2>2. known \in SUBSET Post /\ known \subseteq A /\ \A p \in known : ks[p] \in Int
    BY <1>1, <1>2 DEF KeysShaped
  <2> HIDE DEF known
  <2> DEFINE s == Strongest(ks, known)
             Q == SortOrder("score", ks)
  <2>3. Lists(s, known, Q) /\ StrictOrder(Q, known)
    BY <2>2, StrongestLists, SortIsStrict
  <2> HIDE DEF s, Q
  <2>4. Apart(s, known)
    BY <2>3, ListsApart
  <2>5. Apart(s, A)
    BY <2>2, <2>4, ApartWiden
  <2>6. Apart(Take(s, n), A) /\ Len(Take(s, n)) <= n
    BY <2>5, TakeApart
  <2> QED
    BY <2>1, <2>6 DEF s, A
<1>3. CASE UsesHead(candidate, sort)
  <2> DEFINE h == Among(hd, A)
             l == Among(Lane(d), A)
  <2>1. ids \in {Take(h, n), Take(l, n)}
    BY <1>3 DEF PostIds, UsesHead, UsesKeys, RankedIds, HeadIds, LaneIds, A
  <2>2. Apart(h, A)
    BY <1>1, <1>3, AmongApart
  <2>3. Apart(Lane(d), Post)
    <3> DEFINE Q == SortOrder("score", SortKeys(d))
    <3>1. Lists(Lane(d), Live(d), Q) /\ StrictOrder(Q, Live(d))
      BY LaneLists
    <3> HIDE DEF Q
    <3>2. Apart(Lane(d), Live(d))
      BY <3>1, ListsApart
    <3> QED
      BY <3>2, ApartWiden, KeysOfLive
  <2>4. Apart(l, A)
    BY <1>1, <2>3, AmongApart
  <2> HIDE DEF h, l, ids
  <2>5. Apart(ids, A) /\ Len(ids) <= n
    BY <2>1, <2>2, <2>4, TakeApart
  <2> QED
    BY <2>5 DEF ids, A
<1>4. CASE sort = "newest"
  <2> DEFINE S == IF candidate.form = "finite" THEN A ELSE A \cap Live(d)
             s == Newest(S)
             Q == SortOrder("newest", [p \in Post |-> 0])
  <2>1. ids = Take(s, n)
    BY <1>4 DEF PostIds, UsesHead, UsesKeys, NewestIds, A
  <2>2. S \in SUBSET Post /\ S \subseteq A
    BY <1>1
  <2> HIDE DEF S
  <2>3. Lists(s, S, Q)
    BY <2>2, NewestLists
  <2>4. StrictOrder(Q, S)
    BY <2>2, SortIsStrict
  <2> HIDE DEF s, Q, ids
  <2>5. Apart(s, S)
    BY <2>3, <2>4, ListsApart
  <2>6. Apart(s, A)
    BY <2>2, <2>5, ApartWiden
  <2>7. Apart(ids, A) /\ Len(ids) <= n
    BY <2>1, <2>6, TakeApart
  <2> QED
    BY <2>7 DEF ids, A
<1> QED
  BY <1>2, <1>3, <1>4 DEF UsesHead

\* What a page of a candidate reads of the caches is shaped as a cache is.
CachesShaped(candidate, sort, hd, ks) ==
    /\ UsesHead(candidate, sort) => Apart(hd, Post)
    /\ UsesKeys(candidate, sort) => KeysShaped(ks)

\* A page of at most n posts of S.
PageOf(s, S, n) == Apart(s, S) /\ Len(s) <= n

\* A page of at most n families of S.
FamilyPageOf(s, S, n) == FamiliesApart(s, S) /\ Len(s) <= n

\* Whether favourites alone fill a page of posts.
FavoritesFill(candidate, held, sort, window, limit) ==
    /\ held # None
    /\ Len(Among(FavoriteOrder(held, sort), Accepted(Favored(candidate, held), window))) >= limit

\* Whether favourites alone fill a page of families.
FamiliesFill(candidate, held, sort, window, limit) ==
    held # None /\ Len(FavoriteFamilies(candidate, held, sort, window, limit)) >= limit

\* A page of posts repeats nothing, whatever states its caches are of.
LEMMA FavoriteOrderedApart ==
  ASSUME NEW d \in Snapshots, NEW hd, NEW ks, NEW candidate,
         candidate.form \in {"finite", "cofinite"}, NEW held,
         NEW sort \in {"newest", "score"}, NEW window, NEW limit \in Nat,
         NEW rest, rest = IF held = None THEN candidate ELSE Ordinary(candidate, held),
         FavoritesFill(candidate, held, sort, window, limit) \/ CachesShaped(rest, sort, hd, ks),
         held # None => Apart(FavoriteOrder(held, sort), Post)
  PROVE  PageOf(FavoriteOrderedIds(d, hd, ks, candidate, held, sort, window, limit),
                Accepted(candidate, window), limit)
<1> DEFINE filled == FavoritesFill(candidate, held, sort, window, limit)
           ids == FavoriteOrderedIds(d, hd, ks, candidate, held, sort, window, limit)
           A == Accepted(candidate, window)
<1>1. CASE held = None
  <2>1. ids = PostIds(d, hd, ks, candidate, sort, window, limit) /\ ~filled /\ rest = candidate
    BY <1>1 DEF FavoriteOrderedIds, FavoritesFill
  <2>2. /\ UsesHead(candidate, sort) => Apart(hd, Post)
        /\ UsesKeys(candidate, sort) => KeysShaped(ks)
    BY <2>1 DEF CachesShaped
  <2>3. /\ Apart(PostIds(d, hd, ks, candidate, sort, window, limit), Accepted(candidate, window))
        /\ Len(PostIds(d, hd, ks, candidate, sort, window, limit)) <= limit
    BY <2>2, PostIdsApart
  <2> QED
    BY <2>1, <2>3 DEF PageOf
<1>2. CASE held # None
  <2> DEFINE B == Accepted(Favored(candidate, held), window)
             C == Accepted(Ordinary(candidate, held), window)
             favored == Among(FavoriteOrder(held, sort), B)
             first == Take(favored, limit)
             more == PostIds(d, hd, ks, rest, sort, window, limit - Len(first))
  <2>1. /\ B \subseteq A /\ C \subseteq A /\ B \subseteq Post /\ \A p \in B : p \notin C
    <3>1. \A p \in Post : /\ Admits(Favored(candidate, held), p) <=> Admits(candidate, p) /\ p \in held.available
                          /\ Admits(Ordinary(candidate, held), p)
                               <=> Admits(candidate, p) /\ p \notin held.available
      BY HalvesAdmit
    <3> QED
      BY <3>1 DEF Accepted
  <2>2. Post \cap B = B /\ Apart(FavoriteOrder(held, sort), Post)
    BY <1>2, <2>1
  <2>3. ids = IF Len(first) = limit THEN first
              ELSE first \o PostIds(d, hd, ks, Ordinary(candidate, held), sort, window,
                                    limit - Len(first))
    BY <1>2 DEF FavoriteOrderedIds
  <2>4. filled <=> Len(favored) >= limit
    BY <1>2 DEF FavoritesFill
  <2> HIDE DEF A, B, C
  <2>5. Apart(favored, B)
    BY <2>2, AmongApart
  <2>6. Apart(first, B) /\ Len(first) <= limit
    <3> HIDE DEF favored
    <3> QED
      BY <2>5, TakeApart
  <2>7. Len(first) \in Nat /\ Len(favored) \in Nat
    <3> HIDE DEF first, favored
    <3> QED
      BY <2>5, <2>6 DEF Apart
  <2>8. CASE Len(first) = limit
    <3>1. ids = first
      BY <2>3, <2>8
    <3> HIDE DEF first, ids
    <3>2. Apart(ids, A)
      BY <2>1, <2>6, <3>1, ApartWiden
    <3> QED
      BY <2>6, <3>1, <3>2 DEF ids, A, PageOf
  <2>9. CASE Len(first) # limit
    <3>1. limit - Len(first) \in Nat /\ rest = Ordinary(candidate, held) /\ Len(first) < limit
      BY <1>2, <2>6, <2>7, <2>9
    <3>2. ids = first \o more
      BY <2>3, <2>9, <3>1
    <3>3. ~filled
      <4>1. Len(favored) < limit
        <5> HIDE DEF favored
        <5>1. favored \in Seq(B)
          BY <2>5 DEF Apart
        <5> QED
          BY <2>7, <3>1, <5>1 DEF Take, Smaller
      <4> QED
        BY <2>4, <2>7, <4>1
    <3> DEFINE n == limit - Len(first)
    <3>4. n \in Nat
      BY <3>1
    <3> HIDE DEF n
    <3>5. /\ UsesHead(rest, sort) => Apart(hd, Post)
          /\ UsesKeys(rest, sort) => KeysShaped(ks)
      BY <3>3 DEF CachesShaped
    <3>6. /\ Apart(PostIds(d, hd, ks, rest, sort, window, n), Accepted(rest, window))
          /\ Len(PostIds(d, hd, ks, rest, sort, window, n)) <= n
      BY <3>4, <3>5, PostIdsApart
    <3>7. more = PostIds(d, hd, ks, rest, sort, window, n) /\ Accepted(rest, window) = C
      BY <3>1 DEF n, C
    <3> HIDE DEF more, first, ids
    <3>8. Apart(more, C) /\ Len(more) <= n
      BY <3>6, <3>7
    <3>9. Apart(first \o more, A) /\ Len(first \o more) = Len(first) + Len(more)
      BY <2>1, <2>6, <3>8, ApartJoin
    <3>10. Len(more) \in Nat
      BY <3>8 DEF Apart
    <3> QED
      BY <2>7, <3>2, <3>8, <3>9, <3>10 DEF ids, A, n, PageOf
  <2> QED
    BY <2>8, <2>9
<1> QED
  BY <1>1, <1>2

\* Offering posts to a page of families keeps it one.
LEMMA OfferedApart ==
  ASSUME NEW S, NEW page, FamiliesApart(page, S), NEW limit \in Nat, Len(page) <= limit,
         NEW s \in Seq(S)
  PROVE  FamiliesApart(Offered(page, s, limit), S) /\ Len(Offered(page, s, limit)) <= limit
<1>1. Len(s) \in Nat /\ DOMAIN s = 1 .. Len(s) /\ page \in Seq(S)
  BY DEF FamiliesApart
<1>2. PICK F : OfferedSteps(F, page, s, limit)
  BY <1>1, OfferedUnfolds
<1> DEFINE Good == {k \in 0 .. Len(s) : FamiliesApart(F[k], S) /\ Len(F[k]) <= limit}
<1>3. 0 \in Good
  BY <1>1, <1>2 DEF OfferedSteps
<1>4. ASSUME NEW k \in 1 .. Len(s), k - 1 \in Good PROVE k \in Good
  <2> DEFINE o == F[k - 1]
             p == s[k]
  <2>1. FamiliesApart(o, S) /\ Len(o) <= limit /\ p \in S
    BY <1>1, <1>4
  <2>2. F[k] = IF Len(o) < limit /\ RootOf[p] \notin Roots(o) THEN Append(o, p) ELSE o
    BY <1>2 DEF OfferedSteps
  <2> HIDE DEF o, p
  <2>3. CASE Len(o) < limit /\ RootOf[p] \notin Roots(o)
    <3>1. o \in Seq(S) /\ Len(o) \in Nat /\ DOMAIN o = 1 .. Len(o)
          /\ \A i \in DOMAIN o : o[i] \in S
      BY <2>1 DEF FamiliesApart
    <3>2. \A i \in DOMAIN o : RootOf[o[i]] # RootOf[p]
      BY <2>3, <3>1 DEF Roots, ToSet
    <3>3. /\ Append(o, p) \in Seq(S) /\ Len(Append(o, p)) = Len(o) + 1
          /\ DOMAIN Append(o, p) = 1 .. Len(o) + 1
          /\ \A i \in 1 .. Len(o) + 1 : Append(o, p)[i] = IF i = Len(o) + 1 THEN p ELSE o[i]
      BY <2>1, <3>1
    <3> DEFINE a == Append(o, p)
    <3> HIDE DEF a
    <3>4. ASSUME NEW i \in 1 .. Len(o) + 1, NEW j \in 1 .. Len(o) + 1, RootOf[a[i]] = RootOf[a[j]]
          PROVE  i = j
      <4>1. /\ a[i] = IF i = Len(o) + 1 THEN p ELSE o[i]
            /\ a[j] = IF j = Len(o) + 1 THEN p ELSE o[j]
        BY <3>3 DEF a
      <4>2. /\ i # Len(o) + 1 => i \in DOMAIN o
            /\ j # Len(o) + 1 => j \in DOMAIN o
        BY <3>1
      <4> QED
        BY <2>1, <3>2, <3>4, <4>1, <4>2 DEF FamiliesApart
    <3>5. FamiliesApart(a, S)
      BY <3>3, <3>4 DEF FamiliesApart, a
    <3>6. F[k] = a /\ Len(a) <= limit
      BY <2>2, <2>3, <3>1, <3>3 DEF a
    <3>7. k \in 0 .. Len(s)
      BY <1>1
    <3> QED
      BY <3>5, <3>6, <3>7
  <2>4. CASE ~(Len(o) < limit /\ RootOf[p] \notin Roots(o))
    BY <1>1, <2>1, <2>2, <2>4
  <2> QED
    BY <2>3, <2>4
<1>5. Good \in SUBSET (0 .. Len(s)) /\ Len(s) \in 0 .. Len(s)
  BY <1>1
<1>6. Len(s) \in Good
  <2> HIDE DEF Good
  <2> QED
    BY <1>1, <1>3, <1>4, <1>5, UpTo
<1> QED
  BY <1>2, <1>6 DEF OfferedSteps

\* The page of families favourites begin, and the rest extends.
LEMMA ExtendKeepsFamilyPage ==
  ASSUME NEW d \in Snapshots, NEW hd, NEW ks, NEW candidate, NEW sort \in {"newest", "score"},
         NEW window, NEW limit \in Nat, NEW S, Accepted(candidate, window) \in SUBSET S,
         NEW page, FamilyPageOf(page, S, limit), CachesShaped(candidate, sort, hd, ks)
  PROVE  FamilyPageOf(ExtendFamilyPage(page, d, hd, ks, candidate, sort, window, limit), S, limit)
<1> DEFINE A == Accepted(candidate, window)
           ids == ExtendFamilyPage(page, d, hd, ks, candidate, sort, window, limit)
<1>1. /\ FamiliesApart(page, S) /\ Len(page) <= limit
      /\ UsesHead(candidate, sort) => Apart(hd, Post)
      /\ UsesKeys(candidate, sort) => KeysShaped(ks)
  BY DEF FamilyPageOf, CachesShaped
<1>2. A \subseteq Post /\ Post \cap A = A /\ A \in SUBSET Post /\ A \in SUBSET S
  BY DEF Accepted
<1> HIDE DEF A
<1>3. \A s : Apart(s, A) => s \in Seq(S)
  BY <1>2, SeqWiden DEF Apart
<1>4. CASE UsesKeys(candidate, sort)
  <2> DEFINE known == {p \in A : ks[p] # None}
             n == limit - Len(page)
             none == <<>>
             m == Cardinality(Post)
             o == Offered(none, Strongest(ks, known), m)
             s == Take(o, n)
  <2>1. ids = Offered(page, s, limit)
    BY <1>4 DEF ExtendFamilyPage, UsesHead, UsesKeys, LocalSortedFamilyIds, A
  <2>2. known \in SUBSET Post /\ known \subseteq A /\ \A p \in known : ks[p] \in Int
    BY <1>1, <1>2, <1>4 DEF KeysShaped
  <2>3. n \in Nat /\ m \in Nat
    <3>1. Len(page) \in Nat
      BY <1>1 DEF FamiliesApart
    <3>2. m \in Nat
      BY FS_CardinalityType, PagesAssumption
    <3> QED
      BY <1>1, <3>1, <3>2
  <2>4. FamiliesApart(none, A) /\ Len(none) <= m
    BY <2>3 DEF FamiliesApart
  <2> HIDE DEF known, none, m, n
  <2> DEFINE t == Strongest(ks, known)
             Q == SortOrder("score", ks)
  <2>5. Lists(t, known, Q)
    BY <2>2, StrongestLists
  <2> HIDE DEF t, Q
  <2>6. t \in Seq(A)
    BY <2>2, <2>5, SeqWiden DEF Lists
  <2>7. FamiliesApart(o, A)
    BY <1>2, <2>3, <2>4, <2>6, OfferedApart DEF t
  <2> HIDE DEF o
  <2>8. Apart(o, A)
    BY <2>7 DEF FamiliesApart, Apart
  <2>9. Apart(s, A)
    BY <2>3, <2>8, TakeApart
  <2> HIDE DEF s, ids
  <2>10. FamiliesApart(ids, S) /\ Len(ids) <= limit
    BY <1>1, <1>3, <2>1, <2>9, OfferedApart
  <2> QED
    BY <2>10 DEF ids, FamilyPageOf
<1>5. CASE UsesHead(candidate, sort)
  <2> DEFINE h == Among(hd, A)
             l == Among(Lane(d), A)
             o == Offered(page, h, limit)
  <2>1. ids = Offered(o, l, limit)
    BY <1>5 DEF ExtendFamilyPage, UsesHead, UsesKeys, ExtendRankedFamilyPage, A
  <2>2. Apart(h, A)
    BY <1>1, <1>2, <1>5, AmongApart
  <2>3. Apart(Lane(d), Post)
    <3> DEFINE Q == SortOrder("score", SortKeys(d))
    <3>1. Lists(Lane(d), Live(d), Q) /\ StrictOrder(Q, Live(d))
      BY LaneLists
    <3> HIDE DEF Q
    <3>2. Apart(Lane(d), Live(d))
      BY <3>1, ListsApart
    <3> QED
      BY <3>2, ApartWiden, KeysOfLive
  <2>4. Apart(l, A)
    BY <1>2, <2>3, AmongApart
  <2> HIDE DEF h, l
  <2>5. FamiliesApart(o, S) /\ Len(o) <= limit
    BY <1>1, <1>3, <2>2, OfferedApart
  <2> HIDE DEF o, ids
  <2>6. FamiliesApart(ids, S) /\ Len(ids) <= limit
    BY <1>3, <2>1, <2>4, <2>5, OfferedApart
  <2> QED
    BY <2>6 DEF ids, FamilyPageOf
<1>6. CASE sort = "newest"
  <2> DEFINE T == IF candidate.form = "finite" THEN A ELSE A \cap Live(d)
             s == Newest(T)
             Q == SortOrder("newest", [p \in Post |-> 0])
  <2>1. ids = Offered(page, s, limit)
    BY <1>6 DEF ExtendFamilyPage, UsesHead, UsesKeys, ExtendNewestFamilyPage, NewestIds, A
  <2>2. T \in SUBSET Post /\ T \subseteq S
    BY <1>2
  <2> HIDE DEF T
  <2>3. Lists(s, T, Q)
    BY <2>2, NewestLists
  <2> HIDE DEF s, Q, ids
  <2>4. s \in Seq(S)
    BY <2>2, <2>3, SeqWiden DEF Lists
  <2>5. FamiliesApart(ids, S) /\ Len(ids) <= limit
    BY <1>1, <2>1, <2>4, OfferedApart
  <2> QED
    BY <2>5 DEF ids, FamilyPageOf
<1> QED
  BY <1>4, <1>5, <1>6 DEF UsesHead

\* A page of families shows none twice, whatever states its caches are of.
LEMMA FamilyIdsApart ==
  ASSUME NEW d \in Snapshots, NEW hd, NEW ks, NEW candidate,
         candidate.form \in {"finite", "cofinite"}, NEW held,
         NEW sort \in {"newest", "score"}, NEW window, NEW limit \in Nat,
         NEW rest, rest = IF held = None THEN candidate ELSE Ordinary(candidate, held),
         FamiliesFill(candidate, held, sort, window, limit) \/ CachesShaped(rest, sort, hd, ks),
         held # None => Apart(FavoriteOrder(held, sort), Post)
  PROVE  FamilyPageOf(FamilyIds(d, hd, ks, candidate, held, sort, window, limit),
                      Accepted(candidate, window), limit)
<1> DEFINE filled == FamiliesFill(candidate, held, sort, window, limit)
           ids == FamilyIds(d, hd, ks, candidate, held, sort, window, limit)
           A == Accepted(candidate, window)
           R == Accepted(rest, window)
           none == <<>>
<1>1. A \in SUBSET Post /\ R \in SUBSET A
  <2>1. CASE held = None
    BY <2>1 DEF Accepted
  <2>2. CASE held # None
    <3>1. \A p \in Post : Admits(Ordinary(candidate, held), p) => Admits(candidate, p)
      BY HalvesAdmit
    <3> QED
      BY <2>2, <3>1 DEF Accepted
  <2> QED
    BY <2>1, <2>2
<1>2. FamiliesApart(none, A) /\ Len(none) <= limit
  BY DEF FamiliesApart
<1> DEFINE first == IF held = None THEN none
                    ELSE FavoriteFamilies(candidate, held, sort, window, limit)
<1>3. FamiliesApart(first, A) /\ Len(first) <= limit
  <2>1. CASE held = None
    BY <1>2, <2>1
  <2>2. CASE held # None
    <3> DEFINE B == Accepted(Favored(candidate, held), window)
               s == Among(FavoriteOrder(held, sort), B)
    <3>1. B \subseteq A /\ Post \cap B = B
      <4>1. \A p \in Post : Admits(Favored(candidate, held), p) => Admits(candidate, p)
        BY HalvesAdmit
      <4> QED
        BY <4>1 DEF Accepted
    <3> HIDE DEF B
    <3>2. Apart(s, B)
      BY <2>2, <3>1, AmongApart
    <3>3. s \in Seq(A)
      BY <3>1, <3>2, SeqWiden DEF Apart
    <3>4. first = Offered(none, s, limit)
      BY <2>2 DEF FavoriteFamilies, B
    <3> HIDE DEF s, none, first, A
    <3> QED
      BY <1>1, <1>2, <3>3, <3>4, OfferedApart
  <2> QED
    BY <2>1, <2>2
<1>4. CASE filled
  <2>1. held # None /\ Len(first) >= limit
    BY <1>4 DEF FamiliesFill
  <2>2. Len(first) = limit
    <3>1. Len(first) \in Nat
      BY <1>3 DEF FamiliesApart
    <3> HIDE DEF first
    <3> QED
      BY <1>3, <2>1, <3>1
  <2>3. ids = first
    BY <2>1, <2>2 DEF FamilyIds, FavoriteFamilies
  <2> QED
    BY <1>3, <2>3 DEF FamilyPageOf
<1>5. CASE ~filled
  <2> DEFINE more == ExtendFamilyPage(first, d, hd, ks, rest, sort, window, limit)
  <2>1. ids = more
    <3>1. CASE held = None
      BY <3>1 DEF FamilyIds
    <3>2. CASE held # None
      <4>1. Len(first) # limit
        <5>1. ~(Len(first) >= limit)
          BY <1>5, <3>2 DEF FamiliesFill
        <5> QED
          BY <5>1
      <4> QED
        BY <3>2, <4>1 DEF FamilyIds, FavoriteFamilies
    <3> QED
      BY <3>1, <3>2
  <2> HIDE DEF first, A
  <2> DEFINE o == ExtendFamilyPage(first, d, hd, ks, rest, sort, window, limit)
  <2>2. FamiliesApart(o, A) /\ Len(o) <= limit
    <3>1. Accepted(rest, window) \in SUBSET A
      BY <1>1
    <3>2. CachesShaped(rest, sort, hd, ks)
      BY <1>5
    <3>3. FamilyPageOf(first, A, limit)
      BY <1>3 DEF FamilyPageOf
    <3> HIDE DEF R
    <3>4. FamilyPageOf(o, A, limit)
      BY <3>1, <3>2, <3>3, ExtendKeepsFamilyPage
    <3> QED
      BY <3>4 DEF FamilyPageOf
  <2> QED
    BY <2>1, <2>2 DEF A, FamilyPageOf
<1> QED
  BY <1>4, <1>5

-----------------------------------------------------------------------------
(* The inductive invariant                                                 *)

ReaderFields ==
    {"pc", "ask", "db", "source", "window", "ranks", "ids", "shown", "tail", "count", "missed",
     "alone", "sound"}

Underway == reader.pc # "idle"
AtWork == writer.pc # "idle"
Unranked(w) == w.pc \in {"records", "heads"}
Unkeyed(w) == w.pc \in {"records", "heads", "keys"}

Types ==
    /\ db \in [Post -> Record \cup {None}] /\ DOMAIN records = Post
    /\ source.ids \subseteq Post
    /\ keys # None => keys = [p \in Post |-> keys[p]]
    /\ ranks # None => ranks.source.ids \subseteq Post
    /\ stale \in [records : SUBSET Post, head : BOOLEAN, keys : SUBSET Post, ranks : BOOLEAN]

ReaderType ==
    Underway => /\ DOMAIN reader = ReaderFields
                /\ reader.pc \in {"rank", "page", "hydrate", "answered"}
                /\ reader.sound \in BOOLEAN
                /\ reader.db \in [Post -> Record \cup {None}]
                /\ reader.source.ids \subseteq Post
                /\ reader.missed \subseteq Post

\* An absorb at work evicts for the post and the record that it committed.
WriterType ==
    \/ writer = Idle
    \/ /\ DOMAIN writer = {"pc", "post", "record"}
       /\ writer.pc \in {"records", "heads", "keys", "ranks"}
       /\ writer.post \in Post /\ writer.record = db[writer.post]

\* The snapshot of a search differs from the last commit only in posts it missed.
SnapshotOfMissed == Underway => \A p \in Post \ reader.missed : reader.db[p] = db[p]

\* Nothing has happened to the caches since a sound search began.
SoundIsUndisturbed ==
    Underway /\ reader.sound => writer = Idle /\ reader.missed = {} /\ stale = NothingStale

\* Each cache agrees with the last commit, but for what history calls stale and for
\* what the absorb at work has still to evict.
RecordsKept ==
    \A p \in Post \ stale.records :
        records[p] \in {None, db[p]} \/ (writer.pc = "records" /\ writer.post = p)

HeadKept == stale.head \/ head = None \/ head = LaneHead(db) \/ Unranked(writer)

KeysKept ==
    keys # None => \A p \in Post \ stale.keys :
        keys[p] = SortKeys(db)[p] \/ (Unkeyed(writer) /\ writer.post = p)

RanksKept ==
    \/ stale.ranks \/ ranks = None \/ ranks = FavoriteRanks(db, ranks.source)
    \/ AtWork /\ writer.post \in ranks.source.ids

CacheInv ==
    /\ Types /\ ReaderType /\ WriterType
    /\ SnapshotOfMissed /\ SoundIsUndisturbed
    /\ RecordsKept /\ HeadKept /\ KeysKept /\ RanksKept

-----------------------------------------------------------------------------
(* What an undisturbed search has read                                     *)

ReadsHead(r) == ~FilledByFavorites(r) /\ UsesHead(Rest(r), r.ask.sort)
ReadsKeys(r) == ~FilledByFavorites(r) /\ UsesKeys(Rest(r), r.ask.sort)

\* The ranks of a search are those of its snapshot.
RanksOfSnapshot(r) ==
    r.ranks = IF r.source.ids = {} THEN None ELSE FavoriteRanks(r.db, r.source)

\* Its page is one the snapshot alone could have given: every head and key it read is
\* the snapshot's own.
PageOfSnapshot(r) ==
    IF r.window.ids = {} THEN r.ids = <<>> /\ r.count = 0
    ELSE /\ RanksOfSnapshot(r)
         /\ r.count = CandidateCount(r.db, Candidate(r), r.window)
         /\ \E hd, ks : /\ ReadsHead(r) => hd = LaneHead(r.db)
                        /\ ReadsKeys(r) => ks = SortKeys(r.db)
                        /\ r.ids = PageIds(r.db, hd, ks, r.ranks, r.ask, Candidate(r), r.window)

PageInv ==
    Underway /\ reader.sound =>
        /\ reader.window = DateWindow(reader.db, Normalized(reader.ask.dates))
        /\ reader.pc \in {"rank", "page"} => reader.window.ids # {}
        /\ reader.pc = "rank" => reader.source.ids # {}
        /\ reader.pc = "page" => RanksOfSnapshot(reader)
        /\ reader.pc \in {"hydrate", "answered"} => PageOfSnapshot(reader)

-----------------------------------------------------------------------------
(* Lemmas about what caches hold                                           *)

\* The ranks of favourites depend on the records of those favourites alone.
LEMMA RanksOfRecords ==
  ASSUME NEW d, NEW e, NEW given, \A p \in given.ids : d[p] = e[p]
  PROVE  FavoriteRanks(d, given) = FavoriteRanks(e, given)
<1>1. [p \in given.ids |-> d[p]] = [p \in given.ids |-> e[p]]
  OBVIOUS
<1> QED
  BY <1>1, Zenon DEF FavoriteRanks

\* Ranks know the favourites they were made of.
LEMMA SourceOfRanks ==
  ASSUME NEW d, NEW given
  PROVE  FavoriteRanks(d, given).source = given
BY DEF FavoriteRanks

\* A snapshot that missed nothing is the last commit.
LEMMA NothingMissed ==
  ASSUME CacheInv, Underway, reader.missed = {}
  PROVE  reader.db = db
BY DEF CacheInv, Types, ReaderType, SnapshotOfMissed

\* Nothing is cached, and no one searches.
LEMMA InitCache == Init => CacheInv /\ PageInv
<1> SUFFICES ASSUME Init PROVE CacheInv /\ PageInv
  OBVIOUS
<1>1. ~Underway /\ writer = Idle
  BY DEF Init, Underway, Idle
<1>2. Types
  BY DEF Types, Init, NothingStale
<1>3. RecordsKept /\ HeadKept /\ KeysKept /\ RanksKept
  BY DEF Init, RecordsKept, HeadKept, KeysKept, RanksKept
<1> QED
  BY <1>1, <1>2, <1>3
  DEF CacheInv, PageInv, ReaderType, WriterType, SnapshotOfMissed, SoundIsUndisturbed

-----------------------------------------------------------------------------
(* The steps of a search                                                   *)

\* A new search begins with nothing shown; an empty window answers it at once.
LEMMA BeginReads ==
  ASSUME NEW ask, NEW given, Begin(ask, given)
  PROVE  LET window == DateWindow(db, Normalized(ask.dates)) IN
         /\ source' = given
         /\ UNCHANGED <<db, records, head, keys, ranks, writer, stale>>
         /\ DOMAIN reader' = ReaderFields
         /\ reader'.pc = IF window.ids = {} THEN "answered"
                         ELSE IF given.ids = {} THEN "page" ELSE "rank"
         /\ reader'.db = db /\ reader'.source = given /\ reader'.missed = {}
         /\ reader'.ask = ask /\ reader'.window = window
         /\ reader'.ranks = None /\ reader'.ids = <<>> /\ reader'.count = 0 /\ reader'.shown = <<>>
         /\ reader'.sound = (writer = Idle /\ stale = NothingStale)
<1> DEFINE window == DateWindow(db, Normalized(ask.dates))
           begun == [pc |-> IF given.ids = {} THEN "page" ELSE "rank", ask |-> ask, db |-> db,
                     source |-> given, window |-> window, ranks |-> None,
                     ids |-> <<>>, shown |-> <<>>, tail |-> "exhausted", count |-> 0,
                     missed |-> {},
                     alone |-> writer = Idle,
                     sound |-> writer = Idle /\ stale = NothingStale]
<1>1. /\ source' = given
      /\ UNCHANGED <<db, records, head, keys, ranks, writer, stale>>
      /\ reader' = IF window.ids = {} THEN Answer(begun, <<>>, 0) ELSE begun
  BY DEF Begin
<1> HIDE DEF window
<1>2. /\ DOMAIN reader' = ReaderFields
      /\ reader'.pc = IF window.ids = {} THEN "answered"
                      ELSE IF given.ids = {} THEN "page" ELSE "rank"
      /\ reader'.db = db /\ reader'.source = given /\ reader'.missed = {}
      /\ reader'.ask = ask /\ reader'.window = window
      /\ reader'.ranks = None /\ reader'.ids = <<>> /\ reader'.count = 0 /\ reader'.shown = <<>>
      /\ reader'.sound = (writer = Idle /\ stale = NothingStale)
  <2>1. CASE window.ids = {}
    BY <1>1, <2>1 DEF Answer, ReaderFields
  <2>2. CASE window.ids # {}
    BY <1>1, <2>2 DEF ReaderFields
  <2> QED
    BY <2>1, <2>2
<1> QED
  BY <1>1, <1>2, Zenon DEF window

\* A new search begins with the last commit, whatever it asks.
LEMMA BeginKeeps ==
  ASSUME ReadCachesAssumption, CacheInv, NEW ask, NEW ids \in Favorites, Begin(ask, Toggled(ids))
  PROVE  CacheInv' /\ PageInv'
<1> DEFINE given == Toggled(ids)
           window == DateWindow(db, Normalized(ask.dates))
<1>1. given.ids \subseteq Post
  BY DEF Toggled, CacheInv, Types, ReadCachesAssumption
<1> HIDE DEF given
<1>2. /\ source' = given
      /\ UNCHANGED <<db, records, head, keys, ranks, writer, stale>>
  BY BeginReads DEF given
<1>3. /\ DOMAIN reader' = ReaderFields
      /\ reader'.pc = IF window.ids = {} THEN "answered"
                      ELSE IF given.ids = {} THEN "page" ELSE "rank"
      /\ reader'.db = db /\ reader'.source = given /\ reader'.missed = {}
      /\ reader'.ask = ask /\ reader'.window = window
      /\ reader'.ranks = None /\ reader'.ids = <<>> /\ reader'.count = 0
      /\ reader'.sound = (writer = Idle /\ stale = NothingStale)
  BY BeginReads DEF given
<1>4. Types' /\ WriterType'
  BY <1>1, <1>2 DEF CacheInv, Types, WriterType
<1>5. ReaderType'
  BY <1>1, <1>2, <1>3 DEF CacheInv, Types, ReaderType
<1>6. SnapshotOfMissed' /\ SoundIsUndisturbed'
  BY <1>2, <1>3 DEF SnapshotOfMissed, SoundIsUndisturbed
<1>7. RecordsKept' /\ HeadKept' /\ KeysKept' /\ RanksKept'
  BY <1>2 DEF CacheInv, RecordsKept, HeadKept, KeysKept, RanksKept, AtWork
<1>8. PageInv'
  BY <1>3 DEF PageInv, PageOfSnapshot, RanksOfSnapshot
<1> QED
  BY <1>4, <1>5, <1>6, <1>7, <1>8 DEF CacheInv

\* Ranks that serve a search, or are made for it, are those of its favourites; those
\* made are wrong only where the search missed a favourite.
LEMMA RankKeeps ==
  ASSUME CacheInv, PageInv, Rank
  PROVE  CacheInv' /\ PageInv'
<1>1. reader.pc = "rank" /\ Underway
  BY DEF Rank, Underway
<1>2. UNCHANGED <<db, source, records, head, keys, writer>>
  BY DEF Rank
<1>3. PICK rk : /\ reader' = [reader EXCEPT !.pc = "page", !.ranks = rk]
                /\ \/ ranks # None /\ ranks.source = reader.source /\ rk = ranks
                      /\ UNCHANGED <<ranks, stale>>
                   \/ rk = FavoriteRanks(reader.db, reader.source) /\ ranks' = rk
                      /\ stale' = [stale EXCEPT !.ranks = reader.missed \cap reader.source.ids # {}]
  BY DEF Rank
<1>4. /\ DOMAIN reader' = ReaderFields
      /\ reader'.pc = "page" /\ reader'.ranks = rk
      /\ \A f \in ReaderFields \ {"pc", "ranks"} : reader'[f] = reader[f]
  BY <1>1, <1>3 DEF CacheInv, ReaderType, ReaderFields
<1>5. /\ reader'.db = reader.db /\ reader'.source = reader.source
      /\ reader'.missed = reader.missed /\ reader'.sound = reader.sound
      /\ reader'.ask = reader.ask /\ reader'.window = reader.window
  BY <1>4 DEF ReaderFields
<1>6. /\ stale' \in [records : SUBSET Post, head : BOOLEAN, keys : SUBSET Post, ranks : BOOLEAN]
      /\ stale'.records = stale.records /\ stale'.head = stale.head /\ stale'.keys = stale.keys
  BY <1>3 DEF CacheInv, Types
<1>7. rk.source = reader.source
  BY <1>3, SourceOfRanks
<1>8. Types'
  <2>1. ranks' = ranks \/ (ranks' = rk /\ rk.source.ids \subseteq Post)
    BY <1>1, <1>3, <1>7 DEF CacheInv, ReaderType
  <2> QED
    BY <2>1, <1>2, <1>6 DEF CacheInv, Types
<1>9. ReaderType' /\ WriterType' /\ SnapshotOfMissed'
  BY <1>1, <1>2, <1>4, <1>5
  DEF CacheInv, ReaderType, WriterType, SnapshotOfMissed, Underway
<1>10. SoundIsUndisturbed'
  <2> SUFFICES ASSUME reader.sound
               PROVE  writer' = Idle /\ reader'.missed = {} /\ stale' = NothingStale
    BY <1>5 DEF SoundIsUndisturbed
  <2>1. writer = Idle /\ reader.missed = {} /\ stale = NothingStale
    BY <1>1 DEF CacheInv, SoundIsUndisturbed
  <2>2. stale' = NothingStale
    BY <1>3, <2>1 DEF NothingStale
  <2> QED
    BY <1>2, <1>5, <2>1, <2>2
<1>11. RecordsKept' /\ HeadKept' /\ KeysKept'
  BY <1>2, <1>6 DEF CacheInv, RecordsKept, HeadKept, KeysKept
<1>12. RanksKept'
  <2>1. CASE UNCHANGED <<ranks, stale>>
    BY <2>1, <1>2 DEF CacheInv, RanksKept, AtWork
  <2>2. CASE /\ rk = FavoriteRanks(reader.db, reader.source) /\ ranks' = rk
             /\ stale' = [stale EXCEPT !.ranks = reader.missed \cap reader.source.ids # {}]
    <3>1. stale'.ranks = (reader.missed \cap reader.source.ids # {})
      BY <2>2 DEF CacheInv, Types
    <3>2. CASE reader.missed \cap reader.source.ids = {}
      <4>1. \A p \in reader.source.ids : reader.db[p] = db[p]
        BY <3>2, <1>1 DEF CacheInv, ReaderType, SnapshotOfMissed
      <4>2. rk = FavoriteRanks(db, reader.source)
        BY <4>1, <2>2, RanksOfRecords
      <4> QED
        BY <4>2, <2>2, <1>2, <1>7 DEF RanksKept
    <3> QED
      BY <3>1, <3>2 DEF RanksKept
  <2> QED
    BY <1>3, <2>1, <2>2
<1>13. PageInv'
  <2> SUFFICES ASSUME reader.sound
               PROVE  /\ reader.window = DateWindow(reader.db, Normalized(reader.ask.dates))
                      /\ reader.window.ids # {}
                      /\ rk = IF reader.source.ids = {} THEN None
                              ELSE FavoriteRanks(reader.db, reader.source)
    BY <1>4, <1>5 DEF PageInv, RanksOfSnapshot
  <2>1. /\ reader.window = DateWindow(reader.db, Normalized(reader.ask.dates))
        /\ reader.window.ids # {} /\ reader.source.ids # {}
    BY <1>1 DEF PageInv
  <2>2. writer = Idle /\ reader.missed = {} /\ ~stale.ranks
    BY <1>1 DEF CacheInv, SoundIsUndisturbed, NothingStale
  <2>3. reader.db = db
    BY <2>2, <1>1, NothingMissed
  <2>4. ranks = None \/ ranks = FavoriteRanks(db, ranks.source)
    BY <2>2 DEF CacheInv, RanksKept, AtWork, Idle
  <2>5. rk = FavoriteRanks(reader.db, reader.source)
    BY <2>3, <2>4, <1>3
  <2> QED
    BY <2>1, <2>5
<1> QED
  BY <1>8, <1>9, <1>10, <1>11, <1>12, <1>13 DEF CacheInv

\* What a page reads of a cache, looked up or filled, and what its fill makes stale.
LEMMA PageFills ==
  ASSUME CacheInv, Page
  PROVE  /\ reader.pc = "page" /\ Underway
         /\ UNCHANGED <<db, source, records, ranks, writer>>
         /\ head' = IF ReadsHead(reader) THEN SortHead(reader.db, head) ELSE head
         /\ keys' = IF ReadsKeys(reader) THEN DenseKeys(reader.db, keys) ELSE keys
         /\ stale' \in [records : SUBSET Post, head : BOOLEAN, keys : SUBSET Post, ranks : BOOLEAN]
         /\ stale'.records = stale.records /\ stale'.ranks = stale.ranks
         /\ stale'.head = IF head' = head THEN stale.head ELSE reader.missed # {}
         /\ stale'.keys = IF keys' = keys THEN stale.keys ELSE reader.missed
<1>1. reader.pc = "page" /\ Underway /\ UNCHANGED <<db, source, records, ranks, writer>>
  BY DEF Page, Underway
<1>2. /\ head' = IF ReadsHead(reader) THEN SortHead(reader.db, head) ELSE head
      /\ keys' = IF ReadsKeys(reader) THEN DenseKeys(reader.db, keys) ELSE keys
      /\ stale' = [stale EXCEPT !.head = IF head' = head THEN @ ELSE reader.missed # {},
                                !.keys = IF keys' = keys THEN @ ELSE reader.missed]
  BY Zenon DEF Page, ReadsHead, ReadsKeys
<1>3. stale \in [records : SUBSET Post, head : BOOLEAN, keys : SUBSET Post, ranks : BOOLEAN]
  BY DEF CacheInv, Types
<1>4. reader.missed \subseteq Post
  BY <1>1 DEF CacheInv, ReaderType
<1>5. PICK h, k : h = head' /\ k = keys'
  OBVIOUS
<1>6. stale' = [stale EXCEPT !.head = IF h = head THEN @ ELSE reader.missed # {},
                             !.keys = IF k = keys THEN @ ELSE reader.missed]
  BY <1>2, <1>5
<1>7. /\ stale' \in [records : SUBSET Post, head : BOOLEAN, keys : SUBSET Post, ranks : BOOLEAN]
      /\ stale'.records = stale.records /\ stale'.ranks = stale.ranks
      /\ stale'.head = IF h = head THEN stale.head ELSE reader.missed # {}
      /\ stale'.keys = IF k = keys THEN stale.keys ELSE reader.missed
  BY <1>3, <1>4, <1>6
<1> QED
  BY <1>1, <1>2, <1>5, <1>7

\* What becomes of the search itself.
LEMMA PageAnswers ==
  ASSUME CacheInv, Page
  PROVE  /\ DOMAIN reader' = ReaderFields
         /\ reader'.pc = IF reader'.ids = <<>> THEN "answered" ELSE "hydrate"
         /\ \A f \in ReaderFields \ {"pc", "ids", "count", "tail"} : reader'[f] = reader[f]
         /\ reader'.ids = PageIds(reader.db, head', keys', reader.ranks, reader.ask,
                                  Candidate(reader), reader.window)
         /\ reader'.count = CandidateCount(reader.db, Candidate(reader), reader.window)
<1> DEFINE ids == PageIds(reader.db, head', keys', reader.ranks, reader.ask,
                          Candidate(reader), reader.window)
           count == CandidateCount(reader.db, Candidate(reader), reader.window)
<1>1. reader' = Answer(reader, ids, count)
  BY Zenon DEF Page
<1>2. DOMAIN reader = ReaderFields
  BY DEF Page, CacheInv, ReaderType, Underway
<1> HIDE DEF ids, count
<1>3. PICK i, c : i = ids /\ c = count
  OBVIOUS
<1>4. PICK t : reader' = [reader EXCEPT !.pc = IF i = <<>> THEN "answered" ELSE "hydrate",
                                        !.ids = i, !.count = c, !.tail = t]
  BY <1>1, <1>3 DEF Answer
<1>5. /\ DOMAIN reader' = ReaderFields
      /\ reader'.pc = (IF i = <<>> THEN "answered" ELSE "hydrate")
      /\ reader'.ids = i /\ reader'.count = c
      /\ \A f \in ReaderFields \ {"pc", "ids", "count", "tail"} : reader'[f] = reader[f]
  BY <1>2, <1>4 DEF ReaderFields
<1> QED
  BY <1>3, <1>5 DEF ids, count

\* What a search reads depends on what it asked, its window, its snapshot and its ranks.
LEMMA SameReads ==
  ASSUME NEW r, NEW s, r.ask = s.ask, r.window = s.window, r.db = s.db, r.ranks = s.ranks
  PROVE  /\ Candidate(r) = Candidate(s)
         /\ ReadsHead(r) = ReadsHead(s) /\ ReadsKeys(r) = ReadsKeys(s)
<1>1. Candidate(r) = Candidate(s)
  BY Zenon DEF Candidate
<1>2. Rest(r) = Rest(s)
  BY <1>1, Zenon DEF Rest
<1>3. FilledByFavorites(r) = FilledByFavorites(s)
  BY <1>1, Zenon DEF FilledByFavorites
<1> QED
  BY <1>1, <1>2, <1>3, Zenon DEF ReadsHead, ReadsKeys

\* A fill puts the snapshot's own head and keys, wrong only if the search missed a post.
LEMMA PageKeeps ==
  ASSUME CacheInv, PageInv, Page
  PROVE  CacheInv' /\ PageInv'
<1>1. /\ reader.pc = "page" /\ Underway
      /\ UNCHANGED <<db, source, records, ranks, writer>>
      /\ stale' \in [records : SUBSET Post, head : BOOLEAN, keys : SUBSET Post, ranks : BOOLEAN]
      /\ stale'.records = stale.records /\ stale'.ranks = stale.ranks
  BY PageFills
<1>2. head' = head \/ (head = None /\ head' = LaneHead(reader.db)
                       /\ stale'.head = (reader.missed # {}))
  BY PageFills DEF SortHead
<1>3. keys' = keys \/ (keys = None /\ keys' = SortKeys(reader.db) /\ stale'.keys = reader.missed)
  BY PageFills DEF DenseKeys
<1>4. /\ DOMAIN reader' = ReaderFields /\ reader'.pc \in {"hydrate", "answered"}
      /\ reader'.db = reader.db /\ reader'.source = reader.source
      /\ reader'.missed = reader.missed /\ reader'.sound = reader.sound
      /\ reader'.ask = reader.ask /\ reader'.window = reader.window
      /\ reader'.ranks = reader.ranks
  BY PageAnswers DEF ReaderFields
<1>5. /\ SortKeys(reader.db) = [p \in Post |-> SortKeys(reader.db)[p]]
      /\ \A p \in Post \ reader.missed : SortKeys(reader.db)[p] = SortKeys(db)[p]
  <2>1. DOMAIN reader.db = Post /\ DOMAIN db = Post
        /\ \A p \in Post \ reader.missed : reader.db[p] = db[p]
    BY <1>1 DEF CacheInv, Types, ReaderType, SnapshotOfMissed
  <2> QED
    BY <2>1, KeyOfRecord
<1>6. Types'
  BY <1>1, <1>3, <1>5 DEF CacheInv, Types
<1>7. ReaderType' /\ WriterType' /\ SnapshotOfMissed'
  BY <1>1, <1>4 DEF CacheInv, ReaderType, WriterType, SnapshotOfMissed, Underway
<1>8. SoundIsUndisturbed'
  <2> SUFFICES ASSUME reader.sound
               PROVE  writer' = Idle /\ reader'.missed = {} /\ stale' = NothingStale
    BY <1>4 DEF SoundIsUndisturbed
  <2>1. writer = Idle /\ reader.missed = {} /\ stale = NothingStale
    BY <1>1 DEF CacheInv, SoundIsUndisturbed
  <2>2. ~stale'.head /\ stale'.keys = {}
    BY <2>1, PageFills DEF NothingStale
  <2>3. stale'.records = {} /\ ~stale'.ranks
    BY <2>1, <1>1 DEF NothingStale
  <2>4. stale' = NothingStale
    BY <2>2, <2>3, <1>1 DEF NothingStale
  <2> QED
    BY <1>1, <1>4, <2>1, <2>4
<1>9. RecordsKept' /\ RanksKept'
  BY <1>1 DEF CacheInv, RecordsKept, RanksKept, AtWork
<1>10. HeadKept'
  <2>1. CASE head' = head
    BY <2>1, <1>1, PageFills DEF CacheInv, HeadKept
  <2>2. CASE head' = LaneHead(reader.db) /\ stale'.head = (reader.missed # {})
    BY <2>2, <1>1, NothingMissed DEF HeadKept
  <2> QED
    BY <1>2, <2>1, <2>2
<1>11. KeysKept'
  <2>1. CASE keys' = keys
    BY <2>1, <1>1, PageFills DEF CacheInv, KeysKept
  <2>2. CASE keys' = SortKeys(reader.db) /\ stale'.keys = reader.missed
    BY <2>2, <1>1, <1>5 DEF KeysKept
  <2> QED
    BY <1>3, <2>1, <2>2
<1>12. PageInv'
  <2> SUFFICES ASSUME reader.sound
               PROVE  /\ reader.window = DateWindow(reader.db, Normalized(reader.ask.dates))
                      /\ PageOfSnapshot(reader')
    BY <1>4 DEF PageInv
  <2>1. /\ reader.window = DateWindow(reader.db, Normalized(reader.ask.dates))
        /\ reader.window.ids # {} /\ RanksOfSnapshot(reader)
    BY <1>1 DEF PageInv
  <2>2. reader.db = db /\ stale = NothingStale /\ writer = Idle
    BY <1>1, NothingMissed DEF CacheInv, SoundIsUndisturbed
  <2>3. ReadsHead(reader) => head' = LaneHead(reader.db)
    BY <2>2, PageFills DEF SortHead, CacheInv, HeadKept, Unranked, Idle, NothingStale
  <2>4. ReadsKeys(reader) => keys' = SortKeys(reader.db)
    <3> SUFFICES ASSUME ReadsKeys(reader), keys # None PROVE keys = SortKeys(db)
      BY <2>2, PageFills DEF DenseKeys
    <3>1. /\ keys = [p \in Post |-> keys[p]]
          /\ \A p \in Post : keys[p] = SortKeys(db)[p]
      BY <2>2 DEF CacheInv, Types, KeysKept, Unkeyed, Idle, NothingStale
    <3>2. SortKeys(db) = [p \in Post |-> SortKeys(db)[p]]
      BY <1>5, <2>2
    <3> QED
      BY <3>1, <3>2, Zenon
  <2>5. RanksOfSnapshot(reader')
    BY <2>1, <1>4 DEF RanksOfSnapshot
  <2>6. /\ Candidate(reader') = Candidate(reader)
        /\ ReadsHead(reader') = ReadsHead(reader) /\ ReadsKeys(reader') = ReadsKeys(reader)
    BY <1>4, SameReads
  <2>7. reader'.count = CandidateCount(reader'.db, Candidate(reader'), reader'.window)
    BY <1>4, <2>6, PageAnswers
  <2>8. reader'.ids = PageIds(reader'.db, head', keys', reader'.ranks, reader'.ask,
                              Candidate(reader'), reader'.window)
    BY <1>4, <2>6, PageAnswers
  <2> QED
    BY <1>4, <2>1, <2>3, <2>4, <2>5, <2>6, <2>7, <2>8 DEF PageOfSnapshot
<1> QED
  BY <1>6, <1>7, <1>8, <1>9, <1>10, <1>11, <1>12 DEF CacheInv

\* A record cached from a snapshot that missed its post is stale, and known to be.
LEMMA HydrateKeeps ==
  ASSUME CacheInv, PageInv, Hydrate
  PROVE  CacheInv' /\ PageInv'
<1>1. reader.pc = "hydrate" /\ Underway
  BY DEF Hydrate, Underway
<1>2. UNCHANGED <<db, source, head, keys, ranks, writer>>
  BY DEF Hydrate
<1>3. PICK p : /\ records' = [records EXCEPT ![p] = IF @ # None THEN @ ELSE reader.db[p]]
               /\ stale' = IF records[p] = None /\ reader.db[p] # None /\ p \in reader.missed
                           THEN [stale EXCEPT !.records = @ \cup {p}] ELSE stale
  BY Zenon DEF Hydrate
<1>4. PICK shown, pc : reader' = [reader EXCEPT !.shown = shown, !.pc = pc]
                       /\ pc \in {"hydrate", "answered"}
  <2>1. reader' = [reader EXCEPT
            !.shown = Append(@, IF records[reader.ids[Len(reader.shown) + 1]] # None
                                THEN records[reader.ids[Len(reader.shown) + 1]]
                                ELSE reader.db[reader.ids[Len(reader.shown) + 1]]),
            !.pc = IF Len(reader.shown) + 1 = Len(reader.ids) THEN "answered" ELSE "hydrate"]
    BY Zenon DEF Hydrate
  <2> QED
    BY <2>1
<1>5. /\ DOMAIN reader' = ReaderFields /\ reader'.pc \in {"hydrate", "answered"}
      /\ \A f \in ReaderFields \ {"pc", "shown"} : reader'[f] = reader[f]
  BY <1>1, <1>4 DEF CacheInv, ReaderType, ReaderFields
<1>6. /\ reader'.db = reader.db /\ reader'.source = reader.source
      /\ reader'.missed = reader.missed /\ reader'.sound = reader.sound
      /\ reader'.ask = reader.ask /\ reader'.window = reader.window
      /\ reader'.ranks = reader.ranks /\ reader'.ids = reader.ids /\ reader'.count = reader.count
  BY <1>5 DEF ReaderFields
<1>7. /\ stale' \in [records : SUBSET Post, head : BOOLEAN, keys : SUBSET Post, ranks : BOOLEAN]
      /\ stale'.head = stale.head /\ stale'.keys = stale.keys /\ stale'.ranks = stale.ranks
      /\ stale'.records = IF records[p] = None /\ reader.db[p] # None /\ p \in reader.missed
                          THEN stale.records \cup {p} ELSE stale.records
  BY <1>1, <1>3 DEF CacheInv, Types, ReaderType
<1>8. DOMAIN records' = Post
      /\ \A q \in Post : records'[q] = IF q = p /\ records[q] = None THEN reader.db[q] ELSE records[q]
  BY <1>3 DEF CacheInv, Types
<1>9. Types'
  BY <1>2, <1>7, <1>8 DEF CacheInv, Types
<1>10. ReaderType' /\ WriterType' /\ SnapshotOfMissed'
  BY <1>1, <1>2, <1>5, <1>6 DEF CacheInv, ReaderType, WriterType, SnapshotOfMissed, Underway
<1>11. SoundIsUndisturbed'
  <2> SUFFICES ASSUME reader.sound
               PROVE  writer' = Idle /\ reader'.missed = {} /\ stale' = NothingStale
    BY <1>6 DEF SoundIsUndisturbed
  <2>1. writer = Idle /\ reader.missed = {} /\ stale = NothingStale
    BY <1>1 DEF CacheInv, SoundIsUndisturbed
  <2> QED
    BY <1>2, <1>3, <1>6, <2>1
<1>12. RecordsKept'
  <2> SUFFICES ASSUME NEW q \in Post \ stale'.records, ~(writer.pc = "records" /\ writer.post = q)
               PROVE  records'[q] \in {None, db[q]}
    BY <1>2 DEF RecordsKept
  <2>1. records[q] \in {None, db[q]}
    BY <1>7 DEF CacheInv, RecordsKept
  <2>2. CASE q = p /\ records[q] = None /\ q \notin reader.missed
    BY <2>2, <1>1, <1>8 DEF CacheInv, SnapshotOfMissed
  <2>3. CASE q = p /\ records[q] = None /\ q \in reader.missed
    BY <2>3, <1>7, <1>8
  <2>4. CASE ~(q = p /\ records[q] = None)
    BY <2>1, <2>4, <1>8
  <2> QED
    BY <2>2, <2>3, <2>4
<1>13. HeadKept' /\ KeysKept' /\ RanksKept'
  BY <1>2, <1>7 DEF CacheInv, HeadKept, KeysKept, RanksKept, AtWork
<1>14. PageInv'
  <2> SUFFICES ASSUME reader.sound
               PROVE  /\ reader.window = DateWindow(reader.db, Normalized(reader.ask.dates))
                      /\ PageOfSnapshot(reader')
    BY <1>5, <1>6 DEF PageInv
  <2>1. /\ reader.window = DateWindow(reader.db, Normalized(reader.ask.dates))
        /\ PageOfSnapshot(reader)
    BY <1>1 DEF PageInv
  <2>2. /\ Candidate(reader') = Candidate(reader)
        /\ ReadsHead(reader') = ReadsHead(reader) /\ ReadsKeys(reader') = ReadsKeys(reader)
    BY <1>6, SameReads
  <2>3. RanksOfSnapshot(reader') = RanksOfSnapshot(reader)
    BY <1>6 DEF RanksOfSnapshot
  <2>4. PageOfSnapshot(reader')
    <3>1. CASE reader.window.ids = {}
      BY <3>1, <2>1, <1>6 DEF PageOfSnapshot
    <3>2. CASE reader.window.ids # {}
      <4>1. PICK hd, ks : /\ ReadsHead(reader) => hd = LaneHead(reader.db)
                          /\ ReadsKeys(reader) => ks = SortKeys(reader.db)
                          /\ reader.ids = PageIds(reader.db, hd, ks, reader.ranks, reader.ask,
                                                  Candidate(reader), reader.window)
        BY <3>2, <2>1 DEF PageOfSnapshot
      <4>2. /\ RanksOfSnapshot(reader)
            /\ reader.count = CandidateCount(reader.db, Candidate(reader), reader.window)
        BY <3>2, <2>1 DEF PageOfSnapshot
      <4> QED
        BY <4>1, <4>2, <3>2, <2>2, <2>3, <1>6 DEF PageOfSnapshot
    <3> QED
      BY <3>1, <3>2
  <2> QED
    BY <2>1, <2>4
<1> QED
  BY <1>9, <1>10, <1>11, <1>12, <1>13, <1>14 DEF CacheInv

-----------------------------------------------------------------------------
(* The steps of an absorb                                                  *)

\* A commit overtakes the search under way, and forgets one already answered.
LEMMA AbsorbKeeps ==
  ASSUME ReadCachesAssumption, CacheInv, PageInv,
         NEW p \in Absorbed, NEW record \in Record \cup {None}, Absorb(p, record)
  PROVE  CacheInv' /\ PageInv'
<1>1. /\ p \in Post /\ writer = Idle
      /\ UNCHANGED <<source, records, head, keys, ranks>>
      /\ db' = [db EXCEPT ![p] = record]
  BY DEF Absorb, ReadCachesAssumption
<1>2. \/ writer' = [pc |-> "records", post |-> p, record |-> record] /\ UNCHANGED stale
      \/ /\ writer' = writer
         /\ stale' = [records |-> stale.records \cup {q \in {p} : records[q] # None},
                      head |-> stale.head \/ head # None,
                      keys |-> stale.keys \cup {q \in {p} : keys # None},
                      ranks |-> stale.ranks \/ (ranks # None /\ p \in ranks.source.ids)]
  BY DEF Absorb
<1>3. /\ db' \in [Post -> Record \cup {None}] /\ db'[p] = record
      /\ \A q \in Post \ {p} : db'[q] = db[q]
  BY <1>1 DEF CacheInv, Types
<1>4. /\ \A q \in Post \ {p} : SortKeys(db')[q] = SortKeys(db)[q]
  <2>1. DOMAIN db' = Post /\ DOMAIN db = Post
    BY <1>3 DEF CacheInv, Types
  <2> QED
    BY <2>1, <1>3, KeyOfRecord
<1>5. Types' /\ WriterType'
  <2>1. stale' \in [records : SUBSET Post, head : BOOLEAN, keys : SUBSET Post, ranks : BOOLEAN]
    <3>1. /\ {q \in {p} : records[q] # None} \subseteq Post
          /\ {q \in {p} : keys # None} \subseteq Post
      BY <1>1
    <3>2. /\ stale \in [records : SUBSET Post, head : BOOLEAN, keys : SUBSET Post, ranks : BOOLEAN]
          /\ stale.records \subseteq Post /\ stale.keys \subseteq Post
      BY DEF CacheInv, Types
    <3>3. /\ (stale.head \/ head # None) \in BOOLEAN
          /\ (stale.ranks \/ (ranks # None /\ p \in ranks.source.ids)) \in BOOLEAN
      BY Zenon
    <3>4. /\ stale.records \cup {q \in {p} : records[q] # None} \subseteq Post
          /\ stale.keys \cup {q \in {p} : keys # None} \subseteq Post
      BY <3>1, <3>2
    <3> DEFINE rs == stale.records \cup {q \in {p} : records[q] # None}
               hd == stale.head \/ head # None
               ks == stale.keys \cup {q \in {p} : keys # None}
               rk == stale.ranks \/ (ranks # None /\ p \in ranks.source.ids)
    <3>5. stale' = stale \/ stale' = [records |-> rs, head |-> hd, keys |-> ks, ranks |-> rk]
      BY <1>2, Zenon
    <3>6. rs \in SUBSET Post /\ hd \in BOOLEAN /\ ks \in SUBSET Post /\ rk \in BOOLEAN
      BY <3>3, <3>4, Zenon
    <3> HIDE DEF rs, hd, ks, rk
    <3> QED
      BY <3>2, <3>5, <3>6
  <2>2. WriterType'
    BY <1>1, <1>2, <1>3 DEF WriterType, Idle
  <2>3. Types'
    BY <1>1, <1>3, <2>1 DEF CacheInv, Types
  <2> QED
    BY <2>2, <2>3
<1>6. \/ reader' = Idle
      \/ /\ Underway /\ DOMAIN reader' = ReaderFields
         /\ reader'.pc = reader.pc /\ reader'.db = reader.db /\ reader'.source = reader.source
         /\ reader'.missed = reader.missed \cup {p} /\ reader'.sound = FALSE
  <2>1. CASE reader.pc \in {"idle", "answered"}
    BY <2>1 DEF Absorb, Overtake
  <2>2. CASE reader.pc \notin {"idle", "answered"}
    <3>1. Underway /\ DOMAIN reader = ReaderFields
      BY <2>2 DEF Underway, CacheInv, ReaderType
    <3>2. reader' = [reader EXCEPT !.missed = @ \cup {p}, !.alone = FALSE, !.sound = FALSE]
      BY <2>2 DEF Absorb, Overtake
    <3> QED
      BY <3>1, <3>2 DEF ReaderFields
  <2> QED
    BY <2>1, <2>2
<1>7. /\ ReaderType' /\ SnapshotOfMissed' /\ SoundIsUndisturbed' /\ PageInv'
  <2>1. CASE reader' = Idle
    BY <2>1 DEF ReaderType, SnapshotOfMissed, SoundIsUndisturbed, PageInv, Underway, Idle
  <2>2. CASE /\ Underway /\ DOMAIN reader' = ReaderFields
             /\ reader'.pc = reader.pc /\ reader'.db = reader.db /\ reader'.source = reader.source
             /\ reader'.missed = reader.missed \cup {p} /\ reader'.sound = FALSE
    <3>1. ReaderType'
      BY <2>2, <1>1 DEF CacheInv, ReaderType, Underway
    <3>2. SnapshotOfMissed'
      BY <2>2, <1>3 DEF CacheInv, SnapshotOfMissed
    <3> QED
      BY <2>2, <3>1, <3>2 DEF SoundIsUndisturbed, PageInv
  <2> QED
    BY <1>6, <2>1, <2>2
<1>8. ranks = FavoriteRanks(db, ranks.source) /\ ranks # None /\ p \notin ranks.source.ids
      => ranks = FavoriteRanks(db', ranks.source)
  <2> SUFFICES ASSUME ranks # None, p \notin ranks.source.ids
               PROVE  FavoriteRanks(db, ranks.source) = FavoriteRanks(db', ranks.source)
    OBVIOUS
  <2>1. ranks.source.ids \subseteq Post
    BY DEF CacheInv, Types
  <2>2. PICK e : e = db'
    OBVIOUS
  <2>3. \A q \in ranks.source.ids : db[q] = e[q]
    BY <2>1, <2>2, <1>3
  <2> QED
    BY <2>2, <2>3, RanksOfRecords
<1>9. CASE writer' = [pc |-> "records", post |-> p, record |-> record] /\ UNCHANGED stale
  <2>1. RecordsKept' /\ HeadKept' /\ KeysKept'
    BY <1>1, <1>3, <1>4, <1>9
    DEF CacheInv, RecordsKept, HeadKept, KeysKept, Unranked, Unkeyed, Idle
  <2>2. RanksKept'
    BY <1>1, <1>8, <1>9 DEF CacheInv, RanksKept, AtWork, Idle
  <2> QED
    BY <2>1, <2>2, <1>5, <1>7 DEF CacheInv
<1>10. CASE /\ writer' = writer
            /\ stale' = [records |-> stale.records \cup {q \in {p} : records[q] # None},
                         head |-> stale.head \/ head # None,
                         keys |-> stale.keys \cup {q \in {p} : keys # None},
                         ranks |-> stale.ranks \/ (ranks # None /\ p \in ranks.source.ids)]
  <2>1. RecordsKept'
    BY <1>1, <1>3, <1>10 DEF CacheInv, RecordsKept, Idle
  <2>2. HeadKept'
    BY <1>1, <1>10 DEF CacheInv, HeadKept
  <2>3. KeysKept'
    BY <1>1, <1>4, <1>10 DEF CacheInv, KeysKept, Unkeyed, Idle
  <2>4. RanksKept'
    BY <1>1, <1>8, <1>10 DEF CacheInv, RanksKept, AtWork, Idle
  <2> QED
    BY <2>1, <2>2, <2>3, <2>4, <1>5, <1>7 DEF CacheInv
<1> QED
  BY <1>2, <1>9, <1>10

\* While an absorb is at work no search is sound, and the search is left alone.
LEMMA WriterStep ==
  ASSUME CacheInv, AtWork, UNCHANGED <<db, reader>>
  PROVE  /\ SnapshotOfMissed' /\ SoundIsUndisturbed' /\ ReaderType' /\ PageInv'
         /\ writer # Idle /\ writer.post \in Post /\ writer.record = db[writer.post]
         /\ DOMAIN writer = {"pc", "post", "record"}
<1>1. /\ writer # Idle /\ writer.post \in Post /\ writer.record = db[writer.post]
      /\ DOMAIN writer = {"pc", "post", "record"}
  BY DEF AtWork, CacheInv, WriterType, Idle
<1>2. Underway => reader.sound = FALSE
  BY <1>1 DEF CacheInv, SoundIsUndisturbed, ReaderType
<1> QED
  BY <1>1, <1>2
  DEF CacheInv, SnapshotOfMissed, SoundIsUndisturbed, ReaderType, PageInv, Underway

\* Evicting the record of the post absorbed.
LEMMA EvictRecordsKeeps ==
  ASSUME CacheInv, EvictRecords
  PROVE  CacheInv' /\ PageInv'
<1>1. AtWork /\ writer.pc = "records"
      /\ UNCHANGED <<db, source, head, keys, ranks, reader>>
  BY DEF EvictRecords, AtWork
<1>2. /\ SnapshotOfMissed' /\ SoundIsUndisturbed' /\ ReaderType' /\ PageInv'
      /\ writer.post \in Post /\ writer.record = db[writer.post]
      /\ DOMAIN writer = {"pc", "post", "record"}
  BY <1>1, WriterStep
<1>3. /\ DOMAIN writer' = {"pc", "post", "record"} /\ writer'.pc = "heads"
      /\ writer'.post = writer.post /\ writer'.record = writer.record
  BY <1>2 DEF EvictRecords
<1>4. /\ DOMAIN records' = Post /\ records'[writer.post] = None
      /\ \A q \in Post \ {writer.post} : records'[q] = records[q]
  BY <1>2 DEF EvictRecords, CacheInv, Types
<1>5. /\ stale' \in [records : SUBSET Post, head : BOOLEAN, keys : SUBSET Post, ranks : BOOLEAN]
      /\ stale'.records = stale.records \ {writer.post}
      /\ stale'.head = stale.head /\ stale'.keys = stale.keys /\ stale'.ranks = stale.ranks
  BY DEF EvictRecords, CacheInv, Types
<1>6. Types' /\ WriterType'
  BY <1>1, <1>2, <1>3, <1>4, <1>5 DEF CacheInv, Types, WriterType
<1>7. RecordsKept'
  BY <1>1, <1>4, <1>5 DEF CacheInv, RecordsKept
<1>8. HeadKept' /\ KeysKept' /\ RanksKept'
  BY <1>1, <1>3, <1>5
  DEF CacheInv, HeadKept, KeysKept, RanksKept, Unranked, Unkeyed, AtWork
<1> QED
  BY <1>2, <1>6, <1>7, <1>8 DEF CacheInv

\* Clearing the heads.
LEMMA ClearSortHeadsKeeps ==
  ASSUME CacheInv, ClearSortHeads
  PROVE  CacheInv' /\ PageInv'
<1>1. AtWork /\ writer.pc = "heads"
      /\ UNCHANGED <<db, source, records, keys, ranks, reader>> /\ head' = None
  BY DEF ClearSortHeads, AtWork
<1>2. /\ SnapshotOfMissed' /\ SoundIsUndisturbed' /\ ReaderType' /\ PageInv'
      /\ writer.post \in Post /\ writer.record = db[writer.post]
      /\ DOMAIN writer = {"pc", "post", "record"}
  BY <1>1, WriterStep
<1>3. /\ DOMAIN writer' = {"pc", "post", "record"} /\ writer'.pc = "keys"
      /\ writer'.post = writer.post /\ writer'.record = writer.record
  BY <1>2 DEF ClearSortHeads
<1>4. /\ stale' \in [records : SUBSET Post, head : BOOLEAN, keys : SUBSET Post, ranks : BOOLEAN]
      /\ stale'.records = stale.records
      /\ stale'.keys = stale.keys /\ stale'.ranks = stale.ranks
  BY DEF ClearSortHeads, CacheInv, Types
<1>5. Types' /\ WriterType'
  BY <1>1, <1>2, <1>3, <1>4 DEF CacheInv, Types, WriterType
<1>6. RecordsKept' /\ HeadKept' /\ KeysKept' /\ RanksKept'
  BY <1>1, <1>3, <1>4
  DEF CacheInv, RecordsKept, HeadKept, KeysKept, RanksKept, Unkeyed, AtWork
<1> QED
  BY <1>2, <1>5, <1>6 DEF CacheInv

\* Patching the key of the post absorbed.
LEMMA RefreshSortKeysKeeps ==
  ASSUME CacheInv, RefreshSortKeys
  PROVE  CacheInv' /\ PageInv'
<1>1. AtWork /\ writer.pc = "keys"
      /\ UNCHANGED <<db, source, records, head, ranks, reader>>
  BY DEF RefreshSortKeys, AtWork
<1>2. /\ SnapshotOfMissed' /\ SoundIsUndisturbed' /\ ReaderType' /\ PageInv'
      /\ writer.post \in Post /\ writer.record = db[writer.post]
      /\ DOMAIN writer = {"pc", "post", "record"}
  BY <1>1, WriterStep
<1>3. /\ DOMAIN writer' = {"pc", "post", "record"} /\ writer'.pc = "ranks"
      /\ writer'.post = writer.post /\ writer'.record = writer.record
  BY <1>2 DEF RefreshSortKeys
<1>4. /\ stale' \in [records : SUBSET Post, head : BOOLEAN, keys : SUBSET Post, ranks : BOOLEAN]
      /\ stale'.keys = stale.keys \ {writer.post}
      /\ stale'.records = stale.records /\ stale'.head = stale.head /\ stale'.ranks = stale.ranks
  BY DEF RefreshSortKeys, CacheInv, Types
<1>5. SortKeys(db)[writer.post] = IF writer.record = None THEN None ELSE writer.record.score
  <2>1. writer.post \in DOMAIN db
    BY <1>2 DEF CacheInv, Types
  <2> QED
    BY <2>1, <1>2, KeyOfRecord
<1>6. \/ keys' = None
      \/ /\ keys # None
         /\ keys' = [keys EXCEPT ![writer.post] = SortKeys(db)[writer.post]]
  BY <1>5 DEF RefreshSortKeys, SetSortKey
<1>7. keys # None => keys = [q \in Post |-> keys[q]]
  BY DEF CacheInv, Types
<1>8. keys' # None => /\ keys' = [q \in Post |-> keys'[q]]
                      /\ keys'[writer.post] = SortKeys(db)[writer.post]
                      /\ \A q \in Post \ {writer.post} : keys'[q] = keys[q]
  BY <1>2, <1>6, <1>7
<1>9. Types' /\ WriterType'
  BY <1>1, <1>2, <1>3, <1>4, <1>8 DEF CacheInv, Types, WriterType
<1>10. KeysKept'
  BY <1>1, <1>4, <1>6, <1>8 DEF CacheInv, KeysKept
<1>11. RecordsKept' /\ HeadKept' /\ RanksKept'
  BY <1>1, <1>3, <1>4 DEF CacheInv, RecordsKept, HeadKept, RanksKept, Unranked, AtWork
<1> QED
  BY <1>2, <1>9, <1>10, <1>11 DEF CacheInv

\* Dropping ranks that hold the post absorbed.
LEMMA InvalidateFavoriteRanksKeeps ==
  ASSUME CacheInv, InvalidateFavoriteRanks
  PROVE  CacheInv' /\ PageInv'
<1>1. AtWork /\ writer.pc = "ranks" /\ writer' = Idle
      /\ UNCHANGED <<db, source, records, head, keys, reader>>
  BY DEF InvalidateFavoriteRanks, AtWork
<1>2. SnapshotOfMissed' /\ SoundIsUndisturbed' /\ ReaderType' /\ PageInv'
  BY <1>1, WriterStep
<1> DEFINE drops == ranks # None /\ writer.post \in ranks.source.ids
<1>3. /\ ranks' = IF drops THEN None ELSE ranks
      /\ stale' = [stale EXCEPT !.ranks = @ /\ ~drops]
  BY Zenon DEF InvalidateFavoriteRanks
<1>4. drops \in BOOLEAN
  OBVIOUS
<1>5. /\ drops => ranks' = None
      /\ ~drops => ranks' = ranks /\ (ranks = None \/ writer.post \notin ranks.source.ids)
  BY <1>3
<1> HIDE DEF drops
<1>6. /\ stale' \in [records : SUBSET Post, head : BOOLEAN, keys : SUBSET Post, ranks : BOOLEAN]
      /\ stale'.records = stale.records /\ stale'.head = stale.head /\ stale'.keys = stale.keys
      /\ ~drops => stale'.ranks = stale.ranks
  <2>1. stale \in [records : SUBSET Post, head : BOOLEAN, keys : SUBSET Post, ranks : BOOLEAN]
    BY DEF CacheInv, Types
  <2>2. CASE drops
    BY <1>3, <2>1, <2>2
  <2>3. CASE ~drops
    BY <1>3, <2>1, <2>3
  <2> QED
    BY <2>2, <2>3
<1>7. Types' /\ WriterType'
  BY <1>1, <1>5, <1>6 DEF CacheInv, Types, WriterType
<1>8. RecordsKept' /\ HeadKept' /\ KeysKept'
  BY <1>1, <1>6 DEF CacheInv, RecordsKept, HeadKept, KeysKept, Unranked, Unkeyed
<1>9. RanksKept'
  BY <1>1, <1>5, <1>6 DEF CacheInv, RanksKept
<1> QED
  BY <1>2, <1>7, <1>8, <1>9 DEF CacheInv

\* A stutter.
LEMMA StutterKeepsCaches ==
  ASSUME CacheInv, PageInv, UNCHANGED vars
  PROVE  CacheInv' /\ PageInv'
<1>1. UNCHANGED <<db, source, records, head, keys, ranks, writer, reader, stale>>
  BY DEF vars
<1> QED
  BY <1>1
  DEF CacheInv, PageInv, Types, ReaderType, WriterType, SnapshotOfMissed, SoundIsUndisturbed,
      RecordsKept, HeadKept, KeysKept, RanksKept, Underway, AtWork

\* Every step keeps the caches and the page in step with the records.
LEMMA CacheStep ==
  ASSUME ReadCachesAssumption, CacheInv, PageInv, [Next]_vars
  PROVE  CacheInv' /\ PageInv'
<1>1. CASE \E ask \in Askable, ids \in Favorites : Begin(ask, Toggled(ids))
  BY <1>1, BeginKeeps
<1>2. CASE Rank
  BY <1>2, RankKeeps
<1>3. CASE Page
  BY <1>3, PageKeeps
<1>4. CASE Hydrate
  BY <1>4, HydrateKeeps
<1>5. CASE \E p \in Absorbed, record \in Record \cup {None} : Absorb(p, record)
  BY <1>5, AbsorbKeeps
<1>6. CASE EvictRecords
  BY <1>6, EvictRecordsKeeps
<1>7. CASE ClearSortHeads
  BY <1>7, ClearSortHeadsKeeps
<1>8. CASE RefreshSortKeys
  BY <1>8, RefreshSortKeysKeeps
<1>9. CASE InvalidateFavoriteRanks
  BY <1>9, InvalidateFavoriteRanksKeeps
<1>10. CASE UNCHANGED vars
  BY <1>10, StutterKeepsCaches
<1> QED
  BY <1>1, <1>2, <1>3, <1>4, <1>5, <1>6, <1>7, <1>8, <1>9, <1>10 DEF Next

-----------------------------------------------------------------------------
(* The shape of caches and pages, at every time                            *)

\* Ranks as a cache may hold them, of whichever states of the records and favourites.
RanksShaped(held) ==
    held = None \/ (held.available \in SUBSET Post /\ Apart(held.score, Post))

\* A page of at most as many as are asked for, of posts the candidate and the window let in,
\* with no post twice, and no family twice when they are grouped.
PageShaped(r) ==
    LET within == Accepted(Candidate(r), r.window) IN
    /\ Len(r.ids) <= r.ask.limit
    /\ IF r.ask.grouped THEN FamiliesApart(r.ids, within) ELSE Apart(r.ids, within)

\* A page that is hydrated as far as it shows: of each post the record of the snapshot.
HydratedSoFar(r) ==
    \E n \in 0 .. Len(r.ids) :
        r.shown = [i \in 1 .. n |-> r.db[r.ids[i]]] /\ (r.pc = "answered" <=> n = Len(r.ids))

\* What holds of the caches and of a page at every time, fresh or stale.
ShapeInv ==
    /\ source \in Given
    /\ head = None \/ Apart(head, Post)
    /\ keys = None \/ KeysShaped(keys)
    /\ RanksShaped(ranks)
    /\ Underway => /\ reader.ask \in Asks /\ reader.source \in Given /\ RanksShaped(reader.ranks)
                   /\ reader.pc \in {"hydrate", "answered"} => PageShaped(reader)

\* What an undisturbed search shows: nothing yet, then the records of its page one by one.
ShownInv ==
    Underway /\ reader.sound =>
        /\ reader.pc \in {"rank", "page"} => reader.shown = <<>>
        /\ reader.pc \in {"hydrate", "answered"} => HydratedSoFar(reader)

\* Caches made of a snapshot are shaped as a cache is.
LEMMA CachesMade ==
  ASSUME NEW d \in Snapshots
  PROVE  /\ Apart(LaneHead(d), Post) /\ KeysShaped(SortKeys(d))
         /\ \A given \in Given : RanksShaped(FavoriteRanks(d, given))
<1> DEFINE L == Lane(d)
           Q == SortOrder("score", SortKeys(d))
<1>1. Lists(L, Live(d), Q) /\ StrictOrder(Q, Live(d))
  BY LaneLists
<1>2. Live(d) \in SUBSET Post
  BY KeysOfLive
<1> HIDE DEF Q, L
<1>3. Apart(L, Live(d))
  BY <1>1, ListsApart
<1>4. Apart(L, Post)
  BY <1>2, <1>3, ApartWiden
<1>5. Apart(Take(L, HeadCap), Post)
  BY <1>4, TakeApart, PagesAssumption
<1>6. Apart(LaneHead(d), Post)
  BY <1>5 DEF LaneHead, L
<1>7. KeysShaped(SortKeys(d))
  <2>1. \A p \in Post : SortKeys(d)[p] # None => SortKeys(d)[p] \in Int
    BY KeysOfLive
  <2> QED
    BY <2>1 DEF KeysShaped
<1>8. ASSUME NEW given \in Given PROVE RanksShaped(FavoriteRanks(d, given))
  <2> DEFINE held == FavoriteRanks(d, given)
             A == given.ids \cap Live(d)
             R == SortOrder("score", SortKeys(d))
  <2>1. held.available = A /\ Lists(FavoriteOrder(held, "score"), A, R)
    BY FavoriteOrderLists
  <2>2. FavoriteOrder(held, "score") = held.score
    BY DEF FavoriteOrder
  <2>3. A \in SUBSET Post /\ A \in SUBSET Live(d)
    BY <1>2
  <2>4. StrictOrder(R, Live(d))
    BY <1>1 DEF Q
  <2> HIDE DEF held, A, R
  <2>5. StrictOrder(R, A)
    BY <2>3, <2>4, OrderOfPart
  <2>6. Apart(held.score, A)
    BY <2>1, <2>2, <2>5, ListsApart
  <2>7. Apart(held.score, Post)
    BY <2>3, <2>6, ApartWiden
  <2>8. RanksShaped(held)
    BY <2>1, <2>3, <2>7 DEF RanksShaped
  <2> QED
    BY <2>8 DEF held
<1> QED
  BY <1>6, <1>7, <1>8

\* Shaped ranks list favourites without repeats, in the order of either sort.
LEMMA OrderShaped ==
  ASSUME NEW held, RanksShaped(held), held # None, NEW sort \in {"newest", "score"}
  PROVE  Apart(FavoriteOrder(held, sort), Post)
<1> DEFINE A == held.available
           Q == SortOrder("newest", [p \in Post |-> 0])
<1>1. A \in SUBSET Post /\ Apart(held.score, Post)
  BY DEF RanksShaped
<1> HIDE DEF A, Q
<1>2. Lists(Newest(A), A, Q) /\ StrictOrder(Q, A)
  BY <1>1, NewestLists, SortIsStrict DEF Q
<1>3. Apart(Newest(A), A)
  BY <1>2, ListsApart
<1>4. Apart(Newest(A), Post)
  BY <1>1, <1>3, ApartWiden
<1> QED
  BY <1>1, <1>4 DEF FavoriteOrder, A

\* A candidate is a finite set of ids, or all but one.
LEMMA CandidateForm ==
  ASSUME NEW d, NEW query \in {"all", "tag", "nottag", "favorites"}, NEW available
  PROVE  CandidateSet(d, query, available).form \in {"finite", "cofinite"}
<1>1. CASE query = "all"
  BY <1>1 DEF CandidateSet, Everything, Cofinite
<1>2. CASE query = "tag"
  BY <1>2 DEF CandidateSet, Finite
<1>3. CASE query = "nottag"
  BY <1>3 DEF CandidateSet, Cofinite
<1>4. CASE query = "favorites"
  BY <1>4 DEF CandidateSet, Finite
<1> QED
  BY <1>1, <1>2, <1>3, <1>4

\* Whether a page is shaped depends on what it was made from, and on nothing else.
LEMMA SamePage ==
  ASSUME NEW r, NEW s, r.ask = s.ask, r.window = s.window, r.db = s.db, r.ranks = s.ranks,
         r.ids = s.ids
  PROVE  PageShaped(r) <=> PageShaped(s)
<1>1. Candidate(r) = Candidate(s)
  BY SameReads
<1> QED
  BY <1>1 DEF PageShaped

\* A page made of shaped caches and ranks is shaped.
LEMMA PageIdsShaped ==
  ASSUME NEW r, r.db \in Snapshots, r.ask \in Asks, RanksShaped(r.ranks), NEW hd, NEW ks,
         ReadsHead(r) => Apart(hd, Post), ReadsKeys(r) => KeysShaped(ks),
         r.ids = PageIds(r.db, hd, ks, r.ranks, r.ask, Candidate(r), r.window)
  PROVE  PageShaped(r)
<1> DEFINE d == r.db
           held == r.ranks
           candidate == Candidate(r)
           window == r.window
           sort == r.ask.sort
           limit == r.ask.limit
           rest == IF held = None THEN candidate ELSE Ordinary(candidate, held)
<1>1. /\ d \in Snapshots /\ sort \in {"newest", "score"} /\ limit \in Nat
      /\ candidate.form \in {"finite", "cofinite"}
  BY CandidateForm DEF Asks, Candidate
<1>2. rest = Rest(r)
  BY DEF Rest
<1>3. held # None => Apart(FavoriteOrder(held, sort), Post)
  BY <1>1, OrderShaped
<1>4. CASE r.ask.grouped
  <2> DEFINE filled == FamiliesFill(candidate, held, sort, window, limit)
             ids == FamilyIds(d, hd, ks, candidate, held, sort, window, limit)
  <2>1. filled <=> FilledByFavorites(r)
    BY <1>4 DEF FilledByFavorites, FavoriteFamilies, FamiliesFill
  <2>2. filled \/ CachesShaped(rest, sort, hd, ks)
    BY <1>2, <2>1 DEF ReadsHead, ReadsKeys, CachesShaped
  <2>3. rest = IF held = None THEN candidate ELSE Ordinary(candidate, held)
    OBVIOUS
  <2>4. r.ids = ids
    BY <1>4 DEF PageIds
  <2> HIDE DEF rest, d, held, candidate, window, sort, limit
  <2>5. FamilyPageOf(ids, Accepted(candidate, window), limit)
    BY ONLY SMTT(30), <1>1, <1>3, <2>2, <2>3, FamilyIdsApart
  <2> QED
    BY <1>4, <2>4, <2>5 DEF PageShaped, PageOf, FamilyPageOf, candidate, window, limit
<1>5. CASE ~r.ask.grouped
  <2> DEFINE filled == FavoritesFill(candidate, held, sort, window, limit)
             ids == FavoriteOrderedIds(d, hd, ks, candidate, held, sort, window, limit)
  <2>1. filled <=> FilledByFavorites(r)
    BY <1>5 DEF FilledByFavorites, FavoritesFill
  <2>2. filled \/ CachesShaped(rest, sort, hd, ks)
    BY <1>2, <2>1 DEF ReadsHead, ReadsKeys, CachesShaped
  <2>3. rest = IF held = None THEN candidate ELSE Ordinary(candidate, held)
    OBVIOUS
  <2>4. r.ids = ids
    BY <1>5 DEF PageIds
  <2> HIDE DEF rest, d, held, candidate, window, sort, limit
  <2>5. PageOf(ids, Accepted(candidate, window), limit)
    BY ONLY SMTT(30), <1>1, <1>3, <2>2, <2>3, FavoriteOrderedApart
  <2> QED
    BY <1>5, <2>4, <2>5 DEF PageShaped, PageOf, FamilyPageOf, candidate, window, limit
<1> QED
  BY <1>4, <1>5

\* An empty page is shaped, and nothing of it is left to hydrate.
LEMMA EmptyPage ==
  ASSUME NEW r, r.ids = <<>>, r.shown = <<>>, r.ask \in Asks, r.pc = "answered"
  PROVE  PageShaped(r) /\ HydratedSoFar(r)
<1>1. r.ask.limit \in Nat
  BY DEF Asks
<1>2. PageShaped(r)
  BY <1>1 DEF PageShaped, Apart, FamiliesApart
<1>3. HydratedSoFar(r)
  <2>1. 0 \in 0 .. Len(r.ids) /\ 0 = Len(r.ids)
    OBVIOUS
  <2>2. r.shown = [i \in 1 .. 0 |-> r.db[r.ids[i]]]
    OBVIOUS
  <2> QED
    BY <2>1, <2>2 DEF HydratedSoFar
<1> QED
  BY <1>2, <1>3

\* A search begins with no page, or with an empty one when its window is empty.
LEMMA BeginShapes ==
  ASSUME ReadCachesAssumption, CacheInv, ShapeInv, NEW ask \in Askable, NEW ids \in Favorites,
         Begin(ask, Toggled(ids))
  PROVE  ShapeInv' /\ ShownInv'
<1> DEFINE given == Toggled(ids)
           window == DateWindow(db, Normalized(ask.dates))
<1>1. given \in Given
  <2>1. source \in Given /\ ids \in SUBSET Post
    BY DEF ShapeInv, ReadCachesAssumption
  <2> QED
    BY <2>1 DEF Toggled, Given
<1>2. ask \in Asks
  <2>1. Askable \in SUBSET Ask
    BY DEF Askable, ReadCachesAssumption
  <2> QED
    BY <2>1 DEF ReadCachesAssumption, Asks, Days
<1> HIDE DEF given
<1>3. /\ source' = given /\ UNCHANGED <<head, keys, ranks>>
      /\ reader'.pc = IF window.ids = {} THEN "answered"
                      ELSE IF given.ids = {} THEN "page" ELSE "rank"
      /\ reader'.source = given /\ reader'.ask = ask
      /\ reader'.ranks = None /\ reader'.ids = <<>> /\ reader'.shown = <<>>
  BY BeginReads DEF given
<1> HIDE DEF window
<1>4. reader'.pc \in {"hydrate", "answered"} => reader'.pc = "answered"
  BY <1>3
<1>5. reader'.pc = "answered" => PageShaped(reader') /\ HydratedSoFar(reader')
  BY <1>2, <1>3, EmptyPage
<1>6. ShapeInv'
  BY <1>1, <1>2, <1>3, <1>4, <1>5 DEF ShapeInv, RanksShaped
<1>7. ShownInv'
  BY <1>3, <1>4, <1>5 DEF ShownInv
<1> QED
  BY <1>6, <1>7

\* Ranks, read or made, are shaped.
LEMMA RankShapes ==
  ASSUME CacheInv, ShapeInv, ShownInv, Rank
  PROVE  ShapeInv' /\ ShownInv'
<1>1. reader.pc = "rank" /\ Underway /\ UNCHANGED <<source, head, keys>>
  BY DEF Rank, Underway
<1>2. PICK held : /\ reader' = [reader EXCEPT !.pc = "page", !.ranks = held]
                  /\ \/ held = ranks /\ ranks' = ranks
                     \/ held = FavoriteRanks(reader.db, reader.source) /\ ranks' = held
  BY DEF Rank
<1>3. /\ reader'.pc = "page" /\ reader'.ranks = held
      /\ \A f \in ReaderFields \ {"pc", "ranks"} : reader'[f] = reader[f]
  BY <1>1, <1>2 DEF CacheInv, ReaderType, ReaderFields
<1>4. /\ reader'.source = reader.source /\ reader'.ask = reader.ask
      /\ reader'.sound = reader.sound /\ reader'.shown = reader.shown
  BY <1>3 DEF ReaderFields
<1>5. reader.db \in Snapshots /\ reader.source \in Given /\ reader.ask \in Asks /\ RanksShaped(ranks)
  BY <1>1 DEF CacheInv, ReaderType, ShapeInv, Snapshots
<1>6. RanksShaped(FavoriteRanks(reader.db, reader.source))
  BY <1>5, CachesMade
<1>7. RanksShaped(held) /\ RanksShaped(ranks')
  BY <1>2, <1>5, <1>6
<1>8. ShapeInv'
  BY <1>1, <1>3, <1>4, <1>5, <1>7 DEF ShapeInv
<1>9. ShownInv'
  BY <1>1, <1>3, <1>4 DEF ShownInv
<1> QED
  BY <1>8, <1>9

\* A page made of the caches, or of those it makes, is shaped.
LEMMA PageShapes ==
  ASSUME CacheInv, ShapeInv, ShownInv, Page
  PROVE  ShapeInv' /\ ShownInv'
<1>1. /\ reader.pc = "page" /\ Underway /\ UNCHANGED <<source, ranks>>
      /\ head' = IF ReadsHead(reader) THEN SortHead(reader.db, head) ELSE head
      /\ keys' = IF ReadsKeys(reader) THEN DenseKeys(reader.db, keys) ELSE keys
  BY PageFills
<1>2. /\ reader'.pc = IF reader'.ids = <<>> THEN "answered" ELSE "hydrate"
      /\ reader'.db = reader.db /\ reader'.source = reader.source
      /\ reader'.sound = reader.sound /\ reader'.shown = reader.shown
      /\ reader'.ask = reader.ask /\ reader'.window = reader.window
      /\ reader'.ranks = reader.ranks
      /\ reader'.ids = PageIds(reader.db, head', keys', reader.ranks, reader.ask,
                               Candidate(reader), reader.window)
  BY PageAnswers DEF ReaderFields
<1>3. /\ reader.db \in Snapshots /\ reader.source \in Given /\ reader.ask \in Asks
      /\ RanksShaped(ranks) /\ RanksShaped(reader.ranks) /\ source \in Given
      /\ head = None \/ Apart(head, Post)
      /\ keys = None \/ KeysShaped(keys)
  BY <1>1 DEF CacheInv, ReaderType, ShapeInv, Snapshots
<1>4. Apart(LaneHead(reader.db), Post) /\ KeysShaped(SortKeys(reader.db))
  BY <1>3, CachesMade
<1>5. /\ head' = None \/ Apart(head', Post)
      /\ keys' = None \/ KeysShaped(keys')
      /\ ReadsHead(reader) => Apart(head', Post)
      /\ ReadsKeys(reader) => KeysShaped(keys')
  BY <1>1, <1>3, <1>4 DEF SortHead, DenseKeys
<1>6. /\ Candidate(reader') = Candidate(reader)
      /\ ReadsHead(reader') = ReadsHead(reader) /\ ReadsKeys(reader') = ReadsKeys(reader)
  BY <1>2, SameReads
<1>7. PageShaped(reader')
  <2> DEFINE r == reader'
             hd == head'
             ks == keys'
  <2>1. /\ r.db \in Snapshots /\ r.ask \in Asks /\ RanksShaped(r.ranks)
        /\ ReadsHead(r) => Apart(hd, Post)
        /\ ReadsKeys(r) => KeysShaped(ks)
        /\ r.ids = PageIds(r.db, hd, ks, r.ranks, r.ask, Candidate(r), r.window)
    BY <1>2, <1>3, <1>5, <1>6
  <2> HIDE DEF r, hd, ks
  <2>2. PageShaped(r)
    BY <2>1, PageIdsShaped
  <2> QED
    BY <2>2 DEF r
<1>8. ShapeInv'
  BY <1>1, <1>2, <1>3, <1>5, <1>7 DEF ShapeInv
<1>9. ShownInv'
  <2> SUFFICES ASSUME reader.sound PROVE HydratedSoFar(reader')
    BY <1>2 DEF ShownInv
  <2>1. reader'.shown = <<>>
    BY <1>1, <1>2 DEF ShownInv
  <2>2. Len(reader'.ids) \in Nat /\ (reader'.ids = <<>> <=> Len(reader'.ids) = 0)
    <3>1. \E S : reader'.ids \in Seq(S)
      BY <1>7 DEF PageShaped, Apart, FamiliesApart
    <3> QED
      BY <3>1
  <2>3. reader'.shown = [i \in 1 .. 0 |-> reader'.db[reader'.ids[i]]]
    BY <2>1
  <2>4. 0 \in 0 .. Len(reader'.ids) /\ (reader'.pc = "answered" <=> 0 = Len(reader'.ids))
    BY <1>2, <2>2
  <2> QED
    BY <2>3, <2>4 DEF HydratedSoFar
<1> QED
  BY <1>8, <1>9

\* An undisturbed search shows of each post the record its snapshot has of it.
LEMMA HydrateShapes ==
  ASSUME CacheInv, ShapeInv, ShownInv, Hydrate
  PROVE  ShapeInv' /\ ShownInv'
<1> DEFINE p == reader.ids[Len(reader.shown) + 1]
           shown == Append(reader.shown, IF records[p] # None THEN records[p] ELSE reader.db[p])
           pc == IF Len(reader.shown) + 1 = Len(reader.ids) THEN "answered" ELSE "hydrate"
<1>1. reader.pc = "hydrate" /\ Underway /\ UNCHANGED <<source, head, keys, ranks>>
  BY DEF Hydrate, Underway
<1>2. reader' = [reader EXCEPT !.shown = shown, !.pc = pc]
  <2>1. reader' = [reader EXCEPT
            !.shown = Append(@, IF records[p] # None THEN records[p] ELSE reader.db[p]),
            !.pc = IF Len(reader.shown) + 1 = Len(reader.ids) THEN "answered" ELSE "hydrate"]
    BY Zenon DEF Hydrate
  <2> QED
    BY <2>1
<1>3. pc \in {"hydrate", "answered"}
  OBVIOUS
<1> HIDE DEF p, shown, pc
<1>4. /\ reader'.pc = pc /\ reader'.shown = shown
      /\ \A f \in ReaderFields \ {"pc", "shown"} : reader'[f] = reader[f]
  BY <1>1, <1>2 DEF CacheInv, ReaderType, ReaderFields
<1>5. /\ reader'.db = reader.db /\ reader'.source = reader.source /\ reader'.sound = reader.sound
      /\ reader'.ask = reader.ask /\ reader'.window = reader.window
      /\ reader'.ranks = reader.ranks /\ reader'.ids = reader.ids
  BY <1>4 DEF ReaderFields
<1>6. PageShaped(reader) /\ PageShaped(reader')
  <2>1. PageShaped(reader)
    BY <1>1 DEF ShapeInv
  <2> QED
    BY <2>1, <1>5, SamePage
<1>7. ShapeInv'
  BY <1>1, <1>3, <1>4, <1>5, <1>6 DEF ShapeInv
<1>8. ASSUME reader.sound PROVE HydratedSoFar(reader')
  <2> DEFINE ids == reader.ids
             d == reader.db
  <2>1. PICK n \in 0 .. Len(ids) : /\ reader.shown = [i \in 1 .. n |-> d[ids[i]]]
                                   /\ n # Len(ids)
    BY <1>1, <1>8 DEF ShownInv, HydratedSoFar
  <2>2. ids \in Seq(Post)
    <3>1. Accepted(Candidate(reader), reader.window) \subseteq Post
      BY DEF Accepted
    <3> QED
      BY <1>6, <3>1, SeqWiden DEF PageShaped, Apart, FamiliesApart
  <2> HIDE DEF ids, d
  <2>3. Len(ids) \in Nat /\ n + 1 \in 0 .. Len(ids) /\ n + 1 \in 1 .. Len(ids) /\ n \in Nat
    BY <2>1, <2>2
  <2>4. Len(reader.shown) = n
    BY <2>1, <2>3
  <2>5. p = ids[n + 1] /\ p \in Post
    BY <2>2, <2>3, <2>4 DEF p, ids
  <2>6. writer = Idle /\ stale = NothingStale /\ d = db
    BY <1>1, <1>8, NothingMissed DEF CacheInv, SoundIsUndisturbed, d
  <2>7. records[p] \in {None, d[p]}
    BY <2>5, <2>6 DEF CacheInv, RecordsKept, NothingStale, Idle
  <2>8. shown = Append(reader.shown, d[p])
    BY <2>7 DEF shown, d
  <2>9. shown = [i \in 1 .. n + 1 |-> d[ids[i]]]
    <3> DEFINE s == [i \in 1 .. n |-> d[ids[i]]]
               T == {d[ids[i]] : i \in 1 .. n + 1}
    <3>1. s \in Seq(T) /\ Len(s) = n /\ d[p] \in T
      <4>1. \A i \in 1 .. n : i \in 1 .. n + 1
        BY <2>3
      <4>2. s \in [1 .. n -> T]
        BY <4>1
      <4>3. n + 1 \in 1 .. n + 1
        BY <2>3
      <4>4. d[p] \in T
        BY <2>5, <4>3
      <4>5. s \in Seq(T) /\ Len(s) = n
        <5> HIDE DEF s, T
        <5> QED
          BY <2>3, <4>2
      <4> QED
        BY <4>4, <4>5
    <3>2. shown = Append(s, d[p])
      BY <2>1, <2>8
    <3>3. Append(s, d[p]) = [i \in 1 .. n + 1 |-> IF i = n + 1 THEN d[p] ELSE s[i]]
      <4> HIDE DEF s, T
      <4> QED
        BY <2>3, <3>1
    <3>4. \A i \in 1 .. n + 1 : (IF i = n + 1 THEN d[p] ELSE s[i]) = d[ids[i]]
      BY <2>3, <2>5
    <3> QED
      BY <3>2, <3>3, <3>4
  <2>10. pc = "answered" <=> n + 1 = Len(ids)
    BY <2>4 DEF pc, ids
  <2>11. /\ reader'.shown = [i \in 1 .. n + 1 |-> reader'.db[reader'.ids[i]]]
         /\ (reader'.pc = "answered" <=> n + 1 = Len(reader'.ids))
         /\ n + 1 \in 0 .. Len(reader'.ids)
    BY <1>4, <1>5, <2>3, <2>9, <2>10 DEF ids, d
  <2> QED
    BY <2>11 DEF HydratedSoFar
<1>9. ShownInv'
  BY <1>3, <1>4, <1>5, <1>8 DEF ShownInv
<1> QED
  BY <1>7, <1>9

\* A commit that overtakes a search leaves its page as it is, and unsound.
LEMMA AbsorbShapes ==
  ASSUME CacheInv, ShapeInv, NEW p, NEW record, Absorb(p, record)
  PROVE  ShapeInv' /\ ShownInv'
<1>1. UNCHANGED <<source, records, head, keys, ranks>>
  BY DEF Absorb
<1>2. CASE reader.pc \in {"idle", "answered"}
  <2>1. reader' = Idle
    BY <1>2 DEF Absorb, Overtake
  <2>2. ~Underway'
    BY <2>1 DEF Underway, Idle
  <2> QED
    BY <1>1, <2>2 DEF ShapeInv, ShownInv
<1>3. CASE reader.pc \notin {"idle", "answered"}
  <2>1. Underway /\ DOMAIN reader = ReaderFields
    BY <1>3 DEF Underway, CacheInv, ReaderType
  <2>2. reader' = [reader EXCEPT !.missed = @ \cup {p}, !.alone = FALSE, !.sound = FALSE]
    BY <1>3 DEF Absorb, Overtake
  <2>3. /\ reader'.pc = reader.pc /\ reader'.db = reader.db /\ reader'.source = reader.source
        /\ reader'.ask = reader.ask /\ reader'.window = reader.window
        /\ reader'.ranks = reader.ranks /\ reader'.ids = reader.ids
        /\ reader'.sound = FALSE
    BY <2>1, <2>2 DEF ReaderFields
  <2>4. PageShaped(reader') <=> PageShaped(reader)
    BY <2>3, SamePage
  <2>5. ShapeInv'
    BY <1>1, <2>1, <2>3, <2>4 DEF ShapeInv
  <2> QED
    BY <2>3, <2>5 DEF ShownInv
<1> QED
  BY <1>2, <1>3

\* An eviction clears or patches a cache, and leaves the search alone.
LEMMA EvictionShapes ==
  ASSUME CacheInv, ShapeInv, ShownInv,
         EvictRecords \/ ClearSortHeads \/ RefreshSortKeys \/ InvalidateFavoriteRanks
  PROVE  ShapeInv' /\ ShownInv'
<1>1. UNCHANGED <<source, reader>>
  BY DEF EvictRecords, ClearSortHeads, RefreshSortKeys, InvalidateFavoriteRanks
<1>2. head' \in {head, None} /\ ranks' \in {ranks, None}
  BY DEF EvictRecords, ClearSortHeads, RefreshSortKeys, InvalidateFavoriteRanks
<1>3. keys' = None \/ KeysShaped(keys')
  <2>1. CASE RefreshSortKeys
    <3>1. CASE keys = None
      BY <2>1, <3>1 DEF RefreshSortKeys
    <3>2. CASE keys # None
      <4>1. /\ AtWork /\ keys = [q \in Post |-> keys[q]]
        BY <2>1, <3>2 DEF RefreshSortKeys, AtWork, CacheInv, Types
      <4>2. /\ writer.post \in Post /\ writer.record \in Record \cup {None}
        BY <4>1 DEF CacheInv, Types, WriterType, AtWork, Idle
      <4> DEFINE k == IF writer.record = None THEN None ELSE writer.record.score
      <4>3. k \in Int \cup {None}
        BY <4>2, ReadCachesAssumption DEF Record
      <4>4. keys' = [keys EXCEPT ![writer.post] = k]
        BY <2>1, <3>2 DEF RefreshSortKeys, SetSortKey
      <4> HIDE DEF k
      <4>5. \A q \in Post : keys'[q] = IF q = writer.post THEN k ELSE keys[q]
        BY <4>1, <4>4
      <4> QED
        BY <3>2, <4>3, <4>5 DEF ShapeInv, KeysShaped
    <3> QED
      BY <3>1, <3>2
  <2>2. CASE ~RefreshSortKeys
    <3>1. keys' = keys
      BY <2>2 DEF EvictRecords, ClearSortHeads, InvalidateFavoriteRanks
    <3> QED
      BY <3>1 DEF ShapeInv
  <2> QED
    BY <2>1, <2>2
<1>4. ShapeInv'
  BY <1>1, <1>2, <1>3 DEF ShapeInv, RanksShaped, Underway
<1>5. ShownInv'
  BY <1>1 DEF ShownInv, Underway
<1> QED
  BY <1>4, <1>5

\* Every step keeps the caches and the page shaped, and what is shown true.
LEMMA ShapesStep ==
  ASSUME ReadCachesAssumption, CacheInv, ShapeInv, ShownInv, [Next]_vars
  PROVE  ShapeInv' /\ ShownInv'
<1>1. CASE \E ask \in Askable, ids \in Favorites : Begin(ask, Toggled(ids))
  BY <1>1, BeginShapes
<1>2. CASE Rank
  BY <1>2, RankShapes
<1>3. CASE Page
  BY <1>3, PageShapes
<1>4. CASE Hydrate
  BY <1>4, HydrateShapes
<1>5. CASE \E p \in Absorbed, record \in Record \cup {None} : Absorb(p, record)
  BY <1>5, AbsorbShapes
<1>6. CASE EvictRecords \/ ClearSortHeads \/ RefreshSortKeys \/ InvalidateFavoriteRanks
  BY <1>6, EvictionShapes
<1>7. CASE UNCHANGED vars
  <2>1. UNCHANGED <<source, head, keys, ranks, reader>>
    BY <1>7 DEF vars
  <2> QED
    BY <2>1 DEF ShapeInv, ShownInv, Underway
<1> QED
  BY <1>1, <1>2, <1>3, <1>4, <1>5, <1>6, <1>7 DEF Next

-----------------------------------------------------------------------------
(* The theorems                                                            *)

\* The inductive invariant: every cache agrees with the last commit but for what history
\* calls stale and what the absorb at work still has to evict (index.rs, the vaults).
THEOREM Invariance == Spec => [](CacheInv /\ PageInv)
<1>1. Init => CacheInv /\ PageInv
  BY InitCache
<1>2. CacheInv /\ PageInv /\ [Next]_vars => (CacheInv /\ PageInv)'
  BY CacheStep, ReadCachesAssumption
<1> QED
  BY <1>1, <1>2, PTL DEF Spec

\* Between absorbs, a cached record, head, key or rank differs from the records only if a
\* search that an absorb overtook filled it, or an absorb failed before evicting it.
THEOREM CachesAreFresh == Spec => []CachesFreshUnlessOvertaken
<1>1. CacheInv => CachesFreshUnlessOvertaken
  <2> SUFFICES ASSUME CacheInv, writer = Idle
               PROVE  /\ \A p \in Post \ stale.records : records[p] \in {None, db[p]}
                      /\ stale.head \/ head \in {None, LaneHead(db)}
                      /\ \A p \in Post \ stale.keys : keys # None => keys[p] = SortKeys(db)[p]
                      /\ stale.ranks \/ ranks = None \/ ranks = FavoriteRanks(db, ranks.source)
    BY DEF CachesFreshUnlessOvertaken
  <2>1. writer.pc = "idle"
    BY DEF Idle
  <2> QED
    BY <2>1
    DEF CacheInv, RecordsKept, HeadKept, KeysKept, RanksKept, Unranked, Unkeyed, AtWork
<1> QED
  BY <1>1, Invariance, PTL

\* A search that no absorb disturbed, over caches nothing left stale, shows the page and
\* the count of one state of the records: the last commit.  Its window, its favourites'
\* ranks, and each head and key it read are those of that state, whichever searches and
\* absorbs filled, patched or cleared the caches before it (index.rs, search_corpus).
PagesOfOneState ==
    Answered /\ reader.sound =>
        /\ reader.db = db
        /\ reader.window = DateWindow(db, Normalized(reader.ask.dates))
        /\ PageOfSnapshot(reader)

\* Every answer of an undisturbed search is such a page.
THEOREM PagesComeFromOneState == Spec => []PagesOfOneState
<1>1. CacheInv /\ PageInv => PagesOfOneState
  <2> SUFFICES ASSUME CacheInv, PageInv, Answered, reader.sound
               PROVE  /\ reader.db = db
                      /\ reader.window = DateWindow(db, Normalized(reader.ask.dates))
                      /\ PageOfSnapshot(reader)
    BY DEF PagesOfOneState
  <2>1. Underway /\ reader.pc = "answered"
    BY DEF Answered, Underway
  <2>2. reader.db = db
    BY <2>1, NothingMissed DEF CacheInv, SoundIsUndisturbed
  <2> QED
    BY <2>1, <2>2 DEF PageInv
<1> QED
  BY <1>1, Invariance, PTL

\* At every reachable state the caches and the page are shaped, whatever is stale, and an
\* undisturbed search shows what its snapshot has: the pages and the caches of index.rs.
THEOREM ShapesHold == Spec => [](CacheInv /\ PageInv /\ ShapeInv /\ ShownInv)
<1>1. Init => ShapeInv /\ ShownInv
  <2> SUFFICES ASSUME Init PROVE ShapeInv /\ ShownInv
    OBVIOUS
  <2>1. ~Underway /\ source \in Given /\ head = None /\ keys = None /\ ranks = None
    BY DEF Init, Underway, Idle, Given
  <2> QED
    BY <2>1 DEF ShapeInv, ShownInv, RanksShaped
<1>2. CacheInv /\ ShapeInv /\ ShownInv /\ [Next]_vars => (ShapeInv /\ ShownInv)'
  BY ShapesStep, ReadCachesAssumption
<1> QED
  BY <1>1, <1>2, Invariance, PTL DEF Spec

\* A shaped page repeats nothing.
LEMMA ShapedRepeatsNothing ==
  ASSUME ShapeInv, Answered
  PROVE  NothingTwice
<1> DEFINE r == reader
           A == Accepted(Candidate(r), r.window)
           roots == [i \in DOMAIN r.ids |-> RootOf[r.ids[i]]]
           shown == IF r.ask.grouped THEN roots ELSE r.ids
<1>1. PageShaped(r)
  BY DEF ShapeInv, Answered, Underway
<1>2. Len(r.ids) <= r.ask.limit /\ r.ids \in Seq(A)
  BY <1>1 DEF PageShaped, Apart, FamiliesApart
<1>3. \A p \in ToSet(r.ids) : p \in r.window.ids /\ Admits(Candidate(r), p)
  <2> HIDE DEF A
  <2>1. \A i \in DOMAIN r.ids : r.ids[i] \in A
    BY <1>2
  <2> QED
    BY <2>1 DEF ToSet, Accepted, A
<1>4. IsInjective(shown)
  <2>1. CASE r.ask.grouped
    <3>1. \A i, j \in DOMAIN r.ids : RootOf[r.ids[i]] = RootOf[r.ids[j]] => i = j
      BY <1>1, <2>1 DEF PageShaped, FamiliesApart
    <3>2. \A i, j \in DOMAIN roots : roots[i] = roots[j] => i = j
      BY <3>1
    <3> QED
      BY <2>1, <3>2 DEF IsInjective
  <2>2. CASE ~r.ask.grouped
    <3>1. \A i, j \in DOMAIN r.ids : r.ids[i] = r.ids[j] => i = j
      BY <1>1, <2>2 DEF PageShaped, Apart
    <3> QED
      BY <2>2, <3>1 DEF IsInjective
  <2> QED
    BY <2>1, <2>2
<1> QED
  BY <1>2, <1>3, <1>4, Zenon DEF NothingTwice, Limit

\* The page of a search, however many commits and evictions overtook it, shows no post twice
\* (no family twice when it is grouped), and only posts its query and its days let in: what
\* the page, family and hydration loops of index.rs leave to the order of their reads.
THEOREM NothingIsShownTwice == Spec => []NothingTwice
<1>1. ShapeInv => NothingTwice
  BY ShapedRepeatsNothing DEF NothingTwice
<1> QED
  BY <1>1, ShapesHold, PTL

\* An empty window promises nothing.
LEMMA NothingInWindow ==
  ASSUME NEW d \in Snapshots, NEW F, NEW ask \in Asks,
         DateWindow(d, Normalized(ask.dates)).ids = {}
  PROVE  Matching(d, F, ask) = {} /\ Ordering(d, F, ask) = <<>>
<1> DEFINE M == Matching(d, F, ask)
           dates == Normalized(ask.dates)
           window == DateWindow(d, dates)
           R == PageOrder(d, F, ask.sort)
           N == Pool(d, F, ask)
<1>1. dates \in Days
  BY NormalizedDays DEF Asks
<1> HIDE DEF dates, window
<1>2. \A p \in Live(d) : p \in window.ids <=> InDays(p, dates)
  BY <1>1, DateWindowExact DEF window
<1>3. window.ids = {}
  BY DEF window, dates
<1>4. M = {}
  BY <1>2, <1>3 DEF Matching, dates
<1> HIDE DEF M, R, N
<1>5. Lists(Ordering(d, F, ask), N, R)
  BY OrderingLists DEF N, R
<1>6. N \in SUBSET M
  BY MatchingOrder DEF N, M
<1>7. Ordering(d, F, ask) = <<>>
  <2> DEFINE s == Ordering(d, F, ask)
  <2>1. Lists(s, {}, R)
    BY <1>4, <1>5, <1>6
  <2> HIDE DEF s
  <2>2. s \in Seq({}) /\ Len(s) \in Nat /\ \A i \in 1 .. Len(s) : s[i] \in {}
    BY ONLY <2>1, ListsHas
  <2>3. s = <<>>
    <3>1. ~(1 \in 1 .. Len(s))
      BY ONLY <2>2
    <3>2. Len(s) = 0
      BY ONLY <2>2, <3>1
    <3> QED
      BY ONLY <2>2, <3>2
  <2> QED
    BY <2>3 DEF s
<1> QED
  BY <1>4, <1>7 DEF M

\* The candidate of a search is that of its snapshot and of the favourites it was given.
LEMMA CandidateOfSnapshot ==
  ASSUME NEW r, r.db \in Snapshots, r.source \in Given, RanksOfSnapshot(r)
  PROVE  Candidate(r) = CandidateSet(r.db, r.ask.query, Held(r.db, r.source.ids))
<1>1. CASE r.source.ids = {}
  BY <1>1 DEF RanksOfSnapshot, Candidate, Held
<1>2. CASE r.source.ids # {}
  <2>1. r.ranks = FavoriteRanks(r.db, r.source)
    BY <1>2 DEF RanksOfSnapshot
  <2>2. r.ranks # None /\ r.ranks.available = r.source.ids \cap Live(r.db)
    <3> DEFINE d == r.db
               given == r.source
    <3>1. d \in Snapshots /\ given \in Given
      OBVIOUS
    <3> HIDE DEF d, given
    <3>2. FavoriteRanks(d, given) # None
          /\ FavoriteRanks(d, given).available = given.ids \cap Live(d)
      BY ONLY <3>1, FavoriteOrderLists
    <3> QED
      BY <2>1, <3>2 DEF d, given
  <2>3. r.ranks.available = Held(r.db, r.source.ids)
    BY <2>2 DEF Held
  <2> QED
    BY <2>2, <2>3 DEF Candidate
<1> QED
  BY <1>1, <1>2

\* A page made of one snapshot is the first of what it promises, and is counted as such.
LEMMA PageOfSnapshotExact ==
  ASSUME NEW r, r.db \in Snapshots, r.source \in Given, r.ask \in Asks,
         r.window = DateWindow(r.db, Normalized(r.ask.dates)), PageOfSnapshot(r)
  PROVE  /\ IsPrefix(r.ids, Promised(r))
         /\ MayStopShort(r) \/ r.ids = Take(Promised(r), Limit(r))
         /\ r.count >= Cardinality(Matching(r.db, r.source.ids, r.ask))
         /\ r.ask.dates = NoDates => r.count = Cardinality(Matching(r.db, r.source.ids, r.ask))
<1> DEFINE d == r.db
           given == r.source
           F == given.ids
           ask == r.ask
           window == r.window
           candidate == Candidate(r)
           rest == Rest(r)
           held == r.ranks
           M == Matching(d, F, ask)
<1>1. /\ d \in Snapshots /\ given \in Given /\ ask \in Asks
      /\ window = DateWindow(d, Normalized(ask.dates))
      /\ Promised(r) = Ordering(d, F, ask) /\ Limit(r) = ask.limit /\ ask.limit \in Nat
  BY DEF Promised, Limit, Asks
<1>2. CASE window.ids = {}
  <2>1. r.ids = <<>> /\ r.count = 0
    BY <1>2 DEF PageOfSnapshot
  <2>2. M = {} /\ Promised(r) = <<>>
    BY <1>1, <1>2, NothingInWindow
  <2>3. Cardinality(M) = 0
    BY <2>2, FS_EmptySet
  <2>4. IsPrefix(r.ids, Promised(r)) /\ r.ids = Take(Promised(r), Limit(r))
    BY <1>1, <2>1, <2>2 DEF IsPrefix, Take, Smaller
  <2> QED
    BY <2>1, <2>3, <2>4
<1>3. CASE window.ids # {}
  <2>1. /\ RanksOfSnapshot(r) /\ r.count = CandidateCount(d, candidate, window)
        /\ \E hd, ks : /\ ReadsHead(r) => hd = LaneHead(d)
                       /\ ReadsKeys(r) => ks = SortKeys(d)
                       /\ r.ids = PageIds(d, hd, ks, held, ask, candidate, window)
    BY <1>3 DEF PageOfSnapshot
  <2>2. PICK hd, ks : /\ ReadsHead(r) => hd = LaneHead(d)
                      /\ ReadsKeys(r) => ks = SortKeys(d)
                      /\ r.ids = PageIds(d, hd, ks, held, ask, candidate, window)
    BY <2>1
  <2>3. candidate = CandidateSet(d, ask.query, Held(d, F))
    BY <2>1, CandidateOfSnapshot
  <2>4. /\ r.count >= Cardinality(M)
        /\ ask.dates = NoDates => r.count = Cardinality(M)
    <3> HIDE DEF d, F, ask, window, candidate
    <3> QED
      BY <1>1, <2>1, <2>3, MatchingExact
  <2>5. Sources(d, given, ask, candidate, window, held, rest, hd, ks)
    BY <1>1, <2>1 DEF Sources, RanksOfSnapshot, Candidate, Rest
  <2>6. PICK filled : filled <=> FilledByFavorites(r)
    OBVIOUS
  <2>7. /\ filled <=>
             /\ held # None
             /\ LET favored == Among(FavoriteOrder(held, ask.sort),
                                     Accepted(Favored(candidate, held), window))
                IN  Len(IF ask.grouped THEN Offered(<<>>, favored, ask.limit) ELSE favored)
                      >= ask.limit
        /\ ~filled /\ UsesHead(rest, ask.sort) => hd = LaneHead(d)
        /\ ~filled /\ UsesKeys(rest, ask.sort) => ks = SortKeys(d)
    BY <2>2, <2>6 DEF FilledByFavorites, ReadsHead, ReadsKeys
  <2> DEFINE ids == PageIds(d, hd, ks, held, ask, candidate, window)
             promised == Ordering(d, given.ids, ask)
  <2>8. /\ IsPrefix(ids, promised)
        /\ (held # None /\ ask.grouped /\ UsesKeys(rest, ask.sort))
              \/ ids = Take(promised, ask.limit)
    <3> HIDE DEF d, given, ask, window, candidate, rest, held
    <3> QED
      BY ONLY <1>1, <2>5, <2>7, PageIdsExact
  <2> QED
    BY <1>1, <2>2, <2>4, <2>8 DEF MayStopShort
<1> QED
  BY <1>2, <1>3

\* An answered search that nothing overtook shows what is promised.
LEMMA ShownIsExact ==
  ASSUME CacheInv, PageInv, ShapeInv, ShownInv
  PROVE  PagesExact
<1> SUFFICES ASSUME Answered, reader.sound
             PROVE  LET r == reader IN
                    /\ IsPrefix(r.ids, Promised(r))
                    /\ MayStopShort(r) \/ r.ids = Take(Promised(r), Limit(r))
                    /\ r.shown = [i \in DOMAIN r.ids |-> r.db[r.ids[i]]]
                    /\ r.count >= Cardinality(Matching(r.db, r.source.ids, r.ask))
                    /\ r.ask.dates = NoDates
                         => r.count = Cardinality(Matching(r.db, r.source.ids, r.ask))
  BY DEF PagesExact
<1> DEFINE r == reader
<1>1. Underway /\ r.pc = "answered"
  BY DEF Answered, Underway
<1>2. /\ r.db \in Snapshots /\ r.source \in Given /\ r.ask \in Asks
      /\ r.window = DateWindow(r.db, Normalized(r.ask.dates)) /\ PageOfSnapshot(r)
  BY <1>1 DEF CacheInv, ReaderType, PageInv, ShapeInv, Snapshots
<1>3. r.shown = [i \in DOMAIN r.ids |-> r.db[r.ids[i]]]
  <2>1. DOMAIN r.ids = 1 .. Len(r.ids)
    <3>1. \E S : r.ids \in Seq(S)
      BY <1>1 DEF ShapeInv, PageShaped, Apart, FamiliesApart
    <3> QED
      BY <3>1
  <2>2. r.shown = [i \in 1 .. Len(r.ids) |-> r.db[r.ids[i]]]
    BY <1>1 DEF ShownInv, HydratedSoFar
  <2> QED
    BY <2>1, <2>2
<1> HIDE DEF r
<1>4. /\ IsPrefix(r.ids, Promised(r))
      /\ MayStopShort(r) \/ r.ids = Take(Promised(r), Limit(r))
      /\ r.count >= Cardinality(Matching(r.db, r.source.ids, r.ask))
      /\ r.ask.dates = NoDates => r.count = Cardinality(Matching(r.db, r.source.ids, r.ask))
  BY <1>2, PageOfSnapshotExact
<1> QED
  BY <1>3, <1>4 DEF r

\* A search that nothing overtook shows exactly the first posts, in order, of all that match
\* in its snapshot, each with its record, and counts no fewer than match (all of them when no
\* days are asked for): with favourites first, by families, through whichever caches of
\* index.rs it reads and whichever it fills.  A keyed page of families may stop short.
THEOREM PagesAreExact == Spec => []PagesExact
<1>1. CacheInv /\ PageInv /\ ShapeInv /\ ShownInv => PagesExact
  BY ShownIsExact
<1> QED
  BY <1>1, ShapesHold, PTL

===============================================================================
