------------------------- MODULE MethodCacheProofs --------------------------
(***************************************************************************)
(* Proofs about the LRU and the FIFO method cache, for every program, every *)
(* number of blocks and tags, every size of blocks and methods, and every   *)
(* number of cycles a transfer takes.                                      *)
(***************************************************************************)
EXTENDS MethodCache, SequenceTheorems, WellFoundedInduction, TLAPS

-----------------------------------------------------------------------------
(* Induction over the natural numbers, put as a statement about sets.       *)

LEMMA LeastElement ==
  ASSUME NEW T \in SUBSET Nat, T # {}
  PROVE  \E n \in T : \A m \in T : n <= m
  <1>1. IsWellFoundedOn(OpToRel(<, Nat), Nat)
    BY NatLessThanWellFounded
  <1>2. \E n \in T : \A m \in T : <<m, n>> \notin OpToRel(<, Nat)
    BY <1>1, WFMin
  <1>3. \E n \in T : \A m \in T : ~ (m < n)
    BY <1>2 DEF OpToRel
  <1> QED BY <1>3

LEMMA SetInduction ==
  ASSUME NEW S, 0 \in S, \A n \in Nat : n \in S => n + 1 \in S
  PROVE  Nat \subseteq S
  <1> SUFFICES ASSUME Nat \ S # {} PROVE FALSE
    OBVIOUS
  <1>1. PICK n \in Nat \ S : \A m \in Nat \ S : n <= m
    BY LeastElement
  <1>2. n # 0 /\ n - 1 \in Nat /\ n - 1 < n
    BY <1>1
  <1>3. n - 1 \in S
    BY <1>1, <1>2
  <1> QED BY <1>2, <1>3

LEMMA MinOfSet ==
  ASSUME NEW T \in SUBSET Nat, T # {}
  PROVE  Min(T) \in T /\ \A m \in T : Min(T) <= m
  BY LeastElement DEF Min

-----------------------------------------------------------------------------
(* The blocks of a sequence of methods: t[k] are those of the first k.      *)

PartialSums(ms, t) ==
  /\ t \in [0 .. Len(ms) -> Nat]
  /\ t[0] = 0
  /\ \A k \in 1 .. Len(ms) : t[k] = t[k - 1] + ms[k].blocks

\* The fold that BlocksOf stands for, over the subsets of the first n indexes.
FoldOf(ms, n, g) ==
  g = [s \in SUBSET (1 .. n) |->
         IF s = {} THEN 0 ELSE g[s \ {Max(s)}] + ms[Max(s)].blocks]

LEMMA MaxOfSet ==
  ASSUME NEW n \in Nat, NEW s \in SUBSET (1 .. n + 1), n + 1 \in s
  PROVE  Max(s) = n + 1 /\ s \ {n + 1} \in SUBSET (1 .. n)
  <1>1. \A y \in s : n + 1 >= y
    OBVIOUS
  <1>2. Max(s) \in s /\ Max(s) >= n + 1
    BY <1>1 DEF Max
  <1>3. Max(s) = n + 1
    <2>1. \A x \in s : x >= n + 1 => x = n + 1
      OBVIOUS
    <2> QED BY <1>2, <2>1
  <1>4. \A x \in s : x \in 1 .. n + 1
    OBVIOUS
  <1>5. \A x \in 1 .. n + 1 : x # n + 1 => x \in 1 .. n
    OBVIOUS
  <1>6. s \ {n + 1} \in SUBSET (1 .. n)
    BY <1>4, <1>5
  <1> QED BY <1>3, <1>6

LEMMA MaxOfSmaller ==
  ASSUME NEW n \in Nat, NEW s \in SUBSET (1 .. n), s # {}
  PROVE  Max(s) \in s
  <1>1. \E x \in s : \A y \in s : x >= y
    <2> DEFINE T == {n - x : x \in s}
    <2>1. T \in SUBSET Nat /\ T # {}
      <3>1. \A x \in s : n - x \in Nat
        OBVIOUS
      <3>2. T \in SUBSET Nat
        BY <3>1
      <3>3. T # {}
        BY Zenon
      <3> QED BY <3>2, <3>3
    <2>2. PICK d \in T : \A m \in T : d <= m
      BY <2>1, LeastElement
    <2>3. PICK x \in s : d = n - x
      BY <2>2
    <2>4. \A y \in s : x >= y
      <3> TAKE y \in s
      <3>1. n - y \in T /\ n - x <= n - y
        BY <2>2, <2>3
      <3> QED BY <3>1
    <2> QED BY <2>3, <2>4
  <1> QED BY <1>1 DEF Max

LEMMA FoldExists ==
  ASSUME NEW ms, NEW n \in Nat
  PROVE  \E g : FoldOf(ms, n, g)
  <1> DEFINE S == {k \in Nat : \E g : FoldOf(ms, k, g)}
  <1>1. 0 \in S
    <2> DEFINE g == [s \in SUBSET (1 .. 0) |-> 0]
    <2>1. SUBSET (1 .. 0) = {{}}
      OBVIOUS
    <2>2. FoldOf(ms, 0, g)
      BY <2>1 DEF FoldOf
    <2> QED BY <2>2
  <1>2. \A k \in Nat : k \in S => k + 1 \in S
    <2> SUFFICES ASSUME NEW k \in Nat, NEW g, FoldOf(ms, k, g)
                 PROVE  \E h : FoldOf(ms, k + 1, h)
      OBVIOUS
    <2> DEFINE h == [s \in SUBSET (1 .. k + 1) |->
                       IF k + 1 \in s THEN g[s \ {k + 1}] + ms[k + 1].blocks ELSE g[s]]
    <2>1. ASSUME NEW s \in SUBSET (1 .. k + 1)
          PROVE  h[s] = IF s = {} THEN 0 ELSE h[s \ {Max(s)}] + ms[Max(s)].blocks
      <3>1. CASE k + 1 \in s
        <4>1. Max(s) = k + 1 /\ s \ {k + 1} \in SUBSET (1 .. k)
          BY <3>1, MaxOfSet
        <4>2. h[s \ {k + 1}] = g[s \ {k + 1}]
          BY <4>1
        <4> QED BY <3>1, <4>1, <4>2
      <3>2. CASE k + 1 \notin s
        <4>1. s \in SUBSET (1 .. k)
          BY <3>2
        <4>2. h[s] = g[s]
          BY <3>2
        <4>3. g[s] = IF s = {} THEN 0 ELSE g[s \ {Max(s)}] + ms[Max(s)].blocks
          BY <4>1 DEF FoldOf
        <4>4. h[s \ {Max(s)}] = g[s \ {Max(s)}]
          BY <3>2
        <4> QED BY <4>2, <4>3, <4>4
      <3> QED BY <3>1, <3>2
    <2>2. h = [s \in SUBSET (1 .. k + 1) |->
                 IF s = {} THEN 0 ELSE h[s \ {Max(s)}] + ms[Max(s)].blocks]
      BY <2>1
    <2>3. FoldOf(ms, k + 1, h)
      BY <2>2 DEF FoldOf
    <2> QED BY <2>3
  <1>3. n \in S
    BY <1>1, <1>2, SetInduction
  <1> QED BY <1>3

LEMMA BlocksAreFolded ==
  ASSUME NEW ms, NEW n \in Nat, DOMAIN ms = 1 .. n
  PROVE  \E g : FoldOf(ms, n, g) /\ BlocksOf(ms) = g[1 .. n]
  <1> DEFINE g == CHOOSE g : FoldOf(ms, n, g)
  <1>1. FoldOf(ms, n, g)
    BY FoldExists
  <1>2. BlocksOf(ms) = g[1 .. n]
    BY DEF BlocksOf, FoldLeft, MapThenFoldSet, FoldOf
  <1> QED BY <1>1, <1>2

LEMMA SumsExist ==
  ASSUME NEW ms \in Seq(Methods)
  PROVE  \E t : PartialSums(ms, t) /\ BlocksOf(ms) = t[Len(ms)]
  <1> DEFINE n == Len(ms)
  <1>1. n \in Nat /\ DOMAIN ms = 1 .. n /\ \A k \in 1 .. n : ms[k].blocks \in Nat
    <2>1. n \in Nat /\ DOMAIN ms = 1 .. n
      BY LenProperties
    <2>2. \A k \in 1 .. n : ms[k] \in Methods
      OBVIOUS
    <2> QED BY <2>1, <2>2 DEF Methods
  <1>2. PICK g : FoldOf(ms, n, g) /\ BlocksOf(ms) = g[1 .. n]
    BY <1>1, BlocksAreFolded
  <1> DEFINE t == [k \in 0 .. n |-> g[1 .. k]]
  <1>3. t[0] = 0
    <2>1. g[1 .. 0] = 0
      BY <1>1, <1>2 DEF FoldOf
    <2> QED BY <1>1, <2>1
  <1>4. ASSUME NEW k \in 1 .. n
        PROVE  t[k] = t[k - 1] + ms[k].blocks
    <2>1. k - 1 \in Nat /\ (k - 1) + 1 = k /\ k - 1 \in 0 .. n /\ k \in 0 .. n
      BY <1>1
    <2>2. k \in 1 .. k /\ 1 .. k \in SUBSET (1 .. n) /\ 1 .. k # {}
      <3>1. k \in 1 .. k
        BY <1>1
      <3>2. \A i \in 1 .. k : i \in 1 .. n
        BY <1>1
      <3> QED BY <3>1, <3>2
    <2>3. Max(1 .. k) = k
      BY <2>1, <2>2, MaxOfSet
    <2>4. (1 .. k) \ {k} = 1 .. (k - 1)
      BY <1>1
    <2>5. g[1 .. k] = g[(1 .. k) \ {Max(1 .. k)}] + ms[Max(1 .. k)].blocks
      BY <1>2, <2>2 DEF FoldOf
    <2> QED BY <2>1, <2>3, <2>4, <2>5
  <1>5. \A k \in 0 .. n : t[k] \in Nat
    <2> DEFINE S == {k \in Nat : k <= n => t[k] \in Nat}
    <2>1. 0 \in S
      BY <1>3
    <2>2. ASSUME NEW k \in Nat, k \in S PROVE k + 1 \in S
      <3> HIDE DEF t
      <3> SUFFICES ASSUME k + 1 <= n PROVE t[k + 1] \in Nat
        OBVIOUS
      <3>1. k + 1 \in 1 .. n /\ (k + 1) - 1 = k /\ t[k] \in Nat
        BY <1>1, <2>2
      <3>2. t[k + 1] = t[k] + ms[k + 1].blocks
        BY <1>4, <3>1
      <3> QED BY <1>1, <3>1, <3>2
    <2> HIDE DEF S
    <2>3. Nat \subseteq S
      BY <2>1, <2>2, SetInduction
    <2> HIDE DEF t
    <2> QED BY <2>3, <1>1 DEF S
  <1>6. PartialSums(ms, t)
    <2> HIDE DEF t
    <2>1. t \in [0 .. n -> Nat]
      BY <1>5 DEF t
    <2> QED BY <2>1, <1>3, <1>4 DEF PartialSums
  <1>7. BlocksOf(ms) = t[n]
    BY <1>1, <1>2
  <1> HIDE DEF t
  <1> QED BY <1>6, <1>7

LEMMA SumsAgree ==
  ASSUME NEW ms \in Seq(Methods), NEW t, PartialSums(ms, t)
  PROVE  BlocksOf(ms) = t[Len(ms)] /\ BlocksOf(ms) \in Nat
  <1>1. PICK u : PartialSums(ms, u) /\ BlocksOf(ms) = u[Len(ms)]
    BY SumsExist
  <1> DEFINE S == {k \in Nat : k <= Len(ms) => t[k] = u[k]}
  <1>2. 0 \in S
    BY <1>1 DEF PartialSums
  <1>3. ASSUME NEW k \in Nat, k \in S PROVE k + 1 \in S
    <2> SUFFICES ASSUME k + 1 <= Len(ms) PROVE t[k + 1] = u[k + 1]
      OBVIOUS
    <2>1. k + 1 \in 1 .. Len(ms) /\ (k + 1) - 1 = k /\ t[k] = u[k]
      BY <1>3
    <2> QED BY <1>1, <2>1 DEF PartialSums
  <1> HIDE DEF S
  <1>4. Nat \subseteq S
    BY <1>2, <1>3, SetInduction
  <1>5. t[Len(ms)] = u[Len(ms)]
    BY <1>4 DEF S
  <1> QED BY <1>1, <1>5 DEF PartialSums

LEMMA BlocksOfConcat ==
  ASSUME NEW u \in Seq(Methods), NEW v \in Seq(Methods)
  PROVE  BlocksOf(u \o v) = BlocksOf(u) + BlocksOf(v)
  <1>1. PICK s : PartialSums(u, s) /\ BlocksOf(u) = s[Len(u)]
    BY SumsExist
  <1>2. PICK t : PartialSums(v, t) /\ BlocksOf(v) = t[Len(v)]
    BY SumsExist
  <1> DEFINE w == u \o v
             r == [k \in 0 .. Len(w) |-> IF k <= Len(u) THEN s[k]
                                        ELSE s[Len(u)] + t[k - Len(u)]]
  <1>3. /\ w \in Seq(Methods) /\ Len(w) = Len(u) + Len(v)
        /\ \A k \in 1 .. Len(w) : w[k] = IF k <= Len(u) THEN u[k] ELSE v[k - Len(u)]
    BY ConcatProperties
  <1>4. /\ s \in [0 .. Len(u) -> Nat] /\ t \in [0 .. Len(v) -> Nat]
        /\ s[0] = 0 /\ t[0] = 0
    BY <1>1, <1>2 DEF PartialSums
  <1> HIDE DEF w
  <1>5. ASSUME NEW k \in 1 .. Len(w)
        PROVE  r[k] = r[k - 1] + w[k].blocks
    <2>1. CASE k <= Len(u)
      <3>1. k \in 1 .. Len(u) /\ k - 1 <= Len(u) /\ k \in 0 .. Len(w) /\ k - 1 \in 0 .. Len(w)
        BY <2>1, <1>3
      <3>2. s[k] = s[k - 1] + u[k].blocks
        BY <3>1, <1>1 DEF PartialSums
      <3> QED BY <3>1, <3>2, <2>1, <1>3
    <2>2. CASE k > Len(u)
      <3> DEFINE j == k - Len(u)
      <3>1. /\ j \in 1 .. Len(v) /\ k \in 0 .. Len(w) /\ k - 1 \in 0 .. Len(w)
            /\ ~ (k <= Len(u)) /\ (k - 1) - Len(u) = j - 1 /\ j - 1 \in 0 .. Len(v)
            /\ k - 1 >= Len(u) /\ j \in 0 .. Len(v)
        BY <2>2, <1>3
      <3>2. t[j] = t[j - 1] + v[j].blocks
        BY <3>1, <1>2 DEF PartialSums
      <3>3. v[j] \in Methods
        BY <3>1
      <3>4. s[Len(u)] \in Nat /\ t[j - 1] \in Nat /\ v[j].blocks \in Nat
        <4> HIDE DEF j, r
        <4>1. Len(u) \in 0 .. Len(u)
          OBVIOUS
        <4> QED BY <3>1, <3>3, <4>1, <1>4 DEF Methods
      <3>5. r[k - 1] = s[Len(u)] + t[j - 1]
        <4>1. CASE k - 1 = Len(u)
          <5>1. r[k - 1] = s[Len(u)] /\ t[j - 1] = 0
            BY <3>1, <4>1, <1>4
          <5> QED BY <3>4, <5>1
        <4>2. CASE k - 1 > Len(u)
          BY <3>1, <4>2
        <4> QED BY <3>1, <4>1, <4>2
      <3>6. r[k] = s[Len(u)] + t[j] /\ w[k] = v[j]
        BY <3>1, <1>3
      <3> HIDE DEF r, j
      <3> QED BY <3>2, <3>4, <3>5, <3>6
    <2> QED BY <2>1, <2>2, <1>3
  <1>6. r \in [0 .. Len(w) -> Nat]
    <2>1. Len(u) \in Nat /\ Len(v) \in Nat
      OBVIOUS
    <2>2. ASSUME NEW k \in 0 .. Len(w) PROVE r[k] \in Nat
      <3>1. CASE k <= Len(u)
        <4>1. k \in 0 .. Len(u)
          BY <3>1, <2>1, <1>3
        <4>2. s[k] \in Nat
          BY <4>1, <1>4
        <4> QED BY <3>1, <4>2
      <3>2. CASE k > Len(u)
        <4>1. k - Len(u) \in 0 .. Len(v) /\ Len(u) \in 0 .. Len(u) /\ ~ (k <= Len(u))
          BY <3>2, <2>1, <1>3
        <4>2. s[Len(u)] \in Nat /\ t[k - Len(u)] \in Nat
          BY <4>1, <1>4
        <4> QED BY <4>1, <4>2
      <3> QED BY <3>1, <3>2, <2>1, <1>3
    <2> QED BY <2>2
  <1>7. r[0] = 0 /\ r[Len(w)] = s[Len(u)] + t[Len(v)]
    <2>1. CASE Len(v) = 0
      BY <2>1, <1>3, <1>4
    <2>2. CASE Len(v) > 0
      BY <2>2, <1>3, <1>4
    <2> QED BY <2>1, <2>2
  <1> HIDE DEF r
  <1>8. PartialSums(w, r)
    BY <1>5, <1>6, <1>7 DEF PartialSums
  <1>9. BlocksOf(w) = r[Len(w)]
    BY <1>3, <1>8, SumsAgree
  <1> QED BY <1>1, <1>2, <1>7, <1>9 DEF w

LEMMA BlocksOfOne ==
  ASSUME NEW m \in Methods
  PROVE  BlocksOf(<<m>>) = m.blocks
  <1> DEFINE t == [k \in 0 .. 1 |-> IF k = 0 THEN 0 ELSE m.blocks]
  <1>1. PartialSums(<<m>>, t)
    BY DEF PartialSums, Methods
  <1>2. BlocksOf(<<m>>) = t[1]
    BY <1>1, SumsAgree
  <1> QED BY <1>2

LEMMA BlocksAreNatural ==
  ASSUME NEW ms \in Seq(Methods)
  PROVE  BlocksOf(ms) \in Nat
  BY SumsExist, SumsAgree

-----------------------------------------------------------------------------
(* Sequences without repetitions, and what the history makes of them.       *)

Distinct(s) == \A i, j \in 1 .. Len(s) : s[i] = s[j] => i = j

LEMMA RemovedPlaces ==
  ASSUME NEW S, NEW s \in Seq(S), NEW p \in 1 .. Len(s)
  PROVE  /\ RemoveAt(s, p) \in Seq(S)
         /\ Len(RemoveAt(s, p)) = Len(s) - 1
         /\ \A i \in 1 .. Len(s) - 1 :
              RemoveAt(s, p)[i] = IF i < p THEN s[i] ELSE s[i + 1]
  <1> DEFINE u == SubSeq(s, 1, p - 1)
             v == SubSeq(s, p + 1, Len(s))
  <1>1. Len(s) \in Nat /\ p \in Nat /\ 1 <= p /\ p <= Len(s)
    OBVIOUS
  <1>2. /\ u \in Seq(S) /\ Len(u) = p - 1
        /\ \A i \in 1 .. p - 1 : u[i] = s[i]
    <2>1. \A i \in 1 .. p - 1 : i \in 1 .. Len(s)
      BY <1>1
    <2> QED BY <1>1, <2>1, SubSeqProperties
  <1>3. /\ v \in Seq(S) /\ Len(v) = Len(s) - p
        /\ \A i \in 1 .. Len(s) - p : v[i] = s[p + i]
    <2>1. CASE p = Len(s)
      <3>1. v = <<>>
        BY <1>1, <2>1
      <3> QED BY <1>1, <2>1, <3>1
    <2>2. CASE p < Len(s)
      <3>1. p + 1 \in 1 .. Len(s) /\ Len(s) \in 1 .. Len(s) /\ p + 1 <= Len(s)
        BY <1>1, <2>2
      <3>2. v \in Seq(S) /\ Len(v) = Len(s) - (p + 1) + 1
        BY <1>1, <3>1, SubSeqProperties
      <3>3. \A i \in 1 .. Len(v) : v[i] = s[(p + 1) + i - 1]
        BY <1>1, <3>1, SubSeqProperties
      <3> QED BY <1>1, <3>2, <3>3
    <2> QED BY <1>1, <2>1, <2>2
  <1> HIDE DEF u, v
  <1>4. /\ u \o v \in Seq(S) /\ Len(u \o v) = Len(s) - 1
        /\ \A i \in 1 .. Len(s) - 1 :
             (u \o v)[i] = IF i <= p - 1 THEN u[i] ELSE v[i - (p - 1)]
    <2>1. /\ u \o v \in Seq(S) /\ Len(u \o v) = Len(u) + Len(v)
          /\ \A i \in 1 .. Len(u) + Len(v) :
               (u \o v)[i] = IF i <= Len(u) THEN u[i] ELSE v[i - Len(u)]
      BY <1>2, <1>3, ConcatProperties
    <2>2. Len(u) + Len(v) = Len(s) - 1
      BY <1>1, <1>2, <1>3
    <2> QED BY <1>2, <2>1, <2>2
  <1>5. ASSUME NEW i \in 1 .. Len(s) - 1
        PROVE  (u \o v)[i] = IF i < p THEN s[i] ELSE s[i + 1]
    <2>1. i \in Int /\ p \in Int
      BY <1>1
    <2>2. CASE i < p
      <3>1. i \in 1 .. p - 1 /\ i <= p - 1
        BY <1>1, <2>2
      <3> QED BY <1>2, <1>4, <2>2, <3>1
    <2>3. CASE ~ (i < p)
      <3>1. /\ i - (p - 1) \in 1 .. Len(s) - p /\ ~ (i <= p - 1)
            /\ p + (i - (p - 1)) = i + 1
        BY <1>1, <2>3
      <3> QED BY <1>3, <1>4, <2>3, <3>1
    <2> QED BY <2>2, <2>3
  <1> QED BY <1>4, <1>5 DEF RemoveAt, u, v

\* A base moves from its place p to the end, or is added at the end.
LEMMA LatestPlaces ==
  ASSUME NEW o \in Seq(Bases), Distinct(o), NEW a \in Bases
  PROVE  /\ Latest(o, a) \in Seq(Bases) /\ Distinct(Latest(o, a))
         /\ \E p \in 1 .. Len(o) + 1 :
              /\ IF p <= Len(o) THEN o[p] = a /\ Len(Latest(o, a)) = Len(o)
                                ELSE /\ \A i \in 1 .. Len(o) : o[i] # a
                                     /\ Len(Latest(o, a)) = Len(o) + 1
              /\ \A i \in 1 .. Len(Latest(o, a)) - 1 :
                   Latest(o, a)[i] = IF i < p THEN o[i] ELSE o[i + 1]
              /\ Latest(o, a)[Len(Latest(o, a))] = a
  <1> DEFINE r == RemoveFirst(o, a)
             l == Append(r, a)
  <1>1. Latest(o, a) = l /\ Len(o) \in Nat
    BY DEF Latest
  <1>2. CASE \E i \in 1 .. Len(o) : o[i] = a
    <2> DEFINE I == {i \in 1 .. Len(o) : o[i] = a}
               p == Min(I)
    <2>1. I \in SUBSET Nat /\ I # {}
      BY <1>2
    <2>2. p \in I
      BY <2>1, MinOfSet
    <2>3. r = RemoveAt(o, p)
      BY <1>2, <2>1 DEF RemoveFirst, SelectInSeq
    <2> HIDE DEF r
    <2>4. p \in 1 .. Len(o) /\ o[p] = a
      BY <2>2
    <2> HIDE DEF p, I
    <2>5. /\ r \in Seq(Bases) /\ Len(r) = Len(o) - 1
          /\ \A i \in 1 .. Len(o) - 1 : r[i] = IF i < p THEN o[i] ELSE o[i + 1]
      BY <2>3, <2>4, RemovedPlaces
    <2>6. /\ l \in Seq(Bases) /\ Len(l) = Len(o) /\ l[Len(l)] = a
          /\ \A i \in 1 .. Len(o) - 1 : l[i] = r[i]
      BY <1>1, <2>4, <2>5, AppendProperties
    <2>7. \A i \in 1 .. Len(o) - 1 : l[i] = IF i < p THEN o[i] ELSE o[i + 1]
      BY <2>5, <2>6
    <2> HIDE DEF l
    <2>8. \A i \in 1 .. Len(o) - 1 : l[i] # a
      <3> TAKE i \in 1 .. Len(o) - 1
      <3>1. i \in 1 .. Len(o) /\ i + 1 \in 1 .. Len(o) /\ (i < p => i # p) /\ (~ (i < p) => i + 1 # p)
        BY <1>1, <2>4
      <3> QED BY <2>4, <2>7, <3>1 DEF Distinct
    <2>9. Distinct(l)
      <3> SUFFICES ASSUME NEW i \in 1 .. Len(o), NEW j \in 1 .. Len(o), l[i] = l[j]
                   PROVE  i = j
        BY <2>6 DEF Distinct
      <3>1. CASE i = Len(o) \/ j = Len(o)
        BY <1>1, <3>1, <2>6, <2>8
      <3>2. CASE i # Len(o) /\ j # Len(o)
        <4>1. /\ i \in 1 .. Len(o) - 1 /\ j \in 1 .. Len(o) - 1
              /\ i + 1 \in 1 .. Len(o) /\ j + 1 \in 1 .. Len(o)
          BY <1>1, <3>2
        <4>2. /\ l[i] = IF i < p THEN o[i] ELSE o[i + 1]
              /\ l[j] = IF j < p THEN o[j] ELSE o[j + 1]
          BY <2>7, <4>1
        <4>3. CASE i < p /\ j < p
          BY <4>1, <4>2, <4>3 DEF Distinct
        <4>4. CASE ~ (i < p) /\ ~ (j < p)
          <5>1. i + 1 = j + 1
            BY <4>1, <4>2, <4>4 DEF Distinct
          <5> QED BY <5>1
        <4>5. CASE i < p /\ ~ (j < p)
          <5>1. i = j + 1
            BY <4>1, <4>2, <4>5 DEF Distinct
          <5> QED BY <2>4, <4>5, <5>1
        <4>6. CASE ~ (i < p) /\ j < p
          <5>1. i + 1 = j
            BY <4>1, <4>2, <4>6 DEF Distinct
          <5> QED BY <2>4, <4>6, <5>1
        <4> QED BY <4>3, <4>4, <4>5, <4>6
      <3> QED BY <3>1, <3>2
    <2>10. p \in 1 .. Len(o) + 1 /\ p <= Len(o)
      BY <1>1, <2>4
    <2> QED BY <1>1, <2>4, <2>6, <2>7, <2>9, <2>10
  <1>3. CASE ~ \E i \in 1 .. Len(o) : o[i] = a
    <2>1. r = o
      BY <1>3 DEF RemoveFirst
    <2>2. /\ l \in Seq(Bases) /\ Len(l) = Len(o) + 1 /\ l[Len(l)] = a
          /\ \A i \in 1 .. Len(o) : l[i] = o[i]
      BY <2>1, AppendProperties
    <2> HIDE DEF l, r
    <2>3. Distinct(l)
      <3> SUFFICES ASSUME NEW i \in 1 .. Len(o) + 1, NEW j \in 1 .. Len(o) + 1, l[i] = l[j]
                   PROVE  i = j
        BY <2>2 DEF Distinct
      <3>1. \A k \in 1 .. Len(o) + 1 : k = Len(o) + 1 \/ k \in 1 .. Len(o)
        BY <1>1
      <3> QED BY <1>3, <2>2, <3>1 DEF Distinct
    <2> DEFINE p == Len(o) + 1
    <2>4. p \in 1 .. Len(o) + 1 /\ ~ (p <= Len(o))
      BY <1>1
    <2>5. \A i \in 1 .. Len(l) - 1 : i < p /\ i \in 1 .. Len(o)
      BY <1>1, <2>2
    <2> HIDE DEF p
    <2> QED BY <1>1, <1>3, <2>2, <2>3, <2>4, <2>5
  <1> QED BY <1>2, <1>3

-----------------------------------------------------------------------------
(* The inductive invariant.  The entries are the last bases of the history, *)
(* in its order; an entry says what memory says of its method.              *)

CacheType ==
  [methods : Seq(Methods), activeBlocks : Nat, active : Nat,
   phase : {"IDLE", "SIZE", "TRANSFER"}, allocBlocks : Nat, methodSize : Nat]

LastOf(ms, o) ==
  /\ Len(ms) <= Len(o)
  /\ \A i \in 1 .. Len(ms) : ms[i].address = o[Len(o) - Len(ms) + i]

Table(c, o) ==
  /\ c \in CacheType
  /\ o \in Seq(Bases) /\ Distinct(o)
  /\ Len(c.methods) \in 1 .. MaxMethods
  /\ \A i \in 1 .. Len(c.methods) : c.methods[i] = Method(c.methods[i].address)
  /\ LastOf(c.methods, o)
  /\ c.activeBlocks = BlocksOf(c.methods)
  /\ Len(c.methods) > 1 => BlocksOf(c.methods) <= NumBlocks
  /\ kind = "lru" => c.active = 0

\* No load is under way, and the pipeline executes the method at b.
Idle(c, o, b) ==
  /\ Table(c, o)
  /\ c.phase = "IDLE"
  /\ c.active < Len(c.methods)
  /\ ActiveMethod(c).address = b

\* The method at a is transferred.
Loading(c, o, a) ==
  /\ Table(c, o)
  /\ c.phase = "TRANSFER"
  /\ Last(c.methods) = Method(a)
  /\ c.allocBlocks = Method(a).blocks /\ c.methodSize = Method(a).words

CodeIInv ==
  /\ kind \in {"lru", "fifo"} /\ turn \in {"IF", "MW"}
  /\ disableIF \in BOOLEAN /\ fault \in BOOLEAN
  /\ base \in Bases /\ mw \in Instructions
  /\ turn = "MW" => disableIF
  /\ \/ Idle(cache, order, base)
     \/ Loading(cache, order, mw.to.base) /\ mw.op = "enter" /\ disableIF
     \/ Table(cache, order) /\ cache.phase = "SIZE" /\ fault

-----------------------------------------------------------------------------
(* The entries of a table.                                                  *)

LEMMA BlocksOfSize ==
  ASSUME NEW size \in Nat
  PROVE  BlocksFor(size) \in Nat
  <1> DEFINE r == (size - 1) % UnsignedSpan
  <1>1. UnsignedSpan \in Nat \ {0} /\ BlockWords \in Nat \ {0}
    BY MethodCacheAssumption
  <1>2. r \in Nat
    BY <1>1
  <1> HIDE DEF r
  <1>3. r \div BlockWords \in Nat
    BY <1>1, <1>2
  <1> QED BY <1>3 DEF BlocksFor, r

LEMMA MethodType ==
  ASSUME NEW a \in Bases
  PROVE  Method(a) \in Methods /\ Method(a).address = a
  <1>1. SizeAt[a] \in Nat
    BY MethodCacheAssumption DEF Bases
  <1> QED BY <1>1, BlocksOfSize DEF Method, Methods

LEMMA TableEntries ==
  ASSUME NEW c, NEW o, Table(c, o)
  PROVE  /\ c.methods \in Seq(Methods) /\ Len(c.methods) \in Nat \ {0}
         /\ DOMAIN c.methods = 1 .. Len(c.methods)
         /\ \A i \in 1 .. Len(c.methods) :
              c.methods[i] \in Methods /\ c.methods[i].address \in Bases
         /\ \A i, j \in 1 .. Len(c.methods) :
              c.methods[i].address = c.methods[j].address => i = j
  <1> DEFINE ms == c.methods
             shift == Len(o) - Len(ms)
  <1>1. ms \in Seq(Methods) /\ Len(ms) \in Nat \ {0} /\ DOMAIN ms = 1 .. Len(ms)
    <2>1. ms \in Seq(Methods) /\ Len(ms) # 0
      BY DEF Table, CacheType
    <2> QED BY <2>1, LenProperties
  <1> HIDE DEF ms
  <1>2. \A i \in 1 .. Len(ms) : ms[i] \in Methods
    BY <1>1
  <1>3. /\ o \in Seq(Bases) /\ Distinct(o) /\ shift \in Nat
        /\ \A i \in 1 .. Len(ms) : ms[i].address = o[shift + i]
    <2>1. o \in Seq(Bases) /\ Distinct(o) /\ Len(o) \in Nat
      BY DEF Table
    <2>2. /\ Len(ms) <= Len(o)
          /\ \A i \in 1 .. Len(ms) : ms[i].address = o[Len(o) - Len(ms) + i]
      BY DEF Table, LastOf, ms
    <2>3. shift \in Nat
      BY <1>1, <2>1, <2>2
    <2> QED BY <2>1, <2>2, <2>3
  <1>4. Len(o) \in Nat /\ shift + Len(ms) = Len(o)
    BY <1>1, <1>3
  <1> HIDE DEF shift
  <1>5. ASSUME NEW i \in 1 .. Len(ms), NEW j \in 1 .. Len(ms), ms[i].address = ms[j].address
        PROVE  i = j
    <2>1. shift + i \in 1 .. Len(o) /\ shift + j \in 1 .. Len(o)
      BY <1>1, <1>3, <1>4
    <2>2. shift + i = shift + j
      BY <1>3, <1>5, <2>1 DEF Distinct
    <2> QED BY <1>1, <1>3, <2>2
  <1> QED BY <1>1, <1>2, <1>5 DEF ms, Methods

LEMMA PositionOfEntry ==
  ASSUME NEW c, NEW o, Table(c, o), NEW a, Resident(c, a)
  PROVE  /\ Position(c, a) \in 1 .. Len(c.methods)
         /\ c.methods[Position(c, a)].address = a
  BY TableEntries DEF Position, Resident

\* A table of one entry, whose method the history names last.
LEMMA OneEntry ==
  ASSUME NEW c \in CacheType, NEW a \in Bases, NEW o \in Seq(Bases), Distinct(o),
         Len(o) > 0, o[Len(o)] = a,
         c.methods = <<Method(a)>>, c.activeBlocks = Method(a).blocks, c.active = 0
  PROVE  Table(c, o) /\ ActiveMethod(c).address = a
  <1>1. Method(a) \in Methods /\ Method(a).address = a
    BY MethodType
  <1>2. Len(c.methods) = 1 /\ c.methods[1] = Method(a) /\ 1 \in 1 .. MaxMethods
    BY MethodCacheAssumption
  <1>3. BlocksOf(c.methods) = c.activeBlocks
    BY <1>1, BlocksOfOne
  <1>4. LastOf(c.methods, o)
    <2>1. Len(o) \in Nat /\ Len(o) - 1 + 1 = Len(o)
      OBVIOUS
    <2> QED BY <1>1, <1>2, <2>1 DEF LastOf
  <1> QED BY <1>1, <1>2, <1>3, <1>4 DEF Table, ActiveMethod

-----------------------------------------------------------------------------
(* What the functions of the cache do to the table.                         *)

LEMMA BlocksSplit ==
  ASSUME NEW ms \in Seq(Methods), NEW n \in 0 .. Len(ms)
  PROVE  /\ SubSeq(ms, 1, n) \in Seq(Methods)
         /\ SubSeq(ms, n + 1, Len(ms)) \in Seq(Methods)
         /\ Len(SubSeq(ms, n + 1, Len(ms))) = Len(ms) - n
         /\ \A i \in 1 .. Len(ms) - n : SubSeq(ms, n + 1, Len(ms))[i] = ms[n + i]
         /\ BlocksOf(ms) =
              BlocksOf(SubSeq(ms, 1, n)) + BlocksOf(SubSeq(ms, n + 1, Len(ms)))
  <1> DEFINE u == SubSeq(ms, 1, n)
             v == SubSeq(ms, n + 1, Len(ms))
  <1>1. Len(ms) \in Nat /\ n \in Nat /\ n <= Len(ms)
    OBVIOUS
  <1>2. u \in Seq(Methods) /\ Len(u) = n /\ \A i \in 1 .. n : u[i] = ms[i]
    <2>1. \A i \in 1 .. n : i \in 1 .. Len(ms)
      BY <1>1
    <2> QED BY <1>1, <2>1, SubSeqProperties
  <1>3. /\ v \in Seq(Methods) /\ Len(v) = Len(ms) - n
        /\ \A i \in 1 .. Len(ms) - n : v[i] = ms[n + i]
    <2>1. CASE n = Len(ms)
      <3>1. v = <<>>
        BY <1>1, <2>1
      <3> QED BY <1>1, <2>1, <3>1
    <2>2. CASE n < Len(ms)
      <3>1. n + 1 \in 1 .. Len(ms) /\ Len(ms) \in 1 .. Len(ms) /\ n + 1 <= Len(ms)
        BY <1>1, <2>2
      <3>2. v \in Seq(Methods) /\ Len(v) = Len(ms) - (n + 1) + 1
        BY <1>1, <3>1, SubSeqProperties
      <3>3. \A i \in 1 .. Len(v) : v[i] = ms[(n + 1) + i - 1]
        BY <1>1, <3>1, SubSeqProperties
      <3> QED BY <1>1, <3>2, <3>3
    <2> QED BY <1>1, <2>1, <2>2
  <1> HIDE DEF u, v
  <1>4. u \o v = ms
    <2>1. /\ u \o v \in Seq(Methods) /\ Len(u \o v) = Len(u) + Len(v)
          /\ \A i \in 1 .. Len(u) + Len(v) :
               (u \o v)[i] = IF i <= Len(u) THEN u[i] ELSE v[i - Len(u)]
      BY <1>2, <1>3, ConcatProperties
    <2>2. Len(u) + Len(v) = Len(ms)
      BY <1>1, <1>2, <1>3
    <2>3. ASSUME NEW i \in 1 .. Len(ms) PROVE (u \o v)[i] = ms[i]
      <3>1. CASE i <= n
        BY <1>1, <1>2, <2>1, <2>2, <3>1
      <3>2. CASE ~ (i <= n)
        <4>1. i - n \in 1 .. Len(ms) - n /\ n + (i - n) = i
          BY <1>1, <3>2
        <4> QED BY <1>2, <1>3, <2>1, <2>2, <3>2, <4>1
      <3> QED BY <3>1, <3>2
    <2> QED BY <2>1, <2>2, <2>3, SeqEqual
  <1>5. BlocksOf(ms) = BlocksOf(u) + BlocksOf(v)
    BY <1>2, <1>3, <1>4, BlocksOfConcat
  <1> QED BY <1>2, <1>3, <1>5 DEF u, v

LEMMA BlocksAppended ==
  ASSUME NEW ms \in Seq(Methods), NEW m \in Methods
  PROVE  BlocksOf(Append(ms, m)) = BlocksOf(ms) + m.blocks
  <1>1. Append(ms, m) = ms \o <<m>> /\ <<m>> \in Seq(Methods)
    BY AppendIsConcat
  <1> QED BY <1>1, BlocksOfConcat, BlocksOfOne

\* Moving an entry to the end keeps the blocks.
LEMMA BlocksMoved ==
  ASSUME NEW ms \in Seq(Methods), NEW i \in 1 .. Len(ms)
  PROVE  BlocksOf(Append(RemoveAt(ms, i), ms[i])) = BlocksOf(ms)
  <1> DEFINE u == SubSeq(ms, 1, i - 1)
             v == SubSeq(ms, i, Len(ms))
             w == SubSeq(ms, i + 1, Len(ms))
  <1>1. Len(ms) \in Nat /\ i - 1 \in 0 .. Len(ms) /\ i \in 0 .. Len(ms) /\ (i - 1) + 1 = i
    OBVIOUS
  <1>2. /\ u \in Seq(Methods) /\ v \in Seq(Methods) /\ Len(v) = Len(ms) - (i - 1)
        /\ \A k \in 1 .. Len(ms) - (i - 1) : v[k] = ms[i - 1 + k]
        /\ BlocksOf(ms) = BlocksOf(u) + BlocksOf(v)
    BY <1>1, BlocksSplit
  <1>3. /\ w \in Seq(Methods) /\ Len(w) = Len(ms) - i
        /\ \A k \in 1 .. Len(ms) - i : w[k] = ms[i + k]
    BY <1>1, BlocksSplit
  <1>4. ms[i] \in Methods
    OBVIOUS
  <1> HIDE DEF u, v, w
  <1>5. v = <<ms[i]>> \o w
    <2> DEFINE x == <<ms[i]>>
    <2>1. x \in Seq(Methods) /\ Len(x) = 1 /\ x[1] = ms[i]
      BY <1>4
    <2> HIDE DEF x
    <2>2. /\ x \o w \in Seq(Methods) /\ Len(x \o w) = 1 + Len(w)
          /\ \A k \in 1 .. 1 + Len(w) :
               (x \o w)[k] = IF k <= 1 THEN x[k] ELSE w[k - 1]
      <3>1. /\ x \o w \in Seq(Methods) /\ Len(x \o w) = Len(x) + Len(w)
            /\ \A k \in 1 .. Len(x) + Len(w) :
                 (x \o w)[k] = IF k <= Len(x) THEN x[k] ELSE w[k - Len(x)]
        BY <1>3, <2>1, ConcatProperties
      <3> QED BY <2>1, <3>1
    <2>3. 1 + Len(w) = Len(v)
      BY <1>1, <1>2, <1>3
    <2>4. ASSUME NEW k \in 1 .. Len(v) PROVE (x \o w)[k] = v[k]
      <3>1. CASE k = 1
        <4>1. (x \o w)[1] = ms[i]
          BY <2>1, <2>2, <2>3, <3>1
        <4>2. v[1] = ms[i]
          BY <1>1, <1>2, <3>1
        <4> QED BY <3>1, <4>1, <4>2
      <3>2. CASE k # 1
        <4>1. k - 1 \in 1 .. Len(ms) - i /\ ~ (k <= 1) /\ i + (k - 1) = i - 1 + k
          BY <1>1, <1>2, <3>2
        <4>2. (x \o w)[k] = w[k - 1]
          BY <2>2, <2>3, <4>1
        <4>3. v[k] = ms[i - 1 + k]
          BY <1>2
        <4> QED BY <1>3, <4>1, <4>2, <4>3
      <3> QED BY <3>1, <3>2
    <2>5. x \o w = v
      BY <1>2, <2>2, <2>3, <2>4, SeqEqual
    <2> QED BY <2>5 DEF x
  <1>6. BlocksOf(v) = ms[i].blocks + BlocksOf(w)
    <2> DEFINE x == <<ms[i]>>
    <2>1. x \in Seq(Methods) /\ BlocksOf(x) = ms[i].blocks
      BY <1>4, BlocksOfOne
    <2> HIDE DEF x
    <2>2. BlocksOf(x \o w) = BlocksOf(x) + BlocksOf(w)
      BY <1>3, <2>1, BlocksOfConcat
    <2> QED BY <1>5, <2>1, <2>2 DEF x
  <1>7. RemoveAt(ms, i) = u \o w
    BY DEF RemoveAt, u, w
  <1>8. u \o w \in Seq(Methods) /\ BlocksOf(u \o w) = BlocksOf(u) + BlocksOf(w)
    BY <1>2, <1>3, BlocksOfConcat
  <1>9. BlocksOf(Append(u \o w, ms[i])) = BlocksOf(u \o w) + ms[i].blocks
    BY <1>4, <1>8, BlocksAppended
  <1>10. BlocksOf(u) \in Nat /\ BlocksOf(w) \in Nat /\ ms[i].blocks \in Nat
    BY <1>2, <1>3, <1>4, BlocksAreNatural DEF Methods
  <1> QED BY <1>2, <1>6, <1>7, <1>8, <1>9, <1>10

\* Flushing keeps the active method only.
LEMMA FlushKeepsIdle ==
  ASSUME kind \in {"lru", "fifo"}, NEW c, NEW o, NEW b \in Bases, Idle(c, o, b)
  PROVE  Idle(Flush(c), AfterFlush(o, c), b)
  <1>1. CASE Len(c.methods) < 2
    BY <1>1 DEF Flush, AfterFlush
  <1>2. CASE ~ (Len(c.methods) < 2)
    <2> DEFINE m == ActiveMethod(c)
               d == [c EXCEPT !.methods = <<m>>, !.activeBlocks = m.blocks, !.active = 0]
               l == Latest(o, b)
    <2>1. Table(c, o) /\ c \in CacheType /\ o \in Seq(Bases) /\ Distinct(o)
      BY DEF Idle, Table
    <2>2. Len(c.methods) - c.active \in 1 .. Len(c.methods)
      BY <2>1, TableEntries DEF Idle, CacheType
    <2>3. m = Method(b) /\ m \in Methods
      BY <2>1, <2>2, TableEntries DEF Idle, Table, ActiveMethod
    <2>4. Flush(c) = d /\ AfterFlush(o, c) = l
      BY <1>2 DEF Flush, AfterFlush, Idle
    <2> HIDE DEF m
    <2>5. d \in CacheType /\ d.phase = "IDLE"
      <3>1. <<m>> \in Seq(Methods) /\ m.blocks \in Nat /\ c.phase = "IDLE"
        BY <2>3 DEF Methods, Idle
      <3> HIDE DEF Methods
      <3> QED BY <2>1, <3>1 DEF CacheType
    <2>6. l \in Seq(Bases) /\ Distinct(l) /\ Len(l) > 0 /\ l[Len(l)] = b
      <3> HIDE DEF l
      <3>1. l \in Seq(Bases) /\ Distinct(l)
        BY <2>1, LatestPlaces DEF l
      <3>2. PICK p \in 1 .. Len(o) + 1 :
              /\ IF p <= Len(o) THEN Len(l) = Len(o) ELSE Len(l) = Len(o) + 1
              /\ l[Len(l)] = b
        BY <2>1, LatestPlaces DEF l
      <3> QED BY <2>1, <3>1, <3>2
    <2>7. d.methods = <<Method(b)>> /\ d.activeBlocks = Method(b).blocks /\ d.active = 0
      BY <2>1, <2>3 DEF CacheType
    <2> HIDE DEF d, l
    <2>8. Table(d, l) /\ ActiveMethod(d).address = b
      BY <2>5, <2>6, <2>7, OneEntry
    <2> QED BY <2>4, <2>5, <2>7, <2>8 DEF Idle
  <1> QED BY <1>1, <1>2

\* A hit makes the method the active one, and the youngest under LRU.
LEMMA HitKeepsIdle ==
  ASSUME kind \in {"lru", "fifo"}, NEW c, NEW o, NEW b \in Bases, Idle(c, o, b),
         NEW a \in Bases, Resident(c, a)
  PROVE  Idle(Activate(Hit(c, a), a), IF kind = "lru" THEN Latest(o, a) ELSE o, a)
  <1> DEFINE ms == c.methods
             i == Position(c, a)
  <1>1. /\ Table(c, o) /\ c \in CacheType /\ o \in Seq(Bases) /\ Distinct(o)
        /\ c.phase = "IDLE" /\ Len(ms) \in 1 .. MaxMethods
        /\ c.activeBlocks = BlocksOf(ms)
        /\ Len(ms) > 1 => BlocksOf(ms) <= NumBlocks
        /\ \A j \in 1 .. Len(ms) : ms[j] = Method(ms[j].address)
        /\ LastOf(ms, o)
    BY DEF Idle, Table
  <1>2. i \in 1 .. Len(ms) /\ ms[i].address = a
    BY <1>1, PositionOfEntry
  <1>3. ms \in Seq(Methods) /\ Len(ms) \in Nat \ {0} /\ Len(o) \in Nat
    BY <1>1, TableEntries
  <1>4. CASE kind = "fifo"
    <2> DEFINE d == [c EXCEPT !.active = Len(ms) - i]
    <2>1. Activate(Hit(c, a), a) = d
      BY <1>4 DEF Activate, Hit
    <2>2. d \in CacheType /\ d.methods = ms /\ d.activeBlocks = c.activeBlocks
            /\ d.phase = "IDLE" /\ d.active = Len(ms) - i
      BY <1>1, <1>2, <1>3 DEF CacheType
    <2> HIDE DEF d, i, ms
    <2>3. Table(d, o)
      BY <1>1, <1>4, <2>2 DEF Table
    <2>4. Len(ms) - (Len(ms) - i) = i /\ Len(ms) - i < Len(ms)
      BY <1>2, <1>3
    <2>5. ActiveMethod(d).address = a
      BY <1>2, <2>2, <2>4 DEF ActiveMethod
    <2> QED BY <1>4, <2>1, <2>2, <2>3, <2>4, <2>5 DEF Idle
  <1>5. CASE kind = "lru"
    <2> DEFINE ns == Append(RemoveAt(ms, i), ms[i])
               d == [c EXCEPT !.methods = ns, !.active = 0]
               l == Latest(o, a)
               shift == Len(o) - Len(ms)
    <2>1. Activate(Hit(c, a), a) = d
      BY <1>5 DEF Activate, Hit
    <2>2. /\ RemoveAt(ms, i) \in Seq(Methods)
          /\ Len(RemoveAt(ms, i)) = Len(ms) - 1
          /\ \A j \in 1 .. Len(ms) - 1 :
               RemoveAt(ms, i)[j] = IF j < i THEN ms[j] ELSE ms[j + 1]
      BY <1>2, <1>3, RemovedPlaces
    <2>3. /\ ns \in Seq(Methods) /\ Len(ns) = Len(ms) /\ ns[Len(ms)] = ms[i]
          /\ \A j \in 1 .. Len(ms) - 1 : ns[j] = IF j < i THEN ms[j] ELSE ms[j + 1]
      <3>1. ms[i] \in Methods
        BY <1>2, <1>3
      <3> HIDE DEF i, ms
      <3> QED BY <1>3, <2>2, <3>1, AppendProperties
    <2>4. BlocksOf(ns) = BlocksOf(ms)
      BY <1>2, <1>3, BlocksMoved
    <2> HIDE DEF ns, i
    <2>5. d \in CacheType /\ d.methods = ns /\ d.activeBlocks = c.activeBlocks
            /\ d.phase = "IDLE" /\ d.active = 0
      BY <1>1, <2>3 DEF CacheType
    <2> HIDE DEF d, ms
    <2>6. /\ l \in Seq(Bases) /\ Distinct(l)
      BY <1>1, LatestPlaces
    <2>7. /\ Len(ms) <= Len(o) /\ shift \in Nat
          /\ \A j \in 1 .. Len(ms) : ms[j].address = o[shift + j]
      BY <1>1, <1>3 DEF LastOf
    <2>8. PICK p \in 1 .. Len(o) + 1 :
            /\ IF p <= Len(o) THEN o[p] = a /\ Len(l) = Len(o)
                              ELSE /\ \A j \in 1 .. Len(o) : o[j] # a
                                   /\ Len(l) = Len(o) + 1
            /\ \A j \in 1 .. Len(l) - 1 : l[j] = IF j < p THEN o[j] ELSE o[j + 1]
            /\ l[Len(l)] = a
      BY <1>1, LatestPlaces
    <2> HIDE DEF l, shift
    <2>9. shift + Len(ms) = Len(o) /\ shift + i \in 1 .. Len(o) /\ o[shift + i] = a
      BY <1>2, <1>3, <2>7 DEF shift
    <2>10. p = shift + i /\ Len(l) = Len(o)
      BY <1>1, <1>3, <2>8, <2>9 DEF Distinct
    <2>11. ASSUME NEW j \in 1 .. Len(ns)
           PROVE  ns[j] = Method(ns[j].address) /\ ns[j].address = l[shift + j]
      <3>1. CASE j = Len(ms)
        BY <1>1, <1>2, <2>3, <2>8, <2>9, <2>10, <3>1
      <3>2. CASE j # Len(ms)
        <4>1. /\ j \in 1 .. Len(ms) - 1 /\ j \in 1 .. Len(ms) /\ j + 1 \in 1 .. Len(ms)
              /\ shift + j \in 1 .. Len(l) - 1 /\ (shift + j) + 1 = shift + (j + 1)
              /\ j < i <=> shift + j < p
          BY <1>2, <1>3, <2>3, <2>7, <2>9, <2>10, <3>2
        <4>2. ns[j] = IF j < i THEN ms[j] ELSE ms[j + 1]
          BY <2>3, <4>1
        <4>3. l[shift + j] = IF j < i THEN o[shift + j] ELSE o[shift + (j + 1)]
          BY <2>8, <4>1
        <4>4. CASE j < i
          BY <1>1, <2>7, <4>1, <4>2, <4>3, <4>4
        <4>5. CASE ~ (j < i)
          BY <1>1, <2>7, <4>1, <4>2, <4>3, <4>5
        <4> QED BY <4>4, <4>5
      <3> QED BY <3>1, <3>2
    <2>12. LastOf(d.methods, l)
      BY <1>3, <2>3, <2>5, <2>7, <2>10, <2>11 DEF LastOf, shift
    <2>13. Table(d, l)
      BY <1>1, <2>3, <2>4, <2>5, <2>6, <2>11, <2>12 DEF Table
    <2>14. ActiveMethod(d).address = a /\ d.active < Len(d.methods)
      BY <1>2, <1>3, <2>3, <2>5 DEF ActiveMethod
    <2> QED BY <1>5, <2>1, <2>5, <2>13, <2>14 DEF Idle, l
  <1> QED BY <1>4, <1>5

\* The entries thrown out: as few as leave enough blocks and a tag.
LEMMA EvictionsProperties ==
  ASSUME NEW c, NEW o, Table(c, o), NEW blocks \in 1 .. NumBlocks
  PROVE  /\ Evictions(c, blocks) \in 0 .. Len(c.methods)
         /\ BlocksFit(c, blocks, Evictions(c, blocks))
         /\ Len(c.methods) - Evictions(c, blocks) < MaxMethods
         /\ \A n \in 0 .. Evictions(c, blocks) - 1 :
              ~ BlocksFit(c, blocks, n) \/ Len(c.methods) - n >= MaxMethods
  <1> DEFINE ms == c.methods
             T == {n \in 0 .. Len(ms) : BlocksFit(c, blocks, n) /\ Len(ms) - n < MaxMethods}
  <1>1. ms \in Seq(Methods) /\ Len(ms) \in Nat /\ MaxMethods \in Nat \ {0} /\ NumBlocks \in Nat
    BY TableEntries, MethodCacheAssumption
  <1> HIDE DEF ms
  <1>2. Len(ms) \in T
    <2>1. SubSeq(ms, 1, Len(ms)) = ms
      BY <1>1, SubSeqFull
    <2>2. BlocksOf(ms) \in Nat /\ c.activeBlocks = BlocksOf(ms)
      BY <1>1, BlocksAreNatural DEF Table, ms
    <2>3. BlocksFit(c, blocks, Len(ms))
      <3> HIDE DEF T
      <3>1. c.activeBlocks - BlocksOf(SubSeq(ms, 1, Len(ms))) = 0
        <4>1. BlocksOf(SubSeq(ms, 1, Len(ms))) = BlocksOf(ms)
          BY <2>1, Zenon
        <4>2. BlocksOf(ms) - BlocksOf(ms) = 0
          BY <2>2
        <4> QED BY <2>2, <4>1, <4>2, Zenon
      <3>2. 0 + blocks <= NumBlocks
        BY <1>1
      <3> QED BY <3>1, <3>2 DEF BlocksFit, ms
    <2> QED BY <1>1, <2>3
  <1>3. T \in SUBSET Nat /\ T # {}
    BY <1>2
  <1>4. Evictions(c, blocks) = Min(T)
    BY DEF Evictions, ms
  <1>5. Min(T) \in T /\ \A n \in T : Min(T) <= n
    BY <1>3, MinOfSet
  <1> DEFINE e == Evictions(c, blocks)
  <1> HIDE DEF e
  <1>6. e \in T /\ \A n \in T : e <= n
    BY <1>4, <1>5 DEF e
  <1>7. \A n \in 0 .. e - 1 : ~ BlocksFit(c, blocks, n) \/ Len(ms) - n >= MaxMethods
    <2> TAKE n \in 0 .. e - 1
    <2>1. n \notin T /\ n \in 0 .. Len(ms) /\ Len(ms) - n \in Int
      BY <1>1, <1>6
    <2> QED BY <1>1, <2>1
  <1> QED BY <1>6, <1>7 DEF e, ms

\* The entry of a method that was not there.
LEMMA AllocateLoads ==
  ASSUME kind \in {"lru", "fifo"}, NEW c, NEW o, NEW b \in Bases, Idle(c, o, b),
         NEW a \in Bases, ~ Resident(c, a), ~ TooLarge(a)
  PROVE  Loading(Allocate(c, a), Latest(o, a), a)
  <1> DEFINE ms == c.methods
             m == Method(a)
             n == Evictions(c, m.blocks)
             kept == SubSeq(ms, n + 1, Len(ms))
             ns == Append(kept, m)
             gone == BlocksOf(SubSeq(ms, 1, n))
             d == Allocate(c, a)
             l == Latest(o, a)
             shift == Len(o) - Len(ms)
  <1>1. /\ Table(c, o) /\ c \in CacheType /\ o \in Seq(Bases) /\ Distinct(o)
        /\ c.activeBlocks = BlocksOf(ms)
        /\ \A j \in 1 .. Len(ms) : ms[j] = Method(ms[j].address)
        /\ LastOf(ms, o)
    BY DEF Idle, Table
  <1>2. ms \in Seq(Methods) /\ Len(ms) \in Nat \ {0} /\ Len(o) \in Nat
          /\ MaxMethods \in Nat \ {0} /\ NumBlocks \in Nat
    BY <1>1, TableEntries, MethodCacheAssumption
  <1>3. m \in Methods /\ m.address = a /\ m.blocks \in 1 .. NumBlocks /\ m.blocks \in Nat
          /\ m.words \in Nat
    BY MethodType DEF TooLarge, Method, Methods
  <1>4. /\ n \in 0 .. Len(ms)
        /\ BlocksFit(c, m.blocks, n) /\ Len(ms) - n < MaxMethods
    BY <1>1, <1>3, EvictionsProperties
  <1> HIDE DEF m
  <1>5. /\ SubSeq(ms, 1, n) \in Seq(Methods) /\ kept \in Seq(Methods)
        /\ Len(kept) = Len(ms) - n
        /\ \A i \in 1 .. Len(ms) - n : kept[i] = ms[n + i]
        /\ BlocksOf(ms) = gone + BlocksOf(kept)
    <2> HIDE DEF n, ms
    <2> QED BY <1>2, <1>4, BlocksSplit
  <1>6. gone \in Nat /\ BlocksOf(kept) \in Nat
    BY <1>5, BlocksAreNatural
  <1>7. /\ ns \in Seq(Methods) /\ Len(ns) = Len(ms) - n + 1 /\ ns[Len(ns)] = m
        /\ \A i \in 1 .. Len(ms) - n : ns[i] = ms[n + i]
        /\ BlocksOf(ns) = BlocksOf(kept) + m.blocks
    <2> HIDE DEF kept, n, ms
    <2>1. /\ ns \in Seq(Methods) /\ Len(ns) = Len(kept) + 1
          /\ \A i \in 1 .. Len(kept) : ns[i] = kept[i]
          /\ ns[Len(kept) + 1] = m
      BY <1>3, <1>5, AppendProperties
    <2>2. BlocksOf(ns) = BlocksOf(kept) + m.blocks
      BY <1>3, <1>5, BlocksAppended
    <2> QED BY <1>5, <2>1, <2>2
  <1>8. c.activeBlocks - gone + m.blocks = BlocksOf(ns) /\ BlocksOf(ns) <= NumBlocks
          /\ BlocksOf(ns) \in Nat
    <2>1. c.activeBlocks - gone + m.blocks <= NumBlocks
      BY <1>4 DEF BlocksFit
    <2> HIDE DEF gone, ns, kept, n, ms
    <2> QED BY <1>1, <1>3, <1>5, <1>6, <1>7, <2>1
  <1>9. d = [c EXCEPT !.methods = ns, !.activeBlocks = c.activeBlocks - gone + m.blocks,
                      !.phase = "TRANSFER", !.allocBlocks = m.blocks,
                      !.methodSize = m.words]
    BY DEF Allocate, m
  <1> HIDE DEF d, ns, gone, kept, n
  <1>10. /\ d \in CacheType /\ d.methods = ns /\ d.activeBlocks = BlocksOf(ns)
         /\ d.phase = "TRANSFER" /\ d.allocBlocks = m.blocks /\ d.methodSize = m.words
         /\ d.active = c.active
    BY <1>1, <1>3, <1>7, <1>8, <1>9 DEF CacheType
  <1> HIDE DEF ms
  <1>11. l \in Seq(Bases) /\ Distinct(l)
    BY <1>1, LatestPlaces
  <1>12. /\ Len(ms) <= Len(o) /\ shift \in Nat
         /\ \A j \in 1 .. Len(ms) : ms[j].address = o[shift + j]
    BY <1>1, <1>2 DEF LastOf
  <1>13. PICK p \in 1 .. Len(o) + 1 :
           /\ IF p <= Len(o) THEN o[p] = a /\ Len(l) = Len(o)
                             ELSE /\ \A j \in 1 .. Len(o) : o[j] # a
                                  /\ Len(l) = Len(o) + 1
           /\ \A j \in 1 .. Len(l) - 1 : l[j] = IF j < p THEN o[j] ELSE o[j + 1]
           /\ l[Len(l)] = a
    BY <1>1, LatestPlaces
  <1> HIDE DEF l, shift
  <1>14. shift + Len(ms) = Len(o)
    BY <1>2 DEF shift
  <1>15. p <= shift \/ p = Len(o) + 1
    <2> SUFFICES ASSUME p > shift, p <= Len(o) PROVE FALSE
      <3>1. p \in Nat /\ shift \in Nat /\ Len(o) \in Nat /\ p <= Len(o) + 1
        BY <1>2, <1>12
      <3> QED BY <3>1
    <2>1. p - shift \in 1 .. Len(ms) /\ shift + (p - shift) = p
      BY <1>2, <1>12, <1>13, <1>14
    <2>2. ms[p - shift].address = a /\ DOMAIN ms = 1 .. Len(ms)
      BY <1>2, <1>12, <1>13, <2>1
    <2> QED BY <2>1, <2>2 DEF Resident, ms
  <1>16. /\ Len(ns) <= Len(l)
         /\ \A i \in 1 .. Len(ns) : ns[i] = Method(ns[i].address)
                                    /\ ns[i].address = l[Len(l) - Len(ns) + i]
    <2>1. Len(ns) <= Len(l) /\ Len(ns) \in Nat /\ Len(l) \in Nat
      <3>1. n \in Nat /\ n <= Len(ms) /\ Len(ns) = Len(ms) - n + 1
        BY <1>2, <1>4, <1>7
      <3>2. CASE p <= Len(o)
        <4>1. p <= shift /\ Len(l) = Len(o)
          BY <1>2, <1>13, <1>15, <3>2
        <4>2. p \in Nat /\ p >= 1
          BY <1>2
        <4>3. Len(ms) + 1 <= Len(o)
          BY <1>2, <1>12, <1>14, <4>1, <4>2
        <4> QED BY <1>2, <3>1, <4>1, <4>3
      <3>3. CASE ~ (p <= Len(o))
        <4>1. Len(l) = Len(o) + 1
          BY <1>13, <3>3
        <4> QED BY <1>2, <1>12, <3>1, <4>1
      <3> QED BY <3>2, <3>3
    <2>2. ASSUME NEW i \in 1 .. Len(ns)
          PROVE  ns[i] = Method(ns[i].address) /\ ns[i].address = l[Len(l) - Len(ns) + i]
      <3>1. CASE i = Len(ns)
        <4>1. Len(l) - Len(ns) + i = Len(l)
          BY <2>1, <3>1
        <4> QED BY <1>3, <1>7, <1>13, <3>1, <4>1 DEF m
      <3>2. CASE i # Len(ns)
        <4> DEFINE k == Len(l) - Len(ns) + i
        <4>1. /\ i \in 1 .. Len(ms) - n /\ n + i \in 1 .. Len(ms) /\ shift + (n + i) \in Nat
              /\ k \in 1 .. Len(l) - 1
              /\ p <= Len(o) => k = shift + (n + i) - 1 /\ k + 1 = shift + (n + i)
                                  /\ ~ (k < p)
              /\ ~ (p <= Len(o)) => k = shift + (n + i) /\ k < p
          <5>1. /\ n \in Nat /\ n <= Len(ms) /\ Len(ns) = Len(ms) - n + 1
                /\ i \in Nat /\ i >= 1 /\ i < Len(ns)
                /\ p \in Nat /\ p >= 1 /\ p <= Len(o) + 1
            BY <1>2, <1>4, <1>7, <2>1, <3>2
          <5>2. i \in 1 .. Len(ms) - n /\ n + i \in 1 .. Len(ms) /\ shift + (n + i) \in Nat
                  /\ k \in 1 .. Len(l) - 1
            BY <1>2, <1>12, <2>1, <5>1
          <5>3. p <= Len(o) => k = shift + (n + i) - 1 /\ k + 1 = shift + (n + i) /\ ~ (k < p)
            <6> SUFFICES ASSUME p <= Len(o)
                         PROVE  k = shift + (n + i) - 1 /\ k + 1 = shift + (n + i) /\ ~ (k < p)
              OBVIOUS
            <6>1. Len(l) = Len(o) /\ p <= shift
              BY <1>2, <1>13, <1>15
            <6>2. k = shift + (n + i) - 1
              BY <1>2, <1>12, <1>14, <5>1, <6>1
            <6> QED BY <1>12, <5>1, <5>2, <6>1, <6>2
          <5>4. ~ (p <= Len(o)) => k = shift + (n + i) /\ k < p
            <6> SUFFICES ASSUME ~ (p <= Len(o)) PROVE k = shift + (n + i) /\ k < p
              OBVIOUS
            <6>1. Len(l) = Len(o) + 1 /\ p = Len(o) + 1
              BY <1>2, <1>13, <5>1
            <6>2. k = shift + (n + i)
              <7>1. /\ shift \in Nat /\ Len(o) \in Nat /\ Len(ms) \in Nat /\ i \in Nat
                    /\ n \in Nat
                BY <1>2, <1>12, <5>1
              <7>2. Len(l) - Len(ns) = shift + n
                BY <1>14, <5>1, <6>1, <7>1
              <7> QED BY <7>1, <7>2
            <6> QED BY <1>2, <5>2, <6>1, <6>2
          <5> QED BY <5>2, <5>3, <5>4
        <4> HIDE DEF k
        <4>2. l[k] = o[shift + (n + i)]
          BY <1>13, <4>1
        <4>3. ns[i] = ms[n + i]
          BY <1>7, <4>1
        <4> QED BY <1>1, <1>12, <4>1, <4>2, <4>3 DEF k, ms
      <3> QED BY <3>1, <3>2
    <2> QED BY <2>1, <2>2
  <1>17. Len(ns) \in 1 .. MaxMethods
    BY <1>2, <1>4, <1>7
  <1>18. Table(d, l)
    <2>1. LastOf(d.methods, l)
      BY <1>10, <1>16 DEF LastOf
    <2>2. kind = "lru" => d.active = 0
      BY <1>1, <1>10 DEF Table
    <2> QED BY <1>8, <1>10, <1>11, <1>16, <1>17, <2>1, <2>2 DEF Table
  <1>19. Last(d.methods) = m
    BY <1>7, <1>10 DEF Last
  <1> QED BY <1>10, <1>18, <1>19 DEF Loading, d, l, m

\* When the transfer is done, the method is the active one.
LEMMA TransferEnds ==
  ASSUME kind \in {"lru", "fifo"}, NEW c, NEW o, NEW a \in Bases, Loading(c, o, a)
  PROVE  Idle(Activate(TransferDone(c), a), o, a)
  <1> DEFINE ms == c.methods
             d == [c EXCEPT !.phase = "IDLE", !.allocBlocks = 0, !.methodSize = 0]
             e == [d EXCEPT !.active = 0]
  <1>1. /\ Table(c, o) /\ c \in CacheType
        /\ ms \in Seq(Methods) /\ Len(ms) \in Nat \ {0}
        /\ DOMAIN ms = 1 .. Len(ms)
        /\ ms[Len(ms)].address = a
    BY TableEntries, MethodType DEF Loading, Table, Last
  <1>2. /\ d \in CacheType /\ d.methods = ms /\ d.activeBlocks = c.activeBlocks
        /\ d.phase = "IDLE" /\ d.active = c.active
    BY <1>1 DEF CacheType
  <1>3. /\ e \in CacheType /\ e.methods = ms /\ e.activeBlocks = c.activeBlocks
        /\ e.phase = "IDLE" /\ e.active = 0
    BY <1>2 DEF CacheType
  <1>4. Position(d, a) = Len(ms)
    <2>1. \A i \in 1 .. Len(ms) : ms[i].address = a => i = Len(ms)
      BY <1>1, TableEntries
    <2>2. \E i \in DOMAIN d.methods : d.methods[i].address = a
      BY <1>1, <1>2
    <2>3. Position(d, a) \in 1 .. Len(ms) /\ ms[Position(d, a)].address = a
      BY <1>1, <1>2, <2>2 DEF Position
    <2> QED BY <2>1, <2>3
  <1>5. Activate(TransferDone(c), a) = e
    <2>1. TransferDone(c) = d
      BY DEF TransferDone
    <2> HIDE DEF d
    <2>2. Activate(d, a) = [d EXCEPT !.active = IF kind = "fifo" THEN Len(ms) - Len(ms) ELSE 0]
      BY <1>2, <1>4 DEF Activate
    <2> QED BY <1>1, <2>1, <2>2
  <1> HIDE DEF d, e
  <1>6. Table(e, o)
    BY <1>1, <1>3 DEF Table
  <1>7. ActiveMethod(e).address = a /\ e.active < Len(e.methods)
    BY <1>1, <1>3 DEF ActiveMethod
  <1> QED BY <1>3, <1>5, <1>6, <1>7 DEF Idle

-----------------------------------------------------------------------------
(* The steps.                                                               *)

LEMMA CodeInit == Init => CodeIInv
  <1> SUFFICES ASSUME Init PROVE CodeIInv
    OBVIOUS
  <1>1. PICK a \in Bases :
          /\ cache = [methods |-> <<Method(a)>>, activeBlocks |-> Method(a).blocks,
                      active |-> 0, phase |-> "IDLE",
                      allocBlocks |-> 0, methodSize |-> 0]
          /\ base = a
          /\ order = <<a>>
    BY DEF Init
  <1>2. cache \in CacheType
    <2>1. Method(a) \in Methods /\ Method(a).blocks \in Nat
      BY MethodType DEF Methods
    <2>2. <<Method(a)>> \in Seq(Methods)
      BY <2>1
    <2> QED BY <1>1, <2>1, <2>2 DEF CacheType
  <1>3. Distinct(order) /\ order \in Seq(Bases) /\ Len(order) > 0 /\ order[Len(order)] = a
    BY <1>1 DEF Distinct
  <1>4. Table(cache, order) /\ ActiveMethod(cache).address = a
    BY <1>1, <1>2, <1>3, OneEntry
  <1>5. Idle(cache, order, base)
    BY <1>1, <1>4 DEF Idle
  <1>6. kind \in {"lru", "fifo"} /\ mw \in Instructions
    BY MethodCacheAssumption DEF Init, Instructions
  <1> QED BY <1>1, <1>5, <1>6 DEF Init, CodeIInv

LEMMA TargetIsBase ==
  ASSUME NEW i \in Instructions, i.op = "enter"
  PROVE  i.to.base \in Bases
  BY MethodCacheAssumption DEF Instructions, Bases

\* The end of a cycle, with a cache that has no load under way.
LEMMA AdvanceKeeps ==
  ASSUME CodeIInv, NEW c, NEW o, NEW b \in Bases, NEW n, Idle(c, o, b), Advance(c, o, b, n)
  PROVE  CodeIInv' /\ cache'.phase = "IDLE"
  <1>1. kind \in {"lru", "fifo"} /\ kind' = kind /\ fault' = fault /\ fault \in BOOLEAN
    BY DEF CodeIInv, Advance
  <1>2. Idle(Flush(c), AfterFlush(o, c), b)
    BY <1>1, FlushKeepsIdle
  <1>3. Idle(cache', order', b)
    BY <1>2 DEF Advance
  <1>4. base' = b /\ disableIF' = FALSE /\ mw' \in Instructions /\ turn' = "IF"
    BY DEF Advance
  <1>5. Idle(cache, order, base)'
    BY <1>1, <1>3, <1>4 DEF Idle, Table
  <1> QED BY <1>1, <1>4, <1>5 DEF CodeIInv, Idle

\* The table and the place of the pipeline stay.
LEMMA StaysIdle ==
  ASSUME kind' = kind, cache' = cache, order' = order, base' = base
  PROVE  /\ Idle(cache, order, base) => Idle(cache, order, base)'
         /\ Table(cache, order) => Table(cache, order)'
         /\ mw' = mw /\ Loading(cache, order, mw.to.base)
              => Loading(cache, order, mw.to.base)'
  BY DEF Idle, Loading, Table

LEMMA ExecutingIdle ==
  ASSUME CodeIInv, turn = "MW", ~ fault, cache.phase # "TRANSFER" \/ mw.op # "enter"
  PROVE  Idle(cache, order, base)
  BY DEF CodeIInv, Loading

LEMMA FetchStep ==
  ASSUME CodeIInv, Fetch \/ IllegalPC \/ AlreadyFetched
  PROVE  CodeIInv'
  <1>1. /\ kind' = kind /\ cache' = cache /\ order' = order /\ base' = base /\ mw' = mw
        /\ fault => fault'
        /\ disableIF => disableIF'
        /\ turn' = "MW" => disableIF'
        /\ turn' \in {"IF", "MW"} /\ disableIF' \in BOOLEAN /\ fault' \in BOOLEAN
    BY DEF Fetch, IllegalPC, AlreadyFetched, CodeIInv
  <1>2. /\ Idle(cache, order, base) => Idle(cache, order, base)'
        /\ Table(cache, order) => Table(cache, order)'
        /\ Loading(cache, order, mw.to.base) => Loading(cache, order, mw.to.base)'
    BY <1>1, StaysIdle
  <1> QED BY <1>1, <1>2 DEF CodeIInv

LEMMA InMethodStep ==
  ASSUME CodeIInv, OtherMW \/ FlushMW
  PROVE  CodeIInv'
  <1>1. /\ turn = "MW" /\ ~ fault /\ mw.op # "enter"
        /\ base \in Bases /\ kind \in {"lru", "fifo"}
    BY DEF OtherMW, FlushMW, Executing, CodeIInv
  <1>2. Idle(cache, order, base)
    BY <1>1, ExecutingIdle
  <1>3. Idle(Flush(cache), AfterFlush(order, cache), base)
    BY <1>1, <1>2, FlushKeepsIdle
  <1>4. CASE OtherMW
    <2>1. PICK n : Advance(cache, order, base, n)
      BY <1>4 DEF OtherMW
    <2> QED BY <1>1, <1>2, <2>1, AdvanceKeeps
  <1>5. CASE FlushMW
    <2>1. PICK n : Advance(Flush(cache), AfterFlush(order, cache), base, n)
      BY <1>5 DEF FlushMW
    <2> QED BY <1>1, <1>3, <2>1, AdvanceKeeps
  <1> QED BY <1>4, <1>5

LEMMA EnterHitStep ==
  ASSUME CodeIInv, EnterHit
  PROVE  CodeIInv'
  <1> DEFINE a == mw.to.base
             c == Activate(Hit(cache, a), a)
             o == IF kind = "lru" THEN Latest(order, a) ELSE order
  <1>1. /\ turn = "MW" /\ ~ fault /\ mw.op = "enter" /\ cache.phase = "IDLE"
        /\ base \in Bases /\ kind \in {"lru", "fifo"} /\ mw \in Instructions
        /\ Resident(cache, a) /\ Advance(c, o, a, mw.to.pc)
    BY DEF EnterHit, Executing, CodeIInv
  <1>2. a \in Bases
    BY <1>1, TargetIsBase
  <1>3. Idle(cache, order, base)
    BY <1>1, ExecutingIdle
  <1> HIDE DEF a
  <1>4. Idle(c, o, a)
    BY <1>1, <1>2, <1>3, HitKeepsIdle
  <1> HIDE DEF c, o
  <1> QED BY <1>1, <1>2, <1>4, AdvanceKeeps

\* A transfer is done, or goes on.
LEMMA TransferKeeps ==
  ASSUME CodeIInv, Executing("enter"), NEW c, NEW o, Loading(c, o, mw.to.base), Transfer(c, o)
  PROVE  CodeIInv' /\ (cache'.phase = "TRANSFER" => cache' = c)
  <1> DEFINE a == mw.to.base
             d == Activate(TransferDone(c), a)
  <1>1. /\ turn = "MW" /\ ~ fault /\ mw.op = "enter"
        /\ kind \in {"lru", "fifo"} /\ mw \in Instructions /\ disableIF
        /\ base \in Bases
    BY DEF Executing, CodeIInv
  <1>2. a \in Bases
    BY <1>1, TargetIsBase
  <1>3. CASE Advance(d, o, a, mw.to.pc)
    <2>1. Loading(c, o, a)
      OBVIOUS
    <2> HIDE DEF a
    <2>2. Idle(d, o, a)
      BY <1>1, <1>2, <2>1, TransferEnds
    <2> HIDE DEF d
    <2> QED BY <1>2, <1>3, <2>2, AdvanceKeeps
  <1>4. CASE /\ cache' = c /\ order' = o
             /\ turn' = "IF"
             /\ UNCHANGED <<kind, disableIF, base, pc, nPC, mw, fault>>
    <2>1. Loading(cache, order, mw.to.base)'
      BY <1>4 DEF Loading, Table
    <2> QED BY <1>1, <1>4, <2>1 DEF CodeIInv
  <1> QED BY <1>3, <1>4 DEF Transfer

LEMMA EnterMissStep ==
  ASSUME CodeIInv, EnterMiss
  PROVE  /\ CodeIInv'
         /\ cache'.phase = "TRANSFER" => cache' = Allocate(cache, mw.to.base)
         /\ Idle(cache, order, base) /\ mw.to.base \in Bases
  <1> DEFINE a == mw.to.base
  <1>1. /\ Executing("enter")
        /\ turn = "MW" /\ ~ fault /\ mw.op = "enter" /\ cache.phase = "IDLE"
        /\ base \in Bases /\ kind \in {"lru", "fifo"} /\ mw \in Instructions
        /\ ~ Resident(cache, a) /\ ~ TooLarge(a)
        /\ Transfer(Allocate(cache, a), Latest(order, a))
    BY DEF EnterMiss, Executing, CodeIInv
  <1>2. a \in Bases
    BY <1>1, TargetIsBase
  <1>3. Idle(cache, order, base)
    BY <1>1, ExecutingIdle
  <1>4. Loading(Allocate(cache, a), Latest(order, a), a)
    <2> HIDE DEF a
    <2> QED BY <1>1, <1>2, <1>3, AllocateLoads
  <1> QED BY <1>1, <1>2, <1>3, <1>4, TransferKeeps

LEMMA EnterTransferStep ==
  ASSUME CodeIInv, EnterTransfer
  PROVE  CodeIInv'
  <1>1. Executing("enter") /\ cache.phase = "TRANSFER" /\ Transfer(cache, order)
    BY DEF EnterTransfer
  <1>2. Loading(cache, order, mw.to.base)
    BY <1>1 DEF CodeIInv, Idle
  <1> QED BY <1>1, <1>2, TransferKeeps

LEMMA CodeExceededStep ==
  ASSUME CodeIInv, CodeExceeded
  PROVE  CodeIInv'
  <1> DEFINE a == mw.to.base
             n == BlocksFor(SizeAt[a])
             w == SizeAt[a]
  <1>1. /\ turn = "MW" /\ ~ fault /\ mw.op = "enter" /\ cache.phase = "IDLE"
        /\ base \in Bases /\ kind \in {"lru", "fifo"} /\ mw \in Instructions
        /\ cache' = [cache EXCEPT !.phase = "SIZE", !.allocBlocks = n, !.methodSize = w]
        /\ fault' = TRUE
        /\ UNCHANGED <<kind, turn, disableIF, base, pc, nPC, mw, order>>
    BY DEF CodeExceeded, Executing, CodeIInv
  <1>2. a \in Bases
    BY <1>1, TargetIsBase
  <1>3. n \in Nat /\ w \in Nat
    <2>1. w \in Nat
      BY <1>2, MethodCacheAssumption DEF Bases
    <2> QED BY <2>1, BlocksOfSize
  <1> HIDE DEF n, w
  <1>4. Table(cache, order)
    BY <1>1, ExecutingIdle DEF Idle
  <1>5. cache \in CacheType
    BY <1>4 DEF Table
  <1>6. /\ cache' \in CacheType /\ cache'.methods = cache.methods
        /\ cache'.activeBlocks = cache.activeBlocks /\ cache'.active = cache.active
        /\ cache'.phase = "SIZE"
    BY <1>1, <1>3, <1>5 DEF CacheType
  <1>7. Table(cache, order)'
    BY <1>1, <1>4, <1>6 DEF Table
  <1> QED BY <1>1, <1>6, <1>7 DEF CodeIInv

LEMMA CodeStep == CodeIInv /\ [Next]_vars => CodeIInv'
  <1> SUFFICES ASSUME CodeIInv, [Next]_vars PROVE CodeIInv'
    OBVIOUS
  <1>1. CASE Fetch \/ IllegalPC \/ AlreadyFetched
    BY <1>1, FetchStep
  <1>2. CASE OtherMW \/ FlushMW
    BY <1>2, InMethodStep
  <1>3. CASE EnterHit
    BY <1>3, EnterHitStep
  <1>4. CASE EnterMiss
    BY <1>4, EnterMissStep
  <1>5. CASE EnterTransfer
    BY <1>5, EnterTransferStep
  <1>6. CASE CodeExceeded
    BY <1>6, CodeExceededStep
  <1>7. CASE UNCHANGED vars
    BY <1>7 DEF vars, CodeIInv, Idle, Loading, Table
  <1> QED BY <1>1, <1>2, <1>3, <1>4, <1>5, <1>6, <1>7 DEF Next, Ended

LEMMA CodeAlways == Spec => []CodeIInv
  BY CodeInit, CodeStep, PTL DEF Spec

-----------------------------------------------------------------------------
(* The invariants.                                                          *)

\* Blocks and tags are never exceeded but by a lone entry function, and the counter of
\* blocks, kept by adding and subtracting, is exact, whatever is loaded, thrown out and
\* flushed (load_method, flush_cache).
THEOREM CodeWithinLimits == Spec => []WithinLimits
  <1>1. CodeIInv => WithinLimits
    <2> SUFFICES ASSUME Table(cache, order) PROVE WithinLimits
      BY DEF CodeIInv, Idle, Loading
    <2>1. Len(cache.methods) <= MaxMethods
      BY TableEntries DEF Table
    <2> QED BY <2>1 DEF WithinLimits, Table
  <1> QED BY <1>1, CodeAlways, PTL

\* What has been the suffix of a sequence, element by element.
LEMMA SuffixByElement ==
  ASSUME NEW S, NEW s \in Seq(S), NEW t \in Seq(S), Len(s) <= Len(t),
         \A i \in 1 .. Len(s) : s[i] = t[Len(t) - Len(s) + i]
  PROVE  IsSuffix(s, t)
  <1> DEFINE r == Reverse(s)
             q == Reverse(t)
             n == Len(s)
  <1>1. n \in Nat /\ Len(t) \in Nat
    OBVIOUS
  <1>2. Len(r) = n /\ \A i \in 1 .. n : r[i] = s[n - i + 1]
    BY <1>1 DEF Reverse
  <1>3. Len(q) = Len(t) /\ \A i \in 1 .. Len(t) : q[i] = t[Len(t) - i + 1]
    BY <1>1 DEF Reverse
  <1> HIDE DEF r, q
  <1>4. ASSUME NEW i \in 1 .. n PROVE r[i] = q[i] /\ r[i] \in S /\ q[i] \in S
    <2>1. /\ n - i + 1 \in 1 .. n /\ i \in 1 .. Len(t)
          /\ Len(t) - n + (n - i + 1) = Len(t) - i + 1
      BY <1>1
    <2>2. s[n - i + 1] = t[Len(t) - i + 1] /\ s[n - i + 1] \in S
      BY <2>1
    <2> QED BY <1>2, <1>3, <2>1, <2>2
  <1> DEFINE x == SubSeq(r, 1, n)
             y == SubSeq(q, 1, n)
  <1>5. x \in Seq(S) /\ Len(x) = n /\ \A i \in 1 .. n : x[i] = r[i]
    BY <1>1, <1>4, SubSeqProperties
  <1>6. y \in Seq(S) /\ Len(y) = n /\ \A i \in 1 .. n : y[i] = q[i]
    BY <1>1, <1>4, SubSeqProperties
  <1> HIDE DEF x, y
  <1>7. x = y
    BY <1>4, <1>5, <1>6, SeqEqual
  <1> QED BY <1>2, <1>3, <1>7 DEF IsSuffix, IsPrefix, r, q, x, y

\* The entries are exactly the methods last used (LRU) or loaded (FIFO), in that order:
\* the shifts and swaps of the table neither lose nor repeat one (lookup, load_method).
THEOREM CodeResidentAreLatest == Spec => []ResidentAreLatest
  <1>1. CodeIInv => ResidentAreLatest
    <2> SUFFICES ASSUME Table(cache, order) PROVE ResidentAreLatest
      BY DEF CodeIInv, Idle, Loading
    <2> DEFINE ms == cache.methods
               s == [i \in DOMAIN ms |-> ms[i].address]
    <2>1. /\ ms \in Seq(Methods) /\ Len(ms) \in Nat /\ DOMAIN ms = 1 .. Len(ms)
          /\ \A i \in 1 .. Len(ms) : ms[i].address \in Bases
      BY TableEntries
    <2>2. s \in Seq(Bases) /\ Len(s) = Len(ms) /\ \A i \in 1 .. Len(ms) : s[i] = ms[i].address
      BY <2>1
    <2>3. /\ order \in Seq(Bases) /\ Len(ms) <= Len(order)
          /\ \A i \in 1 .. Len(ms) : ms[i].address = order[Len(order) - Len(ms) + i]
      BY DEF Table, LastOf
    <2> HIDE DEF s
    <2>4. \A i \in 1 .. Len(s) : s[i] = order[Len(order) - Len(s) + i]
      BY <2>2, <2>3
    <2>5. IsSuffix(s, order)
      BY <2>2, <2>3, <2>4, SuffixByElement
    <2> QED BY <2>5 DEF ResidentAreLatest, s
  <1> QED BY <1>1, CodeAlways, PTL

\* Whenever an instruction is about to be fetched, the active method is the one the
\* pipeline executes and no load is under way; while a method is transferred, the
\* instruction in MW still asks for the youngest entry.
THEOREM CodeFollowsPipeline == Spec => []CacheFollowsPipeline
  <1>1. CodeIInv => CacheFollowsPipeline
    <2> SUFFICES ASSUME CodeIInv PROVE CacheFollowsPipeline
      OBVIOUS
    <2>1. CASE Idle(cache, order, base)
      <3>1. Len(cache.methods) > cache.active
        BY <2>1, TableEntries DEF Idle, Table, CacheType
      <3> QED BY <2>1, <3>1 DEF CacheFollowsPipeline, Idle
    <2>2. CASE Loading(cache, order, mw.to.base) /\ mw.op = "enter" /\ disableIF
      <3>1. mw.to.base \in Bases
        BY <2>2, TargetIsBase DEF CodeIInv
      <3>2. Method(mw.to.base).address = mw.to.base
        BY <3>1, MethodType
      <3> QED BY <2>2, <3>2 DEF CacheFollowsPipeline, Loading
    <2>3. CASE Table(cache, order) /\ cache.phase = "SIZE" /\ fault
      BY <2>3 DEF CacheFollowsPipeline
    <2> QED BY <2>1, <2>2, <2>3 DEF CodeIInv
  <1> QED BY <1>1, CodeAlways, PTL

\* With the youngest of the entries that were thrown out, blocks or tags would not have
\* sufficed for the new method.
LEMMA AllocateKeepsMost ==
  ASSUME NEW c, NEW o, Table(c, o), NEW a \in Bases, ~ TooLarge(a),
         NEW d, d = Allocate(c, a), NEW kept, kept = Len(d.methods) - 1
  PROVE  \/ kept = Len(c.methods)
         \/ BlocksOf(SubSeq(c.methods, Len(c.methods) - kept, Len(c.methods)))
              + Last(d.methods).blocks > NumBlocks
         \/ kept + 1 >= MaxMethods
  <1> DEFINE ms == c.methods
             m == Method(a)
             n == Evictions(c, m.blocks)
             rest == SubSeq(ms, n + 1, Len(ms))
  <1>1. /\ ms \in Seq(Methods) /\ Len(ms) \in Nat /\ MaxMethods \in Nat /\ NumBlocks \in Nat
        /\ c \in CacheType /\ c.activeBlocks = BlocksOf(ms)
    BY TableEntries, MethodCacheAssumption DEF Table
  <1>2. m \in Methods /\ m.blocks \in 1 .. NumBlocks /\ m.blocks \in Nat
    BY MethodType DEF TooLarge, Method, Methods
  <1>3. /\ n \in 0 .. Len(ms)
        /\ \A k \in 0 .. n - 1 : ~ BlocksFit(c, m.blocks, k) \/ Len(ms) - k >= MaxMethods
    BY <1>2, EvictionsProperties
  <1>4. rest \in Seq(Methods) /\ Len(rest) = Len(ms) - n
    <2> HIDE DEF ms, n
    <2> QED BY <1>1, <1>3, BlocksSplit
  <1>5. d.methods = Append(rest, m)
    BY <1>1 DEF Allocate, CacheType
  <1> HIDE DEF rest, m
  <1>6. Len(d.methods) = Len(ms) - n + 1 /\ Last(d.methods) = m
    BY <1>2, <1>4, <1>5, AppendProperties DEF Last
  <1>7. kept = Len(ms) - n /\ Len(ms) - kept = n
    BY <1>1, <1>3, <1>6
  <1>8. CASE n = 0
    <2>1. kept = Len(ms)
      <3> HIDE DEF ms, n
      <3> QED BY <1>1, <1>7, <1>8
    <2> QED BY <2>1
  <1>9. CASE n > 0
    <2> DEFINE k == n - 1
               gone == BlocksOf(SubSeq(ms, 1, k))
               more == BlocksOf(SubSeq(ms, k + 1, Len(ms)))
    <2>1. k \in 0 .. n - 1 /\ k \in 0 .. Len(ms) /\ k + 1 = n /\ Len(ms) - k = kept + 1
      BY <1>1, <1>3, <1>7, <1>9
    <2>2. gone \in Nat /\ more \in Nat /\ BlocksOf(ms) = gone + more
      <3> HIDE DEF k, ms
      <3> QED BY <1>1, <2>1, BlocksSplit, BlocksAreNatural
    <2>3. more = BlocksOf(SubSeq(ms, Len(ms) - kept, Len(ms)))
      BY <1>7, <2>1
    <2>4. ~ BlocksFit(c, m.blocks, k) \/ kept + 1 >= MaxMethods
      <3> HIDE DEF k
      <3> QED BY <1>3, <2>1
    <2>5. ~ BlocksFit(c, m.blocks, k) => more + m.blocks > NumBlocks
      <3>1. BlocksFit(c, m.blocks, k) <=> c.activeBlocks - gone + m.blocks <= NumBlocks
        BY DEF BlocksFit
      <3> HIDE DEF more, gone, k, ms
      <3> QED BY <1>1, <1>2, <2>2, <3>1
    <2> QED BY <1>6, <2>3, <2>4, <2>5
  <1>10. n = 0 \/ n > 0
    <2> HIDE DEF n, ms
    <2> QED BY <1>1, <1>3
  <1> QED BY <1>8, <1>9, <1>10

\* A load throws out no more entries than it needs blocks and tags (load_method).
THEOREM CodeEvictsAsFewAsNeeded == Spec => EvictsAsFewAsNeeded
  <1> DEFINE kept == Len(cache'.methods) - 1
             old == cache.methods
             oneMore == SubSeq(old, Len(old) - kept, Len(old))
             AsFew == EnterMiss /\ cache'.phase = "TRANSFER" =>
                        \/ kept = Len(old)
                        \/ BlocksOf(oneMore) + Last(cache'.methods).blocks > NumBlocks
                        \/ kept + 1 >= MaxMethods
  <1>1. CodeIInv /\ [Next]_vars => [AsFew]_vars
    <2> SUFFICES ASSUME CodeIInv, EnterMiss, cache'.phase = "TRANSFER"
                 PROVE  \/ kept = Len(old)
                        \/ BlocksOf(oneMore) + Last(cache'.methods).blocks > NumBlocks
                        \/ kept + 1 >= MaxMethods
      OBVIOUS
    <2>1. /\ cache' = Allocate(cache, mw.to.base)
          /\ Table(cache, order) /\ mw.to.base \in Bases
      BY EnterMissStep DEF Idle
    <2>2. ~ TooLarge(mw.to.base)
      BY DEF EnterMiss
    <2> HIDE DEF kept
    <2>3. kept = Len(cache'.methods) - 1
      BY DEF kept
    <2> QED BY <2>1, <2>2, <2>3, AllocateKeepsMost
  <1>2. Spec => [][AsFew]_vars
    <2> HIDE DEF AsFew
    <2> QED BY <1>1, CodeAlways, PTL DEF Spec
  <1> QED BY <1>2 DEF EvictsAsFewAsNeeded

=============================================================================
