--------------------------- MODULE DataCacheProofs ----------------------------
(***************************************************************************)
(* Proofs about the data and instruction caches, for every combination of   *)
(* caches, every number of indexes, associativity and block size, every     *)
(* program, and every order in which the memory answers.                    *)
(***************************************************************************)
EXTENDS DataCache, FiniteSetTheorems, FunctionTheorems, TLAPS

-----------------------------------------------------------------------------
(* Blocks and indexes.                                                      *)

IndexSet == 0 .. NumIndexes - 1

LEMMA IndexOfBlock ==
  ASSUME NEW b \in Blocks
  PROVE  Index(b) \in IndexSet
  <1>1. b \in Nat /\ NumIndexes \in Nat \ {0}
    BY CacheAssumption DEF Blocks
  <1>2. \A m \in Nat, n \in Nat \ {0} : m % n \in 0 .. n - 1
    OBVIOUS
  <1> QED BY <1>1, <1>2 DEF Index, IndexSet

LEMMA BlockOfAddress ==
  ASSUME NEW a, a.addr \in Addr
  PROVE  Block(a) \in Blocks
  <1> DEFINE q == a.addr \div BlockWords
  <1>1. /\ BlockWords \in Nat \ {0} /\ NumBlocks \in Nat \ {0}
        /\ NumBlocks * BlockWords \in Nat
    BY CacheAssumption
  <1>2. a.addr \in Nat /\ a.addr < NumBlocks * BlockWords
    BY <1>1 DEF Addr
  <1>3. \A m \in Nat, d \in Nat \ {0} : m \div d \in Nat /\ d * (m \div d) <= m
    OBVIOUS
  <1>4. q \in Nat /\ BlockWords * q <= a.addr
    BY <1>1, <1>2, <1>3
  <1>5. q < NumBlocks
    <2> SUFFICES ASSUME q >= NumBlocks PROVE FALSE
      BY <1>1, <1>4
    <2> HIDE DEF q
    <2>1. \A m \in Nat, n \in Nat, d \in Nat : m <= n => d * m <= d * n
      OBVIOUS
    <2>2. BlockWords * NumBlocks <= BlockWords * q
      BY <1>1, <1>4, <2>1
    <2>3. BlockWords * NumBlocks = NumBlocks * BlockWords /\ BlockWords * q \in Nat
      BY <1>1, <1>4
    <2> QED BY <1>1, <1>2, <1>4, <2>2, <2>3
  <1> QED BY <1>1, <1>4, <1>5 DEF Block, Blocks

-----------------------------------------------------------------------------
(* The tags of one index.  A resident block has been passed by exactly the   *)
(* blocks before it; a block that is not there has not been used since a      *)
(* flush, or has been passed by all that are.                                *)

Held(q) == {q[k] : k \in 1 .. Len(q)}
Before(q, k) == {q[j] : j \in 1 .. k - 1}

SetInv(q, s, i) ==
  /\ q \in Seq(Blocks) /\ Len(q) <= Associativity
  /\ \A k \in 1 .. Len(q) : Index(q[k]) = i
  /\ \A j, k \in 1 .. Len(q) : q[j] = q[k] => j = k
  /\ \A k \in 1 .. Len(q) : s[q[k]] = Before(q, k)
  /\ \A b \in Blocks : Index(b) = i /\ b \notin Held(q) =>
       b \in s[b] \/ (Len(q) = Associativity /\ Held(q) \subseteq s[b])

\* The history of the blocks of an index when b is used.
Passed(s, b) ==
  [c \in Blocks |-> IF c = b THEN {}
                    ELSE IF Index(c) = Index(b) THEN s[c] \cup {b} ELSE s[c]]

\* What moving the tags leaves of them.
LEMMA ShiftedTags ==
  ASSUME NEW q \in Seq(Blocks), NEW b \in Blocks, NEW last \in Nat \ {0},
         last <= Len(q) + 1, NEW r, r = Shifted(q, b, last)
  PROVE  /\ r \in Seq(Blocks)
         /\ Len(r) = IF last > Len(q) THEN last ELSE Len(q)
         /\ r[1] = b
         /\ \A k \in 2 .. Len(r) : r[k] = IF k <= last THEN q[k - 1] ELSE q[k]
  <1> DEFINE n == IF last > Len(q) THEN last ELSE Len(q)
             f == [k \in 1 .. n |-> IF k = 1 THEN b ELSE IF k <= last THEN q[k - 1] ELSE q[k]]
  <1>1. n \in Nat /\ n >= 1 /\ n >= last /\ n >= Len(q) /\ n <= Len(q) + 1
    OBVIOUS
  <1>2. \A k \in 1 .. n : f[k] \in Blocks
    <2> SUFFICES ASSUME NEW k \in 1 .. n PROVE f[k] \in Blocks
      OBVIOUS
    <2>1. \A j \in 1 .. Len(q) : q[j] \in Blocks
      OBVIOUS
    <2>2. CASE k = 1
      BY <2>2, <1>1
    <2>3. CASE k # 1 /\ k <= last
      <3>1. k - 1 \in 1 .. Len(q)
        BY <2>3, <1>1
      <3> QED BY <2>1, <2>3, <3>1
    <2>4. CASE k # 1 /\ k > last
      <3>1. k \in 1 .. Len(q)
        BY <2>4, <1>1
      <3> QED BY <2>1, <2>4, <3>1
    <2> QED BY <2>2, <2>3, <2>4
  <1>3. f \in [1 .. n -> Blocks]
    BY <1>2
  <1>4. f \in Seq(Blocks) /\ Len(f) = n
    BY <1>1, <1>3
  <1>5. f[1] = b /\ \A k \in 2 .. n : f[k] = IF k <= last THEN q[k - 1] ELSE q[k]
    BY <1>1
  <1>6. r = f
    BY DEF Shifted
  <1> HIDE DEF f
  <1> QED BY <1>4, <1>5, <1>6

\* A block that is used first, whether it was there (last is its place) or not (last
\* is a free place, or that of the tag thrown out).
LEMMA ShiftKeepsSet ==
  ASSUME NEW q, NEW s, NEW b \in Blocks, NEW last \in Nat \ {0},
         SetInv(q, s, Index(b)), Associativity \in Nat \ {0},
         \/ last \in 1 .. Len(q) /\ q[last] = b
         \/ b \notin Held(q) /\ last = Len(q) + 1 /\ Len(q) < Associativity
         \/ b \notin Held(q) /\ last = Len(q) /\ Len(q) = Associativity
  PROVE  SetInv(Shifted(q, b, last), Passed(s, b), Index(b))
  <1> DEFINE r == Shifted(q, b, last)
             t == Passed(s, b)
             i == Index(b)
  <1>1. /\ q \in Seq(Blocks) /\ Len(q) \in Nat /\ Len(q) <= Associativity
        /\ last \in Nat \ {0} /\ last <= Len(q) + 1
    BY DEF SetInv
  <1>2. /\ r \in Seq(Blocks)
        /\ Len(r) = IF last > Len(q) THEN last ELSE Len(q)
        /\ r[1] = b
        /\ \A k \in 2 .. Len(r) : r[k] = IF k <= last THEN q[k - 1] ELSE q[k]
    BY <1>1, ShiftedTags
  <1>3. /\ Len(r) \in Nat /\ Len(r) >= 1 /\ Len(r) >= last /\ Len(r) >= Len(q)
        /\ Len(r) <= Associativity /\ (Len(q) = Associativity => Len(r) = Len(q))
    BY <1>1, <1>2
  <1>4. \A k \in 1 .. Len(q) : q[k] \in Blocks /\ Index(q[k]) = i
    BY <1>1 DEF SetInv
  <1>5. \A j, k \in 1 .. Len(q) : q[j] = q[k] => j = k
    BY DEF SetInv
  \* Where the tags come from.
  <1>6. \A k \in 2 .. Len(r) :
          /\ k <= last => k - 1 \in 1 .. Len(q) /\ k - 1 < last /\ r[k] = q[k - 1]
          /\ k > last => k \in 1 .. Len(q) /\ r[k] = q[k]
    BY <1>1, <1>2, <1>3
  \* The block used is none of the others that stay.
  <1>7. \A k \in 1 .. Len(q) : k # last => q[k] # b
    BY <1>1, <1>5 DEF Held
  <1>8. \A k \in 2 .. Len(r) : r[k] # b /\ r[k] \in Blocks /\ Index(r[k]) = i
    BY <1>1, <1>3, <1>4, <1>6, <1>7
  <1> HIDE DEF r
  <1>9. \A k \in 1 .. Len(r) : Index(r[k]) = i
    BY <1>2, <1>3, <1>8
  <1>10. \A j, k \in 1 .. Len(r) : r[j] = r[k] => j = k
    <2> SUFFICES ASSUME NEW j \in 1 .. Len(r), NEW k \in 1 .. Len(r), r[j] = r[k]
                 PROVE  j = k
      OBVIOUS
    <2>1. CASE j = 1 \/ k = 1
      BY <1>2, <1>3, <1>8, <2>1
    <2>2. CASE j # 1 /\ k # 1
      <3>1. j \in 2 .. Len(r) /\ k \in 2 .. Len(r)
        BY <2>2, <1>3
      <3>2. CASE j <= last /\ k <= last
        <4>1. j - 1 = k - 1
          BY <1>5, <1>6, <3>1, <3>2
        <4> QED BY <4>1
      <3>3. CASE j <= last /\ k > last
        <4>1. j - 1 \in 1 .. Len(q) /\ k \in 1 .. Len(q) /\ q[j - 1] = q[k] /\ j - 1 < last
          BY <1>6, <3>1, <3>3
        <4>2. j - 1 = k
          BY <1>5, <4>1
        <4> QED BY <3>3, <4>1, <4>2
      <3>4. CASE j > last /\ k <= last
        <4>1. k - 1 \in 1 .. Len(q) /\ j \in 1 .. Len(q) /\ q[k - 1] = q[j] /\ k - 1 < last
          BY <1>6, <3>1, <3>4
        <4>2. k - 1 = j
          BY <1>5, <4>1
        <4> QED BY <3>4, <4>1, <4>2
      <3>5. CASE j > last /\ k > last
        BY <1>5, <1>6, <3>1, <3>5
      <3> QED BY <3>1, <3>2, <3>3, <3>4, <3>5, <1>1
    <2> QED BY <2>1, <2>2
  \* The history.
  <1>11. /\ t[b] = {}
         /\ \A c \in Blocks : c # b /\ Index(c) = i => t[c] = s[c] \cup {b}
    BY DEF Passed
  <1>12. \A k \in 1 .. Len(q) : s[q[k]] = Before(q, k)
    BY DEF SetInv
  <1>13. \A k \in 1 .. Len(r) : t[r[k]] = Before(r, k)
    <2> SUFFICES ASSUME NEW k \in 1 .. Len(r) PROVE t[r[k]] = Before(r, k)
      OBVIOUS
    <2>1. CASE k = 1
      <3>1. 1 .. k - 1 = {}
        BY <2>1
      <3> QED BY <2>1, <3>1, <1>2, <1>11 DEF Before
    <2>2. CASE k # 1 /\ k <= last
      <3>1. k \in 2 .. Len(r) /\ k - 1 \in 1 .. Len(q) /\ r[k] = q[k - 1]
        BY <2>2, <1>3, <1>6
      <3>2. t[r[k]] = Before(q, k - 1) \cup {b}
        BY <3>1, <1>8, <1>11, <1>12
      <3>3. Before(r, k) = Before(q, k - 1) \cup {b}
        <4>1. ASSUME NEW x \in Before(r, k) PROVE x \in Before(q, k - 1) \cup {b}
          <5>1. PICK j \in 1 .. k - 1 : x = r[j]
            BY <4>1 DEF Before
          <5>2. CASE j = 1
            BY <5>1, <5>2, <1>2
          <5>3. CASE j # 1
            <6>1. j \in 2 .. Len(r) /\ j <= last /\ j - 1 \in 1 .. (k - 1) - 1
              BY <5>3, <2>2, <3>1, <1>1, <1>3
            <6> QED BY <5>1, <6>1, <1>6 DEF Before
          <5> QED BY <5>2, <5>3
        <4>2. ASSUME NEW x \in Before(q, k - 1) \cup {b} PROVE x \in Before(r, k)
          <5>1. CASE x = b
            <6>1. 1 \in 1 .. k - 1
              BY <3>1
            <6> QED BY <5>1, <6>1, <1>2 DEF Before
          <5>2. CASE x # b
            <6>1. PICK j \in 1 .. (k - 1) - 1 : x = q[j]
              BY <4>2, <5>2 DEF Before
            <6>2. j + 1 \in 2 .. Len(r) /\ j + 1 <= last /\ j + 1 \in 1 .. k - 1 /\ (j + 1) - 1 = j
              BY <6>1, <2>2, <3>1, <1>1, <1>3
            <6> QED BY <6>1, <6>2, <1>6 DEF Before
          <5> QED BY <5>1, <5>2
        <4> QED BY <4>1, <4>2
      <3> QED BY <3>2, <3>3
    <2>3. CASE k > last
      <3>1. k \in 2 .. Len(r) /\ k \in 1 .. Len(q) /\ r[k] = q[k]
        BY <2>3, <1>1, <1>3, <1>6
      <3>2. last \in 1 .. Len(q) /\ q[last] = b
        BY <3>1, <2>3, <1>1
      <3>3. t[r[k]] = Before(q, k) \cup {b}
        BY <3>1, <1>8, <1>11, <1>12
      <3>4. Before(r, k) = Before(q, k) \cup {b}
        <4>1. ASSUME NEW x \in Before(r, k) PROVE x \in Before(q, k) \cup {b}
          <5>1. PICK j \in 1 .. k - 1 : x = r[j]
            BY <4>1 DEF Before
          <5>2. CASE j = 1
            BY <5>1, <5>2, <1>2
          <5>3. CASE j # 1 /\ j <= last
            <6>1. j \in 2 .. Len(r) /\ j - 1 \in 1 .. k - 1
              BY <5>3, <3>1, <1>3
            <6> QED BY <5>1, <5>3, <6>1, <1>6 DEF Before
          <5>4. CASE j > last
            <6>1. j \in 2 .. Len(r)
              BY <5>4, <3>1, <1>1, <1>3
            <6> QED BY <5>1, <5>4, <6>1, <1>6 DEF Before
          <5> QED BY <5>2, <5>3, <5>4, <1>1
        <4>2. ASSUME NEW x \in Before(q, k) \cup {b} PROVE x \in Before(r, k)
          <5>1. CASE x = b
            <6>1. 1 \in 1 .. k - 1
              BY <3>1
            <6> QED BY <5>1, <6>1, <1>2 DEF Before
          <5>2. CASE x # b
            <6>1. PICK j \in 1 .. k - 1 : x = q[j]
              BY <4>2, <5>2 DEF Before
            <6>2. CASE j < last
              <7>1. /\ j + 1 \in 2 .. Len(r) /\ j + 1 <= last /\ j + 1 \in 1 .. k - 1
                    /\ (j + 1) - 1 = j
                BY <6>1, <6>2, <2>3, <3>1, <1>1, <1>3
              <7> QED BY <6>1, <7>1, <1>6 DEF Before
            <6>3. CASE j > last
              <7>1. j \in 2 .. Len(r)
                BY <6>1, <6>3, <3>1, <1>1, <1>3
              <7> QED BY <6>1, <6>3, <7>1, <1>6 DEF Before
            <6>4. j # last
              BY <5>2, <6>1, <3>2
            <6> QED BY <6>1, <6>2, <6>3, <6>4, <1>1
          <5> QED BY <5>1, <5>2
        <4> QED BY <4>1, <4>2
      <3> QED BY <3>3, <3>4
    <2> QED BY <2>1, <2>2, <2>3, <1>1
  \* Blocks that are not there.
  <1>14. Held(r) \subseteq Held(q) \cup {b}
    <2> SUFFICES ASSUME NEW k \in 1 .. Len(r) PROVE r[k] \in Held(q) \cup {b}
      BY DEF Held
    <2>1. CASE k = 1
      BY <2>1, <1>2
    <2>2. CASE k # 1
      <3>1. k \in 2 .. Len(r)
        BY <2>2, <1>3
      <3> QED BY <3>1, <1>1, <1>6 DEF Held
    <2> QED BY <2>1, <2>2
  <1>15. ASSUME NEW c \in Blocks, Index(c) = i, c \notin Held(r)
         PROVE  c \in t[c] \/ (Len(r) = Associativity /\ Held(r) \subseteq t[c])
    <2>1. c # b
      BY <1>15, <1>2, <1>3 DEF Held
    <2>2. t[c] = s[c] \cup {b}
      BY <1>11, <1>15, <2>1
    <2>3. CASE c \notin Held(q)
      <3>1. c \in s[c] \/ (Len(q) = Associativity /\ Held(q) \subseteq s[c])
        BY <2>3, <1>15 DEF SetInv
      <3> QED BY <2>2, <3>1, <1>3, <1>14
    <2>4. CASE c \in Held(q)
      <3>1. PICK k \in 1 .. Len(q) : c = q[k]
        BY <2>4 DEF Held
      \* It was the last tag, and was thrown out.
      <3>2. ~ (k < last)
        <4> SUFFICES ASSUME k < last PROVE FALSE
          OBVIOUS
        <4>1. /\ k + 1 \in 2 .. Len(r) /\ k + 1 <= last /\ (k + 1) - 1 = k
              /\ k + 1 \in 1 .. Len(r)
          BY <3>1, <1>1, <1>3
        <4>2. r[k + 1] = c
          BY <4>1, <3>1, <1>6
        <4> QED BY <4>1, <4>2, <1>15 DEF Held
      <3>3. ~ (k > last)
        <4> SUFFICES ASSUME k > last PROVE FALSE
          OBVIOUS
        <4>1. k \in 2 .. Len(r) /\ k \in 1 .. Len(r)
          BY <3>1, <1>1, <1>3
        <4>2. r[k] = c
          BY <4>1, <3>1, <1>6
        <4> QED BY <4>1, <4>2, <1>15 DEF Held
      <3>4. k = last /\ last = Len(q) /\ Len(q) = Associativity /\ b \notin Held(q)
        <4>1. k = last
          BY <3>1, <3>2, <3>3, <1>1
        <4>2. q[last] # b /\ last # Len(q) + 1
          BY <4>1, <3>1, <2>1
        <4> QED BY <4>1, <4>2
      <3>5. Held(r) \subseteq Before(q, k) \cup {b}
        <4> SUFFICES ASSUME NEW j \in 1 .. Len(r) PROVE r[j] \in Before(q, k) \cup {b}
          BY DEF Held
        <4>1. CASE j = 1
          BY <4>1, <1>2
        <4>2. CASE j # 1
          <5>1. j \in 2 .. Len(r) /\ j <= last /\ j - 1 \in 1 .. k - 1
            BY <4>2, <3>4, <1>2, <1>3
          <5> QED BY <5>1, <1>6 DEF Before
        <4> QED BY <4>1, <4>2
      <3>6. s[c] = Before(q, k)
        BY <3>1, <1>12
      <3> QED BY <2>2, <3>4, <3>5, <3>6, <1>3
    <2> QED BY <2>3, <2>4
  <1> HIDE DEF t, i
  <1>16. SetInv(r, t, i)
    BY <1>2, <1>3, <1>9, <1>10, <1>13, <1>15 DEF SetInv
  <1> QED BY <1>16 DEF r, t, i

-----------------------------------------------------------------------------
(* The tags of one index: how many blocks they are, and what that makes of   *)
(* DataHoldsMostRecent.                                                       *)

LEMMA FewBefore ==
  ASSUME NEW q, NEW k \in Nat \ {0}
  PROVE  IsFiniteSet(Before(q, k)) /\ Cardinality(Before(q, k)) <= k - 1
  <1> DEFINE f == [j \in 1 .. k - 1 |-> q[j]]
  <1>1. f \in Surjection(1 .. k - 1, Before(q, k))
    BY DEF Surjection, Before
  <1>2. IsFiniteSet(1 .. k - 1) /\ Cardinality(1 .. k - 1) = k - 1
    <2>1. IsFiniteSet(1 .. k - 1)
          /\ Cardinality(1 .. k - 1) = IF 1 > k - 1 THEN 0 ELSE k - 1 - 1 + 1
      BY FS_Interval
    <2> QED BY <2>1
  <1> QED BY <1>1, <1>2, FS_Surjection

LEMMA AllHeld ==
  ASSUME NEW q, Len(q) \in Nat, \A j, k \in 1 .. Len(q) : q[j] = q[k] => j = k
  PROVE  IsFiniteSet(Held(q)) /\ Cardinality(Held(q)) = Len(q)
  <1> DEFINE n == Len(q)
             f == [j \in 1 .. n |-> q[j]]
  <1>1. f \in Surjection(1 .. n, Held(q))
    BY DEF Surjection, Held
  <1>2. f \in Injection(1 .. n, Held(q))
    <2>1. f \in [1 .. n -> Held(q)]
      BY DEF Held
    <2>2. \A j, k \in 1 .. n : f[j] = f[k] => j = k
      OBVIOUS
    <2> HIDE DEF f
    <2> QED BY <2>1, <2>2 DEF Injection, IsInjective
  <1>3. IsFiniteSet(1 .. n) /\ Cardinality(1 .. n) = n
    <2>1. IsFiniteSet(1 .. n) /\ Cardinality(1 .. n) = IF 1 > n THEN 0 ELSE n - 1 + 1
      BY FS_Interval
    <2> QED BY <2>1
  <1> HIDE DEF n, f
  <1>4. IsFiniteSet(Held(q)) /\ Cardinality(Held(q)) = Cardinality(1 .. n)
    BY <1>1, <1>2, <1>3, FS_Surjection
  <1> QED BY <1>3, <1>4 DEF n

LEMMA ResidentIsRecent ==
  ASSUME NEW q, NEW s \in [Blocks -> SUBSET Blocks], NEW b \in Blocks,
         SetInv(q, s, Index(b))
  PROVE  b \in ToSet(q) <=> b \notin s[b] /\ Cardinality(s[b]) < Associativity
  <1>1. Associativity \in Nat /\ NumBlocks \in Nat
    BY CacheAssumption
  <1>2. q \in Seq(Blocks) /\ Len(q) \in Nat /\ Len(q) <= Associativity
    BY DEF SetInv
  <1>3. ToSet(q) = Held(q)
    BY <1>2 DEF ToSet, Held
  <1>4. IsFiniteSet(s[b]) /\ Cardinality(s[b]) \in Nat
    <2>1. IsFiniteSet(Blocks)
      BY <1>1, FS_Interval DEF Blocks
    <2>2. s[b] \in SUBSET Blocks
      OBVIOUS
    <2>3. IsFiniteSet(s[b])
      BY <2>1, <2>2, FS_Subset
    <2> QED BY <2>3, FS_CardinalityType
  <1>5. CASE b \in Held(q)
    <2>1. PICK k \in 1 .. Len(q) : b = q[k]
      BY <1>5 DEF Held
    <2>2. s[b] = Before(q, k)
      BY <2>1 DEF SetInv
    <2>3. b \notin Before(q, k)
      <3> SUFFICES ASSUME b \in Before(q, k) PROVE FALSE
        OBVIOUS
      <3>1. PICK j \in 1 .. k - 1 : b = q[j]
        BY DEF Before
      <3>2. j \in 1 .. Len(q)
        BY <1>2, <2>1
      <3>3. j = k
        BY <2>1, <3>1, <3>2 DEF SetInv
      <3> QED BY <2>1, <3>3, <1>2
    <2>4. Cardinality(Before(q, k)) <= k - 1
      BY <1>2, <2>1, FewBefore
    <2>5. Cardinality(s[b]) < Associativity
      BY <1>1, <1>2, <1>4, <2>1, <2>2, <2>4
    <2> QED BY <1>3, <1>5, <2>2, <2>3, <2>5
  <1>6. CASE b \notin Held(q)
    <2> SUFFICES ASSUME b \notin s[b] PROVE ~ (Cardinality(s[b]) < Associativity)
      BY <1>3, <1>6
    <2>1. Len(q) = Associativity /\ Held(q) \subseteq s[b]
      BY <1>6 DEF SetInv
    <2>2. \A j, k \in 1 .. Len(q) : q[j] = q[k] => j = k
      BY DEF SetInv
    <2>3. Cardinality(Held(q)) = Associativity
      BY <1>2, <2>1, <2>2, AllHeld
    <2>4. Cardinality(Held(q)) <= Cardinality(s[b])
      BY <1>4, <2>1, FS_Subset
    <2> QED BY <1>1, <1>4, <2>3, <2>4
  <1> QED BY <1>5, <1>6

-----------------------------------------------------------------------------
(* The inductive invariant: of the tags, and of how far the cycle is.         *)

TagsInv ==
  /\ system \in SystemType
  /\ tags \in [Port -> [IndexSet -> Seq(Blocks)]]
  /\ since \in [Port -> [Blocks -> SUBSET Blocks]]
  /\ \A p \in Port, i \in IndexSet : SetInv(tags[p][i], since[p], i)

\* A stage that has not been answered makes the pipeline stall.
PipeInv ==
  /\ stall \in BOOLEAN /\ disableIF \in BOOLEAN
  /\ pc \in Counters /\ wordsFetched \in 0 .. Slots - 1
  /\ access \in Transfers \cup Flushes \cup {NoAccess}
  /\ turn = "IF" => ~ stall
  /\ turn = "MW" /\ ~ stall => disableIF
  /\ turn = "end" /\ ~ stall => disableIF /\ access = NoAccess

CacheIInv == TagsInv /\ PipeInv

\* A set of tags is about the blocks of its index only.
LEMMA OwnIndexOnly ==
  ASSUME NEW q, NEW s, NEW t, NEW i, SetInv(q, s, i),
         \A c \in Blocks : Index(c) = i => t[c] = s[c]
  PROVE  SetInv(q, t, i)
  <1>1. \A k \in 1 .. Len(q) : q[k] \in Blocks /\ Index(q[k]) = i
    BY DEF SetInv
  <1>2. \A k \in 1 .. Len(q) : t[q[k]] = Before(q, k)
    BY <1>1 DEF SetInv
  <1>3. \A b \in Blocks : Index(b) = i /\ b \notin Held(q) =>
          b \in t[b] \/ (Len(q) = Associativity /\ Held(q) \subseteq t[b])
    BY DEF SetInv
  <1> QED BY <1>2, <1>3 DEF SetInv

\* The place LastChanged returns is one ShiftKeepsSet is about.
LEMMA LastChangedPlace ==
  ASSUME NEW q, NEW s, NEW b \in Blocks, NEW hit \in BOOLEAN,
         SetInv(q, s, Index(b)), hit <=> b \in Held(q)
  PROVE  LET last == LastChanged(q, b, hit)
         IN  /\ last \in Nat \ {0}
             /\ \/ last \in 1 .. Len(q) /\ q[last] = b
                \/ b \notin Held(q) /\ last = Len(q) + 1 /\ Len(q) < Associativity
                \/ b \notin Held(q) /\ last = Len(q) /\ Len(q) = Associativity
  <1>1. Len(q) \in Nat /\ Len(q) <= Associativity /\ Associativity \in Nat \ {0}
    BY CacheAssumption DEF SetInv
  <1>2. CASE hit
    <2> DEFINE last == CHOOSE k \in 1 .. Len(q) : q[k] = b
    <2>1. \E k \in 1 .. Len(q) : q[k] = b
      BY <1>2 DEF Held
    <2>2. last \in 1 .. Len(q) /\ q[last] = b
      BY <2>1
    <2>3. LastChanged(q, b, hit) = last
      BY <1>2 DEF LastChanged
    <2> HIDE DEF last
    <2> QED BY <1>1, <2>2, <2>3
  <1>3. CASE ~ hit
    BY <1>1, <1>3 DEF LastChanged
  <1> QED BY <1>2, <1>3

\* A read by a port that hits or loads its block keeps the tags of all ports.
LEMMA TouchKeepsTags ==
  ASSUME TagsInv, NEW p \in Port, NEW b \in Blocks, NEW hit \in BOOLEAN,
         hit <=> b \in ToSet(TagsAt(p, b)), system' = system,
         tags' = Touched(p, b, hit), since' = SinceUse(p, b, hit)
  PROVE  TagsInv'
  <1>1. CASE hit /\ system[p] = "fifo"
    BY <1>1 DEF TagsInv, Touched, SinceUse
  <1>2. CASE ~ (hit /\ system[p] = "fifo")
    <2> DEFINE i == Index(b)
               q == tags[p][i]
               r == Shifted(q, b, LastChanged(q, b, hit))
               t == Passed(since[p], b)
    <2>1. i \in IndexSet
      BY IndexOfBlock
    <2>2. SetInv(q, since[p], i) /\ q \in Seq(Blocks)
      BY <2>1 DEF TagsInv
    <2>3. hit <=> b \in Held(q)
      BY <2>2 DEF ToSet, TagsAt, Held
    <2>4. Associativity \in Nat \ {0}
      BY CacheAssumption
    <2>5. SetInv(r, t, i)
      <3> DEFINE last == LastChanged(q, b, hit)
      <3>1. /\ last \in Nat \ {0}
            /\ \/ last \in 1 .. Len(q) /\ q[last] = b
               \/ b \notin Held(q) /\ last = Len(q) + 1 /\ Len(q) < Associativity
               \/ b \notin Held(q) /\ last = Len(q) /\ Len(q) = Associativity
        BY <2>2, <2>3, LastChangedPlace
      <3> HIDE DEF last, q
      <3>2. SetInv(Shifted(q, b, last), t, i)
        BY <2>2, <2>4, <3>1, ShiftKeepsSet
      <3> QED BY <3>2 DEF last
    <2>6. r \in Seq(Blocks)
      BY <2>5 DEF SetInv
    <2>7. t \in [Blocks -> SUBSET Blocks]
      BY DEF Passed, TagsInv
    <2>8. tags' = [tags EXCEPT ![p] = [@ EXCEPT ![i] = r]]
      BY <1>2 DEF Touched
    <2>9. since' = [since EXCEPT ![p] = t]
      BY <1>2 DEF SinceUse, Passed
    <2> HIDE DEF r, t, q
    <2>10. /\ tags' \in [Port -> [IndexSet -> Seq(Blocks)]]
           /\ tags'[p][i] = r
           /\ \A j \in IndexSet \ {i} : tags'[p][j] = tags[p][j]
           /\ \A o \in Port \ {p} : tags'[o] = tags[o]
      BY <2>1, <2>6, <2>8 DEF TagsInv
    <2>11. /\ since' \in [Port -> [Blocks -> SUBSET Blocks]]
           /\ since'[p] = t
           /\ \A o \in Port \ {p} : since'[o] = since[o]
      BY <2>7, <2>9 DEF TagsInv
    <2>12. ASSUME NEW o \in Port, NEW j \in IndexSet
           PROVE  SetInv(tags'[o][j], since'[o], j)
      <3>1. SetInv(tags[o][j], since[o], j)
        BY DEF TagsInv
      <3>2. CASE o # p
        BY <3>1, <3>2, <2>10, <2>11
      <3>3. CASE o = p /\ j = i
        BY <3>3, <2>5, <2>10, <2>11
      <3>4. CASE o = p /\ j # i
        <4>1. \A c \in Blocks : Index(c) = j => t[c] = since[p][c]
          BY <3>4 DEF t, Passed
        <4>2. SetInv(tags[p][j], t, j)
          BY <3>1, <3>4, <4>1, OwnIndexOnly
        <4> QED BY <4>2, <3>4, <2>10, <2>11
      <3> QED BY <3>2, <3>3, <3>4
    <2> QED BY <2>10, <2>11, <2>12 DEF TagsInv, SetInv, Before, Held, Index
  <1> QED BY <1>1, <1>2

\* An empty cache, and flushing.
LEMMA EmptySet ==
  ASSUME NEW i \in IndexSet
  PROVE  /\ Empty \in [IndexSet -> Seq(Blocks)]
         /\ NeverUsed \in [Blocks -> SUBSET Blocks]
         /\ SetInv(Empty[i], NeverUsed, i)
  <1>1. Empty \in [IndexSet -> Seq(Blocks)] /\ Empty[i] = <<>>
    BY DEF Empty, IndexSet
  <1>2. NeverUsed \in [Blocks -> SUBSET Blocks] /\ \A b \in Blocks : b \in NeverUsed[b]
    BY DEF NeverUsed
  <1>3. Associativity \in Nat
    BY CacheAssumption
  <1>4. SetInv(<<>>, NeverUsed, i)
    BY <1>2, <1>3 DEF SetInv
  <1> QED BY <1>1, <1>2, <1>4

LEMMA FlushKeepsTags ==
  ASSUME TagsInv, NEW caches \in SUBSET Port, Flush(caches),
         system' = system
  PROVE  TagsInv'
  <1>1. Empty \in [IndexSet -> Seq(Blocks)] /\ NeverUsed \in [Blocks -> SUBSET Blocks]
    <2>1. 0 \in IndexSet
      BY CacheAssumption DEF IndexSet
    <2> QED BY <2>1, EmptySet
  <1>2. \A p \in Port : tags'[p] = IF p \in caches THEN Empty ELSE tags[p]
    BY DEF Flush
  <1>3. \A p \in Port : since'[p] = IF p \in caches THEN NeverUsed ELSE since[p]
    BY DEF Flush
  <1>4. /\ tags' \in [Port -> [IndexSet -> Seq(Blocks)]]
        /\ since' \in [Port -> [Blocks -> SUBSET Blocks]]
    BY <1>1 DEF Flush, TagsInv
  <1>5. ASSUME NEW p \in Port, NEW i \in IndexSet
        PROVE  SetInv(tags'[p][i], since'[p], i)
    <2>1. CASE p \in caches
      BY <2>1, <1>2, <1>3, EmptySet
    <2>2. CASE p \notin caches
      BY <2>2, <1>2, <1>3 DEF TagsInv
    <2> QED BY <2>1, <2>2
  <1> QED BY <1>4, <1>5 DEF TagsInv, SetInv, Before, Held, Index

-----------------------------------------------------------------------------
(* Every step keeps the invariant.                                            *)

LEMMA ReadKeepsTags ==
  ASSUME TagsInv, NEW p \in Port, NEW a, Block(a) \in Blocks,
         Read(p, a), system' = system
  PROVE  TagsInv'
  <1>1. CASE IdealRead(p, a) \/ PlainRead(p, a)
    BY <1>1 DEF IdealRead, PlainRead, cacheVars, TagsInv
  <1>2. CASE ReadHit(p, a)
    BY <1>2, TouchKeepsTags DEF ReadHit, Hit
  <1>3. CASE ReadMiss(p, a)
    BY <1>3, TouchKeepsTags DEF ReadMiss, Hit
  <1> QED BY <1>1, <1>2, <1>3 DEF Read

LEMMA AccessBlocks ==
  /\ \A a \in Transfers : Block(a) \in Blocks
  /\ pc \in Counters /\ wordsFetched \in 0 .. Slots - 1 => Block(FetchAccess) \in Blocks
  <1>1. \A a \in Transfers : a.addr \in Addr
    BY CacheAssumption
  <1>2. pc \in Counters /\ wordsFetched \in 0 .. Slots - 1 => FetchAccess.addr \in Addr
    <2> SUFFICES ASSUME pc \in Counters, wordsFetched \in 0 .. Slots - 1
                 PROVE  pc + wordsFetched \in Addr
      BY DEF FetchAccess
    <2>1. pc \in Nat /\ Slots \in Nat \ {0} /\ pc .. pc + Slots - 1 \subseteq Addr
      BY CacheAssumption
    <2>2. pc + wordsFetched \in pc .. pc + Slots - 1
      BY <2>1
    <2> QED BY <2>1, <2>2
  <1> QED BY <1>1, <1>2, BlockOfAddress

LEMMA CacheInit == CachesInit => CacheIInv
  <1> SUFFICES ASSUME CachesInit PROVE CacheIInv
    OBVIOUS
  <1>1. PipeInv
    <2>1. Slots \in Nat \ {0}
      BY CacheAssumption
    <2>2. wordsFetched \in 0 .. Slots - 1
      BY <2>1 DEF CachesInit
    <2> QED BY <2>2 DEF CachesInit, PipeInv
  <1>2. system \in SystemType
    BY CacheAssumption DEF CachesInit
  <1>3. \A i \in IndexSet : SetInv(Empty[i], NeverUsed, i)
    BY EmptySet
  <1>4. Empty \in [IndexSet -> Seq(Blocks)] /\ NeverUsed \in [Blocks -> SUBSET Blocks]
    <2>1. 0 \in IndexSet
      BY CacheAssumption DEF IndexSet
    <2> QED BY <2>1, EmptySet
  <1>5. TagsInv
    BY <1>2, <1>3, <1>4 DEF CachesInit, TagsInv
  <1> QED BY <1>1, <1>5 DEF CacheIInv

LEMMA PipeStep ==
  PipeInv /\ [CachesNext]_cachesVars => PipeInv'
  <1> SUFFICES ASSUME PipeInv, [CachesNext]_cachesVars PROVE PipeInv'
    OBVIOUS
  <1>1. Slots \in Nat \ {0}
    BY CacheAssumption
  <1>2. CASE FetchSpm
    BY <1>1, <1>2 DEF FetchSpm, FetchDone, PipeInv
  <1>3. CASE FetchWord
    <2>1. CASE wordsFetched + 1 = Slots
      BY <1>1, <1>3, <2>1 DEF FetchWord, FetchDone, PipeInv
    <2>2. CASE wordsFetched + 1 # Slots
      <3>1. wordsFetched' = wordsFetched + 1
            /\ UNCHANGED <<turn, stall, pc, disableIF, access>>
        BY <1>3, <2>2 DEF FetchWord
      <3>2. wordsFetched' \in 0 .. Slots - 1
        BY <1>1, <2>2, <3>1 DEF PipeInv
      <3> QED BY <3>1, <3>2 DEF PipeInv
    <2> QED BY <2>1, <2>2
  <1>4. CASE FetchWaits
    BY <1>4 DEF FetchWaits, PipeInv
  <1>5. CASE NoFetch
    BY <1>5 DEF NoFetch, PipeInv
  <1>6. CASE AccessDone
    BY <1>6 DEF AccessDone, PipeInv
  <1>7. CASE AccessWaits
    BY <1>7 DEF AccessWaits, PipeInv
  <1>8. CASE NoAccessInMW
    BY <1>8 DEF NoAccessInMW, PipeInv
  <1>9. CASE FlushMW
    BY <1>9 DEF FlushMW, PipeInv
  <1>10. CASE EndCycle
    <2>1. CASE stall
      BY <1>10, <2>1 DEF EndCycle, PipeInv
    <2>2. CASE ~ stall
      BY <1>10, <2>2 DEF EndCycle, PipeInv
    <2> QED BY <2>1, <2>2
  <1>11. CASE UNCHANGED cachesVars
    BY <1>11 DEF cachesVars, PipeInv
  <1> QED BY <1>2, <1>3, <1>4, <1>5, <1>6, <1>7, <1>8, <1>9, <1>10, <1>11 DEF CachesNext

LEMMA TagsStep ==
  CacheIInv /\ [CachesNext]_cachesVars => TagsInv'
  <1> SUFFICES ASSUME TagsInv, PipeInv, [CachesNext]_cachesVars PROVE TagsInv'
    BY DEF CacheIInv
  <1>1. "IF" \in Port /\ "MW" \in Port
    BY DEF Port
  <1>2. ASSUME UNCHANGED <<system, cacheVars>> PROVE TagsInv'
    BY <1>2 DEF cacheVars, TagsInv
  <1>3. CASE FetchWord
    <2>1. Block(FetchAccess) \in Blocks
      BY AccessBlocks DEF PipeInv
    <2> QED BY <1>1, <1>3, <2>1, ReadKeepsTags DEF FetchWord
  <1>4. CASE AccessDone
    <2>1. Block(access) \in Blocks
      BY <1>4, AccessBlocks DEF AccessDone
    <2>2. CASE access.load
      BY <1>1, <1>4, <2>1, <2>2, ReadKeepsTags DEF AccessDone
    <2>3. CASE ~ access.load
      BY <1>2, <1>4, <2>3 DEF AccessDone, Write
    <2> QED BY <2>2, <2>3
  <1>5. CASE FlushMW
    BY <1>1, <1>5, FlushKeepsTags DEF FlushMW
  <1>6. CASE EndCycle
    <2>1. CASE UNCHANGED cacheVars
      BY <1>2, <1>6, <2>1 DEF EndCycle
    <2>2. CASE Flush(Port)
      BY <1>6, <2>2, FlushKeepsTags DEF EndCycle
    <2> QED BY <1>6, <2>1, <2>2 DEF EndCycle
  <1>7. CASE FetchSpm \/ FetchWaits \/ NoFetch
    BY <1>2, <1>7 DEF FetchSpm, FetchWaits, NoFetch, ReadWaits
  <1>8. CASE AccessWaits \/ NoAccessInMW
    BY <1>2, <1>8 DEF AccessWaits, NoAccessInMW, ReadWaits, WriteWaits
  <1>9. CASE UNCHANGED cachesVars
    BY <1>2, <1>9 DEF cachesVars, cacheVars
  <1> QED BY <1>3, <1>4, <1>5, <1>6, <1>7, <1>8, <1>9 DEF CachesNext

LEMMA CacheStep ==
  CacheIInv /\ [CachesNext]_cachesVars => CacheIInv'
  BY PipeStep, TagsStep DEF CacheIInv

LEMMA CacheIInvImpliesMostRecent ==
  CacheIInv => DataHoldsMostRecent
  <1> SUFFICES ASSUME TagsInv, NEW p \in Port, NEW b \in Blocks
               PROVE  b \in ToSet(TagsAt(p, b)) <=>
                        b \notin since[p][b] /\ Cardinality(since[p][b]) < Associativity
    BY DEF CacheIInv, DataHoldsMostRecent
  <1>1. Index(b) \in IndexSet
    BY IndexOfBlock
  <1>2. SetInv(TagsAt(p, b), since[p], Index(b)) /\ since[p] \in [Blocks -> SUBSET Blocks]
    BY <1>1 DEF TagsInv, TagsAt
  <1> QED BY <1>2, ResidentIsRecent

\* A data or instruction cache holds a block exactly if fewer than Associativity
\* other blocks of its index were used (LRU) or loaded (FIFO) since: however misses
\* of the two caches overlap, and whenever the caches are flushed.
THEOREM CacheHoldsMostRecent == CachesSpec => []DataHoldsMostRecent
  <1>1. CacheIInv /\ [CachesNext]_cachesVars => CacheIInv'
    BY CacheStep
  <1>2. CacheIInv => DataHoldsMostRecent
    BY CacheIInvImpliesMostRecent
  <1>3. CachesInit => CacheIInv
    BY CacheInit
  <1> QED BY <1>1, <1>2, <1>3, PTL DEF CachesSpec

-----------------------------------------------------------------------------
(* The caches keep the promise of memory.                                     *)

IFWaits == ~ disableIF
IFAccess == IF pc < SpmWords THEN SpmAccess ELSE FetchAccess

\* What the two ports wait for, and after a step.
LEMMA PendingAccesses ==
  /\ IFWaits => Pending["IF"] = IFAccess
  /\ ~ IFWaits => Pending["IF"] = NoAccess
  /\ access \in Transfers => Pending["MW"] = access
  /\ access \notin Transfers => Pending["MW"] = NoAccess
  /\ UNCHANGED <<pc, wordsFetched, disableIF>> => Pending'["IF"] = Pending["IF"]
  /\ UNCHANGED access => Pending'["MW"] = Pending["MW"]
  <1>1. "IF" \in Port /\ "MW" \in Port /\ "IF" # "MW"
    BY DEF Port
  <1>2. /\ disableIF => Pending["IF"] = NoAccess
        /\ ~ disableIF /\ pc < SpmWords => Pending["IF"] = SpmAccess
        /\ ~ disableIF /\ ~ (pc < SpmWords) => Pending["IF"] = FetchAccess
        /\ access \in Transfers => Pending["MW"] = access
        /\ access \notin Transfers => Pending["MW"] = NoAccess
    BY <1>1 DEF Pending
  <1>3. /\ disableIF' => Pending'["IF"] = NoAccess
        /\ ~ disableIF' /\ pc' < SpmWords => Pending'["IF"] = SpmAccess'
        /\ ~ disableIF' /\ ~ (pc' < SpmWords) => Pending'["IF"] = FetchAccess'
        /\ access' \in Transfers => Pending'["MW"] = access'
        /\ access' \notin Transfers => Pending'["MW"] = NoAccess
    BY <1>1 DEF Pending
  <1>4. UNCHANGED <<pc, wordsFetched>> => FetchAccess' = FetchAccess /\ SpmAccess' = SpmAccess
    BY DEF FetchAccess, SpmAccess
  <1> HIDE DEF Pending
  <1> QED BY <1>2, <1>3, <1>4 DEF IFWaits, IFAccess

\* An access that is answered is answered as promised.
LEMMA AnswersAsPromised ==
  ASSUME NEW p \in Port, NEW a, a # NoAccess, Pending[p] = a,
         \A q \in Port \ {p} : Pending'[q] = Pending[q],
         \/ a.load /\ result' = ReadPeek(a) /\ mem' = mem
         \/ ~ a.load /\ result' = NoResult /\ mem' = WritePeek(a)
  PROVE  Promise!Next
  <1>1. Promise!Words(a) = Words(a)
    BY DEF Promise!Words, Words
  <1> HIDE DEF Pending
  <1>2. Promise!Answer(p)
    BY <1>1 DEF Promise!Answer, ReadPeek, WritePeek
  <1> QED BY <1>2 DEF Promise!Next

\* A step that answers nothing, and makes no port forget its access.
LEMMA AsksAsPromised ==
  ASSUME \A p \in Port : Pending[p] # NoAccess => Pending'[p] = Pending[p],
         result' = NoResult, mem' = mem
  PROVE  Promise!Next
  <1> HIDE DEF Pending
  <1> QED BY DEF Promise!Next, Promise!Ask

LEMMA ReadAnswers ==
  ASSUME NEW p, NEW a, Read(p, a)
  PROVE  result' = ReadPeek(a)
  BY DEF Read, IdealRead, PlainRead, ReadHit, ReadMiss

LEMMA StepKeepsPromise ==
  PipeInv /\ [CachesNext]_cachesVars => [Promise!Next]_(Promise!vars)
  <1> SUFFICES ASSUME PipeInv, [CachesNext]_cachesVars
               PROVE  [Promise!Next]_(Promise!vars)
    OBVIOUS
  <1>1. Port = {"IF", "MW"} /\ "IF" # "MW"
    BY DEF Port
  <1>2. /\ SpmAccess # NoAccess /\ SpmAccess.load
        /\ FetchAccess # NoAccess /\ FetchAccess.load
    <2>1. pc \in Nat /\ wordsFetched \in Nat /\ Slots \in Nat /\ Zero \in Val
      BY CacheAssumption DEF PipeInv
    <2>2. {SpmAccess, FetchAccess} \subseteq [addr : Nat, size : Nat, load : BOOLEAN, val : Val]
      BY <2>1 DEF SpmAccess, FetchAccess
    <2> QED BY <2>2, CacheAssumption DEF SpmAccess, FetchAccess
  <1>3. NoAccess \notin Transfers /\ Flushes \cap Transfers = {}
    BY CacheAssumption
  <1> HIDE DEF Pending
  <1>4. CASE FetchSpm
    <2>1. Pending["IF"] = SpmAccess /\ Pending'["MW"] = Pending["MW"]
      BY <1>4, PendingAccesses DEF FetchSpm, IFWaits, IFAccess
    <2>2. result' = ReadPeek(SpmAccess) /\ mem' = mem
      BY <1>4 DEF FetchSpm
    <2> QED BY <1>1, <1>2, <2>1, <2>2, AnswersAsPromised
  <1>5. CASE FetchWord
    <2>1. ~ (pc < SpmWords)
      BY <1>5, CacheAssumption DEF FetchWord, PipeInv
    <2>2. Pending["IF"] = FetchAccess /\ Pending'["MW"] = Pending["MW"]
      BY <1>5, <2>1, PendingAccesses DEF FetchWord, IFWaits, IFAccess
    <2>3. result' = ReadPeek(FetchAccess) /\ mem' = mem
      BY <1>5, ReadAnswers DEF FetchWord
    <2> QED BY <1>1, <1>2, <2>2, <2>3, AnswersAsPromised
  <1>6. CASE FetchWaits \/ NoFetch \/ AccessWaits \/ NoAccessInMW
    <2>1. UNCHANGED <<pc, wordsFetched, disableIF, access, mem>> /\ result' = NoResult
      BY <1>6 DEF FetchWaits, NoFetch, AccessWaits, NoAccessInMW, ReadWaits, WriteWaits
    <2>2. \A p \in Port : Pending'[p] = Pending[p]
      BY <1>1, <2>1, PendingAccesses
    <2> QED BY <2>1, <2>2, AsksAsPromised
  <1>7. CASE AccessDone
    <2>1. access \in Transfers /\ access # NoAccess
      BY <1>3, <1>7 DEF AccessDone
    <2>2. Pending["MW"] = access /\ Pending'["IF"] = Pending["IF"]
      BY <1>7, <2>1, PendingAccesses DEF AccessDone
    <2>3. \/ access.load /\ result' = ReadPeek(access) /\ mem' = mem
          \/ ~ access.load /\ result' = NoResult /\ mem' = WritePeek(access)
      BY <1>7, ReadAnswers DEF AccessDone, Write
    <2> QED BY <1>1, <2>1, <2>2, <2>3, AnswersAsPromised
  <1>8. CASE FlushMW
    <2>1. access \notin Transfers /\ UNCHANGED <<pc, wordsFetched, disableIF, mem>>
          /\ result' = NoResult
      BY <1>3, <1>8 DEF FlushMW
    <2>2. \A p \in Port : Pending[p] # NoAccess => Pending'[p] = Pending[p]
      BY <1>1, <2>1, PendingAccesses
    <2> QED BY <2>1, <2>2, AsksAsPromised
  <1>9. CASE EndCycle
    <2>1. result' = NoResult /\ mem' = mem /\ wordsFetched' = wordsFetched
      BY <1>9 DEF EndCycle
    <2>2. \A p \in Port : Pending[p] # NoAccess => Pending'[p] = Pending[p]
      <3>1. CASE stall
        <4>1. UNCHANGED <<pc, wordsFetched, disableIF, access>>
          BY <1>9, <3>1 DEF EndCycle
        <4> QED BY <1>1, <4>1, PendingAccesses
      <3>2. CASE ~ stall
        <4>1. disableIF /\ access \notin Transfers
          BY <1>3, <1>9, <3>2 DEF EndCycle, PipeInv
        <4> QED BY <1>1, <4>1, PendingAccesses DEF IFWaits
      <3> QED BY <3>1, <3>2
    <2> QED BY <2>1, <2>2, AsksAsPromised
  <1>10. CASE UNCHANGED cachesVars
    <2>1. UNCHANGED <<mem, Pending, result>>
      BY <1>10 DEF cachesVars, Pending, FetchAccess, SpmAccess
    <2> QED BY <2>1 DEF Promise!vars
  <1> QED BY <1>4, <1>5, <1>6, <1>7, <1>8, <1>9, <1>10 DEF CachesNext

\* The two caches, with the memory behind them, are a memory: every load and fetch
\* gets the words that memory holds, whether its block was resident, loaded, evicted
\* or flushed while it waited, and every store changes its own words, once.
THEOREM CacheRefinesProgramMemory == CachesSpec => DataRefinesProgramMemory
  <1>1. CachesInit => Promise!Init
    BY DEF CachesInit, Promise!Init
  <1>2. CachesInit => PipeInv
    BY CacheInit DEF CacheIInv
  <1>3. PipeInv /\ [CachesNext]_cachesVars => PipeInv'
    BY PipeStep
  <1>4. PipeInv /\ [CachesNext]_cachesVars => [Promise!Next]_(Promise!vars)
    BY StepKeepsPromise
  <1> QED BY <1>1, <1>2, <1>3, <1>4, PTL
          DEF CachesSpec, DataRefinesProgramMemory, Promise!Spec
=============================================================================
