----------------------------- MODULE DramProofs ------------------------------
(***************************************************************************)
(* Proofs about the DRAM channel and its controller, for every standard,   *)
(* every number of ranks, bank groups, banks and rows, every size of the   *)
(* queues and every program: however refreshes, reads and writes follow    *)
(* each other, the commands issued keep the times of the standard.         *)
(***************************************************************************)
EXTENDS RamulatorMemory, SequenceTheorems, FiniteSetTheorems, WellFoundedInduction, TLAPS

-----------------------------------------------------------------------------
(***************************************************************************)
(* Least and greatest elements, and induction as a statement about sets.   *)
(***************************************************************************)
LEMMA LeastElement ==
  ASSUME NEW T \in SUBSET Nat, T # {}
  PROVE  \E n \in T : \A m \in T : n <= m
<1>1. IsWellFoundedOn(OpToRel(<, Nat), Nat)
  BY NatLessThanWellFounded
<1>2. \E n \in T : \A m \in T : <<m, n>> \notin OpToRel(<, Nat)
  BY <1>1, WFMin
<1>3. \E n \in T : \A m \in T : ~ (m < n)
  BY <1>2 DEF OpToRel
<1> QED BY <1>3

LEMMA SetInduction ==
  ASSUME NEW S, 0 \in S, \A n \in Nat : n \in S => n + 1 \in S
  PROVE  Nat \subseteq S
<1> SUFFICES ASSUME Nat \ S # {} PROVE FALSE
  OBVIOUS
<1>1. PICK n \in Nat \ S : \A m \in Nat \ S : n <= m
  BY LeastElement
<1>2. n # 0 /\ n - 1 \in Nat /\ n - 1 < n
  BY <1>1
<1>3. n - 1 \in S
  BY <1>1, <1>2
<1> QED BY <1>2, <1>3

LEMMA MinOfNaturals ==
  ASSUME NEW T \in SUBSET Nat, T # {}
  PROVE  Min(T) \in T /\ \A m \in T : Min(T) <= m
BY LeastElement DEF Min

LEMMA MinOfTwo ==
  ASSUME NEW a \in Nat, NEW b \in Nat
  PROVE  Min({a, b}) \in Nat /\ Min({a, b}) <= a
<1>1. {a, b} \in SUBSET Nat /\ {a, b} # {}
  OBVIOUS
<1> QED BY <1>1, MinOfNaturals

Bounded(T, bound) == bound \in Int /\ \A x \in T : x <= bound

LEMMA MaxOfBounded ==
  ASSUME NEW T \in SUBSET Int, T # {}, NEW bound, Bounded(T, bound)
  PROVE  Max(T) \in T /\ \A y \in T : y <= Max(T)
<1> USE DEF Bounded
<1> DEFINE D == {bound - x : x \in T}
<1>1. D \in SUBSET Nat /\ D # {}
  <2>1. \A x \in T : bound - x \in Nat
    OBVIOUS
  <2>2. D \in SUBSET Nat
    BY <2>1
  <2>3. D # {}
    BY Zenon
  <2> QED BY <2>2, <2>3
<1>2. PICK d \in D : \A m \in D : d <= m
  BY <1>1, LeastElement
<1>3. PICK x \in T : d = bound - x
  BY <1>2
<1>4. \A y \in T : x >= y
  <2> TAKE y \in T
  <2>1. bound - y \in D
    OBVIOUS
  <2>2. bound - x <= bound - y
    BY <1>2, <1>3, <2>1
  <2> QED BY <2>2
<1>5. Max(T) \in T /\ \A y \in T : Max(T) >= y
  BY <1>3, <1>4 DEF Max
<1> QED BY <1>5

-----------------------------------------------------------------------------
(***************************************************************************)
(* Nodes: what they wait for, and what they remember.                      *)
(***************************************************************************)
WaitsType == [Nodes -> [Commands -> 0 .. Standard.longest]]

PastOK(remembered) ==
  /\ DOMAIN remembered = Histories
  /\ \A h \in Histories : remembered[h] \in [1 .. Remembered(h[1], h[2]) -> Nat]

LEMMA FunctionIsSeq ==
  ASSUME NEW S, NEW n \in Nat, NEW f \in [1 .. n -> S]
  PROVE  f \in Seq(S) /\ Len(f) = n
<1>1. f = [i \in 1 .. n |-> f[i]] /\ \A i \in 1 .. n : f[i] \in S
  OBVIOUS
<1>2. PICK g : g = [i \in 1 .. n |-> f[i]] /\ g = f
  BY <1>1
<1>3. g \in Seq(S)
  BY <1>2, SeqDef
<1>4. DOMAIN g = 1 .. n
  BY <1>2
<1>5. Len(g) \in Nat /\ DOMAIN g = 1 .. Len(g)
  BY <1>3, LenProperties
<1>6. Len(g) = n
  BY <1>4, <1>5
<1> QED BY <1>2, <1>3, <1>6

\* What the proofs use of a channel.
LEMMA ChannelFacts ==
  ASSUME ChannelOK
  PROVE  /\ Depth \in Nat \ {0} /\ \A i \in 1 .. Depth : Children[i] \in 1 .. 8
         /\ Rows \in Nat \ {0}
         /\ Standard.longest \in Nat /\ Standard.readLatency \in Nat
         /\ {"RD", "WR", "REF", Standard.needs.closed, Standard.needs.otherRow,
             Standard.needs.anyOpen} \subseteq Commands
         /\ \A cmd \in Commands : Standard.scope[cmd] \in Nat
         /\ Standard.scope["REF"] <= Rank /\ Standard.scope[Standard.needs.anyOpen] = Rank
         /\ Standard.scope[Standard.needs.otherRow] = Depth
<1>1. Depth \in Nat \ {0} /\ \A i \in 1 .. Depth : Children[i] \in 1 .. 8
  BY EmptySeq, LenProperties, ElementOfSeq DEF ChannelOK, GeometryOK, Depth
<1>2. Rows \in Nat \ {0}
  BY DEF ChannelOK, GeometryOK
<1> QED BY <1>1, <1>2 DEF ChannelOK, StandardOK, Commands

LEMMA NodeEntries ==
  ASSUME ChannelOK, NEW n \in Nodes
  PROVE  /\ Depth \in Nat \ {0} /\ n \in Seq(Int) /\ Len(n) \in 0 .. Depth
         /\ \A e \in EntriesOf(n) : EntryOK(Standard, e)
<1>1. Depth \in Nat \ {0}
  BY ChannelFacts
<1>2. PICK l \in 0 .. Depth : n \in [1 .. l -> 0 .. 7]
  BY DEF Nodes
<1>3. n \in Seq(Int) /\ Len(n) = l
  <2>1. n \in [1 .. l -> Int] /\ l \in Nat
    BY <1>1, <1>2
  <2> QED BY <2>1, FunctionIsSeq
<1>4. \A i \in 1 .. Depth + 1 : \A e \in Standard.timing[i] : EntryOK(Standard, e)
  BY DEF ChannelOK, StandardOK
<1> QED BY <1>1, <1>2, <1>3, <1>4 DEF EntriesOf

\* A node remembers as many issues of a command as one of its entries looks back.
LEMMA RemembersEnough ==
  ASSUME ChannelOK, NEW n \in Nodes, NEW cmd
  PROVE  /\ Remembered(n, cmd) \in 0 .. 4
         /\ \A e \in EntriesOf(n) : e.on = cmd /\ e.dist > 1 => e.dist <= Remembered(n, cmd)
<1> DEFINE T == {e.dist : e \in {t \in EntriesOf(n) : t.on = cmd /\ t.dist > 1}} \cup {0}
<1>1. \A e \in EntriesOf(n) : e.dist \in 0 .. 4
  BY NodeEntries DEF EntryOK, Commands
<1>2. T \in SUBSET Int /\ \A x \in T : x \in 0 .. 4
  BY <1>1
<1>3. T # {} /\ \A x \in T : x <= 4
  BY <1>2
<1>4. Max(T) \in T /\ \A y \in T : y <= Max(T)
  <2>1. PICK U : U = T
    OBVIOUS
  <2>2. U \in SUBSET Int /\ U # {} /\ Bounded(U, 4)
    BY <1>2, <1>3, <2>1 DEF Bounded
  <2> HIDE DEF T
  <2>3. Max(U) \in U /\ \A y \in U : y <= Max(U)
    BY <2>2, MaxOfBounded
  <2> QED BY <2>1, <2>3
<1>5. Remembered(n, cmd) = Max(T)
  BY DEF Remembered
<1>6. \A e \in EntriesOf(n) : e.on = cmd /\ e.dist > 1 => e.dist \in T
  OBVIOUS
<1> HIDE DEF T
<1> QED BY <1>2, <1>4, <1>5, <1>6

\* The clock moves on.
LEMMA WaitLessType ==
  ASSUME ChannelOK, NEW wait \in WaitsType
  PROVE  /\ WaitLess(wait) \in WaitsType
         /\ \A n \in Nodes, c \in Commands : WaitLess(wait)[n][c] >= wait[n][c] - 1
<1>1. Standard.longest \in Nat
  BY ChannelFacts
<1>2. \A n \in Nodes, c \in Commands :
        /\ wait[n][c] \in 0 .. Standard.longest
        /\ WaitLess(wait)[n][c] = IF wait[n][c] > 0 THEN wait[n][c] - 1 ELSE 0
  BY DEF WaitsType, WaitLess
<1>3. \A n \in Nodes, c \in Commands :
        /\ WaitLess(wait)[n][c] \in 0 .. Standard.longest
        /\ WaitLess(wait)[n][c] >= wait[n][c] - 1
  BY <1>1, <1>2
<1>4. \A n \in Nodes : WaitLess(wait)[n] \in [Commands -> 0 .. Standard.longest]
  <2> TAKE n \in Nodes
  <2>1. WaitLess(wait)[n] = [c \in Commands |-> WaitLess(wait)[n][c]]
    BY DEF WaitLess, WaitsType
  <2> QED BY <1>3, <2>1
<1>5. WaitLess(wait) = [n \in Nodes |-> WaitLess(wait)[n]]
  BY DEF WaitLess, WaitsType
<1> QED BY <1>3, <1>4, <1>5 DEF WaitsType

LEMMA OlderType ==
  ASSUME ChannelOK, NEW remembered, PastOK(remembered)
  PROVE  /\ PastOK(Older(remembered))
         /\ \A h \in Histories : \A k \in 1 .. Remembered(h[1], h[2]) :
              Older(remembered)[h][k] <= remembered[h][k] + 1
<1>1. Standard.longest \in Nat
  BY ChannelFacts
<1>2. ASSUME NEW h \in Histories
      PROVE  /\ Older(remembered)[h] \in [1 .. Remembered(h[1], h[2]) -> Nat]
             /\ \A k \in 1 .. Remembered(h[1], h[2]) :
                  Older(remembered)[h][k] <= remembered[h][k] + 1
  <2>1. remembered[h] \in [1 .. Remembered(h[1], h[2]) -> Nat]
    BY DEF PastOK
  <2>2. Older(remembered)[h] = [k \in 1 .. Remembered(h[1], h[2]) |->
                                  Min({remembered[h][k] + 1, Standard.longest})]
    BY <2>1 DEF Older, PastOK
  <2>3. ASSUME NEW k \in 1 .. Remembered(h[1], h[2])
        PROVE  /\ Min({remembered[h][k] + 1, Standard.longest}) \in Nat
               /\ Min({remembered[h][k] + 1, Standard.longest}) <= remembered[h][k] + 1
    <3>1. remembered[h][k] + 1 \in Nat
      <4>1. PICK r : r = remembered[h]
        OBVIOUS
      <4>2. r[k] \in Nat
        BY <2>1, <4>1
      <4> QED BY <4>1, <4>2
    <3> QED BY <1>1, <3>1, MinOfTwo
  <2> QED BY <2>2, <2>3
<1>3. DOMAIN Older(remembered) = Histories
  BY DEF Older, PastOK
<1> QED BY <1>2, <1>3 DEF PastOK

\* update_timing, the history: the command comes first, the oldest is forgotten.
LEMMA RecordedType ==
  ASSUME ChannelOK, NEW remembered, PastOK(remembered), NEW cmd, NEW addr
  PROVE  /\ PastOK(Recorded(remembered, cmd, addr))
         /\ \A h \in Histories : ~ (h[2] = cmd /\ Target(h[1], addr)) =>
              Recorded(remembered, cmd, addr)[h] = remembered[h]
         /\ \A h \in Histories : h[2] = cmd /\ Target(h[1], addr) =>
              /\ Recorded(remembered, cmd, addr)[h][1] = 0
              /\ \A k \in 2 .. Remembered(h[1], h[2]) :
                   Recorded(remembered, cmd, addr)[h][k] = remembered[h][k - 1]
<1>1. DOMAIN Recorded(remembered, cmd, addr) = Histories
  BY DEF Recorded, PastOK
<1>2. ASSUME NEW h \in Histories
      PROVE  Recorded(remembered, cmd, addr)[h] =
               IF h[2] = cmd /\ Target(h[1], addr)
               THEN <<0>> \o Front(remembered[h]) ELSE remembered[h]
  BY DEF Recorded, PastOK
<1>3. ASSUME NEW h \in Histories
      PROVE  /\ remembered[h] \in [1 .. Remembered(h[1], h[2]) -> Nat]
             /\ <<0>> \o Front(remembered[h]) \in [1 .. Remembered(h[1], h[2]) -> Nat]
             /\ (<<0>> \o Front(remembered[h]))[1] = 0
             /\ \A k \in 2 .. Remembered(h[1], h[2]) :
                  (<<0>> \o Front(remembered[h]))[k] = remembered[h][k - 1]
  <2>1. PICK size, r : size = Remembered(h[1], h[2]) /\ r = remembered[h]
    OBVIOUS
  <2>2. size \in Nat /\ size > 0
    <3>1. PICK n \in Nodes, c \in Commands : h = <<n, c>> /\ Remembered(n, c) > 0
      BY DEF Histories
    <3>2. Remembered(n, c) \in 0 .. 4
      BY RemembersEnough
    <3> QED BY <2>1, <3>1, <3>2
  <2>3. r \in [1 .. size -> Nat]
    BY <2>1 DEF PastOK
  <2>4. r \in Seq(Nat) /\ Len(r) = size
    BY <2>2, <2>3
  <2>5. Front(r) = SubSeq(r, 1, size - 1)
    BY <2>4 DEF Front
  <2>6. Front(r) \in Seq(Nat) /\ Len(Front(r)) = size - 1
        /\ \A i \in 1 .. size - 1 : Front(r)[i] = r[i]
    BY <2>2, <2>4, <2>5
  <2> HIDE DEF Front
  <2>7. PICK f : f = Front(r)
    OBVIOUS
  <2>8. /\ <<0>> \o f \in Seq(Nat) /\ Len(<<0>> \o f) = size
        /\ (<<0>> \o f)[1] = 0
        /\ \A k \in 2 .. size : (<<0>> \o f)[k] = f[k - 1]
    BY <2>2, <2>6, <2>7
  <2>9. <<0>> \o f \in [1 .. size -> Nat]
    BY <2>8, LenProperties
  <2> QED BY <2>1, <2>2, <2>3, <2>6, <2>7, <2>8, <2>9
<1> QED BY <1>1, <1>2, <1>3 DEF PastOK

\* update_timing, one node: no wait gets shorter, and every entry of the command is kept.
\* What a node remembers has the command already.
LaterOK(later, wait, remembered, cmd, n, beside) ==
  /\ later \in [Commands -> 0 .. Standard.longest]
  /\ \A c \in Commands : later[c] >= wait[n][c]
  /\ \A e \in EntriesOf(n) : e.on = cmd /\ e.sibling = beside =>
       later[e.cmd] >= e.val - (IF e.dist = 1 THEN 0 ELSE remembered[<<n, cmd>>][e.dist])

LEMMA LaterWaits ==
  ASSUME ChannelOK, NEW wait \in WaitsType, NEW remembered, PastOK(remembered),
         NEW cmd \in Commands, NEW n \in Nodes, NEW beside \in BOOLEAN
  PROVE  LaterOK(Later(wait, remembered, cmd, n, beside), wait, remembered, cmd, n, beside)
<1> DEFINE Since(e) == IF e.dist = 1 THEN 0 ELSE remembered[<<n, cmd>>][e.dist]
           Entries == {e \in EntriesOf(n) : e.on = cmd /\ e.sibling = beside}
           T(c) == {e.val - Since(e) : e \in {x \in Entries : x.cmd = c}} \cup {wait[n][c]}
<1>1. \A e \in Entries : /\ e \in EntriesOf(n) /\ e.on = cmd /\ e.cmd \in Commands
                          /\ e.val \in Int /\ e.val <= Standard.longest /\ Since(e) \in Nat
  <2> TAKE e \in Entries
  <2>1. e \in EntriesOf(n) /\ e.on = cmd /\ EntryOK(Standard, e)
    BY NodeEntries
  <2>2. CASE e.dist = 1
    BY <2>1, <2>2 DEF EntryOK, Commands
  <2>3. CASE e.dist # 1
    <3>1. e.dist \in Nat /\ e.dist > 1
      BY <2>1, <2>3 DEF EntryOK, Commands
    <3>2. e.dist <= Remembered(n, cmd) /\ Remembered(n, cmd) \in Nat
      BY <2>1, <3>1, RemembersEnough
    <3>3. <<n, cmd>> \in Histories
      BY <3>1, <3>2 DEF Histories
    <3>4. remembered[<<n, cmd>>] \in [1 .. Remembered(n, cmd) -> Nat]
      BY <3>3 DEF PastOK
    <3>5. Since(e) = remembered[<<n, cmd>>][e.dist]
      BY <2>3
    <3>6. remembered[<<n, cmd>>][e.dist] \in Nat
      <4>1. PICK r : r = remembered[<<n, cmd>>]
        OBVIOUS
      <4> QED BY <3>1, <3>2, <3>4, <4>1
    <3> QED BY <2>1, <3>5, <3>6 DEF EntryOK, Commands
  <2> QED BY <2>2, <2>3
<1>2. Standard.longest \in Nat
  BY ChannelFacts
<1> HIDE DEF Since
<1>3. ASSUME NEW c \in Commands
      PROVE  /\ Max(T(c)) \in 0 .. Standard.longest /\ Max(T(c)) >= wait[n][c]
             /\ \A e \in Entries : e.cmd = c => Max(T(c)) >= e.val - Since(e)
  <2>1. PICK U : U = T(c)
    OBVIOUS
  <2>2. wait[n][c] \in 0 .. Standard.longest /\ wait[n][c] \in U
    BY <2>1 DEF WaitsType
  <2>3. \A x \in U : x \in Int /\ x <= Standard.longest
    <3> TAKE x \in U
    <3>1. CASE x = wait[n][c]
      BY <1>2, <2>2, <3>1
    <3>2. CASE x # wait[n][c]
      <4>1. PICK e \in Entries : x = e.val - Since(e)
        BY <2>1, <3>2
      <4>2. e.val \in Int /\ e.val <= Standard.longest /\ Since(e) \in Nat
        BY <1>1
      <4> QED BY <1>2, <4>1, <4>2
    <3> QED BY <3>1, <3>2
  <2>4. \A e \in Entries : e.cmd = c => e.val - Since(e) \in U
    BY <2>1
  <2> HIDE DEF T
  <2>5. U \in SUBSET Int /\ U # {} /\ Bounded(U, Standard.longest)
    BY <1>2, <2>2, <2>3 DEF Bounded
  <2>6. Max(U) \in U /\ \A y \in U : y <= Max(U)
    BY <2>5, MaxOfBounded
  <2>7. Max(U) \in Int /\ Max(U) <= Standard.longest /\ wait[n][c] <= Max(U)
    BY <2>2, <2>3, <2>6
  <2>8. \A e \in Entries : e.cmd = c => Max(U) >= e.val - Since(e)
    BY <2>4, <2>6
  <2> QED BY <1>2, <2>1, <2>2, <2>7, <2>8
<1>4. Later(wait, remembered, cmd, n, beside) = [c \in Commands |-> Max(T(c))]
  BY DEF Later, Since
<1> HIDE DEF T
<1>5. PICK later : later = [c \in Commands |-> Max(T(c))]
  OBVIOUS
<1>6. later \in [Commands -> 0 .. Standard.longest] /\ \A c \in Commands : later[c] >= wait[n][c]
  BY <1>3, <1>5
<1>7. \A e \in Entries : later[e.cmd] >= e.val - Since(e)
  BY <1>1, <1>3, <1>5
<1> QED BY <1>4, <1>5, <1>6, <1>7 DEF Since, LaterOK

\* update_timing, all nodes.
DelayedOK(delayed, wait, remembered, cmd, addr) ==
  /\ delayed \in WaitsType
  /\ \A n \in Nodes, c \in Commands : delayed[n][c] >= wait[n][c]
  /\ \A n \in Nodes : \A e \in EntriesOf(n) :
       e.on = cmd /\ (IF e.sibling THEN Beside(n, addr) ELSE Target(n, addr)) =>
         delayed[n][e.cmd] >= e.val - (IF e.dist = 1 THEN 0 ELSE remembered[<<n, cmd>>][e.dist])

LEMMA DelayedWaits ==
  ASSUME ChannelOK, NEW wait \in WaitsType, NEW remembered, PastOK(remembered),
         NEW cmd \in Commands, NEW addr
  PROVE  DelayedOK(Delayed(wait, remembered, cmd, addr), wait, remembered, cmd, addr)
<1>1. PICK delayed : delayed = Delayed(wait, remembered, cmd, addr)
  OBVIOUS
<1>2. /\ DOMAIN delayed = Nodes
      /\ delayed = [n \in Nodes |-> delayed[n]]
      /\ \A n \in Nodes :
           \/ Target(n, addr) /\ delayed[n] = Later(wait, remembered, cmd, n, FALSE)
           \/ Beside(n, addr) /\ delayed[n] = Later(wait, remembered, cmd, n, TRUE)
           \/ ~ Target(n, addr) /\ ~ Beside(n, addr) /\ delayed[n] = wait[n]
  <2>1. DOMAIN wait = Nodes
    BY DEF WaitsType
  <2>2. DOMAIN delayed = Nodes /\ delayed = [n \in Nodes |-> delayed[n]]
    BY <1>1, <2>1 DEF Delayed
  <2>3. \A n \in Nodes :
          delayed[n] = CASE Target(n, addr) -> Later(wait, remembered, cmd, n, FALSE)
                         [] Beside(n, addr) -> Later(wait, remembered, cmd, n, TRUE)
                         [] OTHER           -> wait[n]
    BY <1>1, <2>1 DEF Delayed
  <2>4. \A n \in Nodes : ~ (Target(n, addr) /\ Beside(n, addr))
    BY DEF Beside
  <2> QED BY <2>2, <2>3, <2>4
<1>3. \A n \in Nodes : ~ (Target(n, addr) /\ Beside(n, addr))
  BY DEF Beside
<1>4. ASSUME NEW n \in Nodes
      PROVE  /\ delayed[n] \in [Commands -> 0 .. Standard.longest]
             /\ \A c \in Commands : delayed[n][c] >= wait[n][c]
             /\ \A e \in EntriesOf(n) :
                  e.on = cmd /\ (IF e.sibling THEN Beside(n, addr) ELSE Target(n, addr)) =>
                    delayed[n][e.cmd] >=
                      e.val - (IF e.dist = 1 THEN 0 ELSE remembered[<<n, cmd>>][e.dist])
  <2>1. \A e \in EntriesOf(n) : e.sibling \in BOOLEAN
    BY NodeEntries DEF EntryOK, Commands
  <2>2. CASE Target(n, addr)
    <3>1. delayed[n] = Later(wait, remembered, cmd, n, FALSE) /\ ~ Beside(n, addr)
      BY <1>2, <1>3, <2>2
    <3>2. LaterOK(delayed[n], wait, remembered, cmd, n, FALSE)
      BY <3>1, LaterWaits
    <3> QED BY <2>1, <2>2, <3>1, <3>2 DEF LaterOK
  <2>3. CASE Beside(n, addr)
    <3>1. delayed[n] = Later(wait, remembered, cmd, n, TRUE) /\ ~ Target(n, addr)
      BY <1>2, <1>3, <2>3
    <3>2. LaterOK(delayed[n], wait, remembered, cmd, n, TRUE)
      BY <3>1, LaterWaits
    <3> QED BY <2>1, <2>3, <3>1, <3>2 DEF LaterOK
  <2>4. CASE ~ Target(n, addr) /\ ~ Beside(n, addr)
    <3>1. delayed[n] = wait[n] /\ wait[n] \in [Commands -> 0 .. Standard.longest]
      BY <1>2, <1>3, <2>4 DEF WaitsType
    <3>2. \A c \in Commands : wait[n][c] \in Int
      BY <3>1, ChannelFacts
    <3> QED BY <2>1, <2>4, <3>1, <3>2
  <2> QED BY <2>2, <2>3, <2>4
<1> QED BY <1>1, <1>2, <1>4 DEF WaitsType, DelayedOK

-----------------------------------------------------------------------------
(***************************************************************************)
(* The history of the commands, and what the nodes know of it.             *)
(***************************************************************************)
Targets == {a \in Seq(Int) : a # <<>>}
Issues == [cmd : Commands, addr : Targets, ago : Nat]
Concerned(n, e, h) == {i \in DOMAIN h : Concerns(n, e, h[i])}
Counted(x, h) == {i \in DOMAIN h : h[i].cmd = x[2] /\ Target(x[1], h[i].addr)}

\* What a node waits for covers every entry, whichever commands it is counted from.
WaitsCover(wait, h) ==
  \A n \in Nodes : \A e \in EntriesOf(n) : \A p \in Picks(Concerned(n, e, h), e.dist) :
    wait[n][e.cmd] + h[p[e.dist]].ago >= e.val

\* What a node remembers is as late as the commands were, at least.
PastCovers(remembered, h) ==
  \A x \in Histories : \A k \in 1 .. Remembered(x[1], x[2]) : \A p \in Picks(Counted(x, h), k) :
    remembered[x][k] <= h[p[k]].ago

\* The first command of a history keeps every time.
FirstApart(h) ==
  \A l \in 0 .. Depth : l <= Standard.scope[h[1].cmd] =>
    \A e \in {x \in EntriesOf(SubSeq(h[1].addr, 1, l)) : x.cmd = h[1].cmd} :
      \A p \in Picks(Concerned(SubSeq(h[1].addr, 1, l), e, h) \ {1}, e.dist) :
        h[p[e.dist]].ago >= e.val

\* The same commands, one cycle later; the oldest may be forgotten.
Ages(h, r) ==
  /\ h \in Seq(Issues) /\ r \in Seq(Issues) /\ Len(r) <= Len(h)
  /\ \A i \in 1 .. Len(r) : /\ r[i].cmd = h[i].cmd /\ r[i].addr = h[i].addr
                            /\ r[i].ago = h[i].ago + 1

Prefixed(c, r, g) ==
  /\ r \in Seq(Issues) /\ g \in Seq(Issues) /\ c \in Issues /\ Len(g) = Len(r) + 1 /\ g[1] = c
  /\ \A i \in 1 .. Len(r) : g[i + 1] = r[i]

LEMMA RecentAges ==
  ASSUME ChannelOK, NEW h \in Seq(Issues)
  PROVE  Ages(h, Recent(h))
<1>1. PICK a : a = Aged(h)
  OBVIOUS
<1>2. /\ a \in Seq(Issues) /\ Len(a) = Len(h)
      /\ \A i \in 1 .. Len(h) : /\ a[i].cmd = h[i].cmd /\ a[i].addr = h[i].addr
                                /\ a[i].ago = h[i].ago + 1
  <2>1. Len(h) \in Nat /\ DOMAIN h = 1 .. Len(h) /\ \A i \in 1 .. Len(h) : h[i] \in Issues
    BY LenProperties, ElementOfSeq
  <2>2. a = [i \in 1 .. Len(h) |-> [h[i] EXCEPT !.ago = @ + 1]]
    BY <1>1, <2>1 DEF Aged
  <2>3. \A i \in 1 .. Len(h) : /\ a[i] \in Issues /\ a[i].cmd = h[i].cmd
                               /\ a[i].addr = h[i].addr /\ a[i].ago = h[i].ago + 1
    BY <2>1, <2>2 DEF Issues
  <2>4. a \in [1 .. Len(h) -> Issues]
    BY <2>2, <2>3
  <2> QED BY <2>1, <2>3, <2>4, FunctionIsSeq
<1>3. Recent(h) = a \/ (h # <<>> /\ Recent(h) = Front(a))
  BY <1>1 DEF Recent
<1>4. CASE Recent(h) = a
  BY <1>2, <1>4 DEF Ages
<1>5. CASE h # <<>> /\ Recent(h) = Front(a)
  <2>1. Len(a) \in Nat /\ Len(a) > 0
    BY <1>2, <1>5, EmptySeq
  <2>2. Front(a) \in Seq(Issues) /\ Len(Front(a)) = Len(a) - 1
        /\ \A i \in 1 .. Len(a) - 1 : Front(a)[i] = a[i]
    BY <1>2, <2>1 DEF Front
  <2>3. PICK f : f = Front(a)
    OBVIOUS
  <2> HIDE DEF Front
  <2>4. Ages(h, f)
    BY <1>2, <2>1, <2>2, <2>3 DEF Ages
  <2> QED BY <1>5, <2>3, <2>4
<1> QED BY <1>3, <1>4, <1>5

LEMMA PrefixedBy ==
  ASSUME NEW c \in Issues, NEW r \in Seq(Issues)
  PROVE  Prefixed(c, r, <<c>> \o r)
BY DEF Prefixed

-----------------------------------------------------------------------------
\* Picks of positions.
LEMMA PickOf ==
  ASSUME NEW S, NEW k \in Nat \ {0}, NEW p \in Picks(S, k)
  PROVE  /\ p \in [1 .. k -> S] /\ p[k] \in S
         /\ \A T : S \subseteq T => p \in Picks(T, k)
BY DEF Picks

Follows(S, T) == S \subseteq Nat \ {0} /\ \A i \in S : i > 1 => i - 1 \in T

\* Of the positions in a history, without the first of them, each one earlier.
LEMMA PickDrops ==
  ASSUME NEW S, NEW T, Follows(S, T), NEW k \in Nat, k > 1, NEW p \in Picks(S, k)
  PROVE  \E q \in Picks(T, k - 1) : q[k - 1] = p[k] - 1
<1>1. PICK q : q = [j \in 1 .. k - 1 |-> p[j + 1] - 1]
  OBVIOUS
<1>2. \A j \in 1 .. k : p[j] \in S /\ p[j] \in Nat /\ p[j] > 0
  <2>1. \A j \in 1 .. k : p[j] \in S
    BY DEF Picks
  <2>2. \A i \in S : i \in Nat /\ i > 0
    BY DEF Follows
  <2> QED BY <2>1, <2>2
<1>3. \A i, j \in 1 .. k : i < j => p[i] < p[j]
  BY DEF Picks
<1>4. \A j \in 1 .. k - 1 : q[j] = p[j + 1] - 1 /\ q[j] \in T /\ j + 1 \in 1 .. k
  <2> TAKE j \in 1 .. k - 1
  <2>1. j + 1 \in 1 .. k /\ 1 \in 1 .. k /\ 1 < j + 1
    OBVIOUS
  <2>2. p[1] < p[j + 1] /\ p[1] \in Nat /\ p[1] > 0 /\ p[j + 1] \in S /\ p[j + 1] \in Nat
    BY <1>2, <1>3, <2>1
  <2>3. p[j + 1] - 1 \in T
    BY <2>2 DEF Follows
  <2> QED BY <1>1, <2>1, <2>3
<1>5. \A i, j \in 1 .. k - 1 : i < j => q[i] < q[j]
  <2> TAKE i, j \in 1 .. k - 1
  <2> HAVE i < j
  <2>1. i + 1 \in 1 .. k /\ j + 1 \in 1 .. k /\ i + 1 < j + 1
    OBVIOUS
  <2>2. p[i + 1] < p[j + 1] /\ p[i + 1] \in Nat /\ p[j + 1] \in Nat
    BY <1>2, <1>3, <2>1
  <2> QED BY <1>4, <2>2
<1>6. q \in [1 .. k - 1 -> T]
  BY <1>1, <1>4
<1>7. q \in Picks(T, k - 1)
  BY <1>5, <1>6 DEF Picks
<1> QED BY <1>4, <1>7

\* None is the first of the history: each one earlier.
LEMMA PickShifts ==
  ASSUME NEW S, NEW T, Follows(S, T), 1 \notin S, NEW k \in Nat \ {0}, NEW p \in Picks(S, k)
  PROVE  \E q \in Picks(T, k) : q[k] = p[k] - 1
<1>1. PICK q : q = [j \in 1 .. k |-> p[j] - 1]
  OBVIOUS
<1>2. \A j \in 1 .. k : p[j] \in S /\ p[j] \in Nat /\ p[j] > 1
  <2>1. \A j \in 1 .. k : p[j] \in S
    BY DEF Picks
  <2>2. \A i \in S : i \in Nat /\ i > 1
    BY DEF Follows
  <2> QED BY <2>1, <2>2
<1>3. \A j \in 1 .. k : q[j] = p[j] - 1 /\ q[j] \in T
  BY <1>1, <1>2 DEF Follows
<1>4. \A i, j \in 1 .. k : i < j => q[i] < q[j]
  BY <1>2, <1>3 DEF Picks
<1>5. q \in Picks(T, k)
  BY <1>1, <1>3, <1>4 DEF Picks
<1> QED BY <1>3, <1>5

-----------------------------------------------------------------------------
\* A cycle without a command.
LEMMA EntryCounts ==
  ASSUME ChannelOK, NEW n \in Nodes, NEW e \in EntriesOf(n)
  PROVE  /\ e.dist \in Nat \ {0} /\ e.val \in Int /\ e.on \in Commands /\ e.cmd \in Commands
         /\ e.sibling \in BOOLEAN /\ (e.sibling => e.dist = 1)
BY NodeEntries DEF EntryOK, Commands

LEMMA AgeSubsets ==
  ASSUME NEW h, NEW r, Ages(h, r)
  PROVE  /\ \A n, e : Concerned(n, e, r) \subseteq Concerned(n, e, h)
         /\ \A x : Counted(x, r) \subseteq Counted(x, h)
         /\ \A i \in DOMAIN r : r[i].ago \in Nat /\ h[i].ago \in Nat /\ r[i].ago = h[i].ago + 1
<1>1. DOMAIN r = 1 .. Len(r) /\ DOMAIN h = 1 .. Len(h) /\ Len(r) \in Nat /\ Len(h) \in Nat
  BY LenProperties DEF Ages
<1>2. DOMAIN r \subseteq DOMAIN h
  BY <1>1 DEF Ages
<1>3. \A i \in DOMAIN r : r[i] \in Issues /\ h[i] \in Issues
  BY <1>1, <1>2, ElementOfSeq DEF Ages
<1>4. \A i \in DOMAIN r : r[i].cmd = h[i].cmd /\ r[i].addr = h[i].addr /\ r[i].ago = h[i].ago + 1
  BY <1>1 DEF Ages
<1>5. \A n, e : Concerned(n, e, r) \subseteq Concerned(n, e, h)
  BY <1>2, <1>4 DEF Concerned, Concerns
<1>6. \A x : Counted(x, r) \subseteq Counted(x, h)
  BY <1>2, <1>4 DEF Counted
<1> QED BY <1>3, <1>4, <1>5, <1>6 DEF Issues

LEMMA AgeWaits ==
  ASSUME ChannelOK, NEW h, NEW r, Ages(h, r), NEW wait \in WaitsType, WaitsCover(wait, h)
  PROVE  WaitsCover(WaitLess(wait), r)
<1> SUFFICES ASSUME NEW n \in Nodes, NEW e \in EntriesOf(n),
                    NEW p \in Picks(Concerned(n, e, r), e.dist)
             PROVE  WaitLess(wait)[n][e.cmd] + r[p[e.dist]].ago >= e.val
  BY DEF WaitsCover
<1>1. PICK k, i : k = e.dist /\ i = p[e.dist]
  OBVIOUS
<1>2. k \in Nat \ {0} /\ e.val \in Int /\ e.cmd \in Commands
  BY <1>1, EntryCounts
<1>3. i \in Concerned(n, e, r) /\ p \in Picks(Concerned(n, e, h), e.dist)
  BY <1>1, <1>2, AgeSubsets, PickOf
<1>4. r[i].ago \in Nat /\ h[i].ago \in Nat /\ r[i].ago = h[i].ago + 1
  BY <1>3, AgeSubsets DEF Concerned
<1>5. wait[n][e.cmd] + h[i].ago >= e.val
  BY <1>1, <1>3 DEF WaitsCover
<1>6. WaitLess(wait)[n][e.cmd] >= wait[n][e.cmd] - 1
  BY <1>2, WaitLessType
<1>7. wait[n][e.cmd] \in Int /\ WaitLess(wait)[n][e.cmd] \in Int
  <2>1. WaitLess(wait) \in WaitsType /\ Standard.longest \in Nat
    BY WaitLessType, ChannelFacts
  <2>2. PICK later : later = WaitLess(wait)
    OBVIOUS
  <2>3. wait[n][e.cmd] \in 0 .. Standard.longest /\ later[n][e.cmd] \in 0 .. Standard.longest
    BY <1>2, <2>1, <2>2 DEF WaitsType
  <2> QED BY <2>1, <2>2, <2>3
<1>8. WaitLess(wait)[n][e.cmd] + r[i].ago >= e.val
  BY <1>2, <1>4, <1>5, <1>6, <1>7
<1> QED BY <1>1, <1>8

LEMMA RememberedType ==
  ASSUME ChannelOK, NEW remembered, PastOK(remembered), NEW x \in Histories,
         NEW k \in 1 .. Remembered(x[1], x[2])
  PROVE  remembered[x][k] \in Nat /\ k \in Nat \ {0}
<1>1. x \in Nodes \X Commands
  BY DEF Histories
<1>2. Remembered(x[1], x[2]) \in 0 .. 4
  BY <1>1, RemembersEnough
<1>3. PICK f : f = remembered[x]
  OBVIOUS
<1>4. f \in [1 .. Remembered(x[1], x[2]) -> Nat]
  BY <1>3 DEF PastOK
<1>5. f[k] \in Nat
  BY <1>4
<1> QED BY <1>2, <1>3, <1>5

LEMMA AgePast ==
  ASSUME ChannelOK, NEW h, NEW r, Ages(h, r), NEW remembered, PastOK(remembered),
         PastCovers(remembered, h)
  PROVE  PastCovers(Older(remembered), r)
<1> SUFFICES ASSUME NEW x \in Histories, NEW k \in 1 .. Remembered(x[1], x[2]),
                    NEW p \in Picks(Counted(x, r), k)
             PROVE  Older(remembered)[x][k] <= r[p[k]].ago
  BY DEF PastCovers
<1>1. k \in Nat \ {0} /\ remembered[x][k] \in Nat
  BY RememberedType
<1>2. Older(remembered)[x][k] <= remembered[x][k] + 1 /\ Older(remembered)[x][k] \in Nat
  BY OlderType, RememberedType
<1>3. PICK i : i = p[k]
  OBVIOUS
<1>4. i \in Counted(x, r) /\ p \in Picks(Counted(x, h), k)
  BY <1>1, <1>3, AgeSubsets, PickOf
<1>5. r[i].ago \in Nat /\ h[i].ago \in Nat /\ r[i].ago = h[i].ago + 1
  BY <1>4, AgeSubsets DEF Counted
<1>6. remembered[x][k] <= h[i].ago
  BY <1>3, <1>4 DEF PastCovers
<1>7. Older(remembered)[x][k] <= r[i].ago
  BY <1>1, <1>2, <1>5, <1>6
<1> QED BY <1>3, <1>7

-----------------------------------------------------------------------------
\* A command is issued.
LEMMA PrefixedCommands ==
  ASSUME NEW c, NEW r, NEW g, Prefixed(c, r, g)
  PROVE  /\ \A n, e : Follows(Concerned(n, e, g), Concerned(n, e, r))
         /\ \A n, e : 1 \in Concerned(n, e, g) <=> Concerns(n, e, c)
         /\ \A x : Follows(Counted(x, g), Counted(x, r))
         /\ \A x : 1 \in Counted(x, g) <=> c.cmd = x[2] /\ Target(x[1], c.addr)
         /\ \A i \in DOMAIN g : g[i].ago \in Nat
         /\ \A i \in DOMAIN g : i # 1 => i - 1 \in DOMAIN r /\ g[i] = r[i - 1]
<1>1. DOMAIN r = 1 .. Len(r) /\ DOMAIN g = 1 .. Len(g) /\ Len(r) \in Nat /\ Len(g) \in Nat
  BY LenProperties DEF Prefixed
<1>2. DOMAIN g = 1 .. Len(r) + 1 /\ g[1] = c /\ \A i \in 1 .. Len(r) : g[i + 1] = r[i]
  BY <1>1 DEF Prefixed
<1>3. \A i \in DOMAIN g : i # 1 => i - 1 \in DOMAIN r /\ g[i] = r[i - 1]
  <2> TAKE i \in DOMAIN g
  <2> HAVE i # 1
  <2>1. i - 1 \in 1 .. Len(r) /\ (i - 1) + 1 = i
    BY <1>1, <1>2
  <2>2. PICK j : j = i - 1
    OBVIOUS
  <2>3. g[j + 1] = r[j]
    BY <1>2, <2>1, <2>2
  <2> QED BY <1>1, <2>1, <2>2, <2>3
<1>4. \A n, e : Follows(Concerned(n, e, g), Concerned(n, e, r))
  <2> TAKE n, e
  <2>1. Concerned(n, e, g) \subseteq Nat \ {0}
    BY <1>1 DEF Concerned
  <2>2. \A i \in Concerned(n, e, g) : i > 1 => i - 1 \in Concerned(n, e, r)
    BY <1>1, <1>3 DEF Concerned
  <2> QED BY <2>1, <2>2 DEF Follows
<1>5. \A x : Follows(Counted(x, g), Counted(x, r))
  <2> TAKE x
  <2>1. Counted(x, g) \subseteq Nat \ {0}
    BY <1>1 DEF Counted
  <2>2. \A i \in Counted(x, g) : i > 1 => i - 1 \in Counted(x, r)
    BY <1>1, <1>3 DEF Counted
  <2> QED BY <2>1, <2>2 DEF Follows
<1>6. 1 \in DOMAIN g
  BY <1>1, <1>2
<1>7. \A i \in DOMAIN g : g[i].ago \in Nat
  <2>1. \A i \in DOMAIN g : g[i] \in Issues
    BY <1>1, ElementOfSeq DEF Prefixed
  <2> QED BY <2>1 DEF Issues
<1> QED BY <1>2, <1>3, <1>4, <1>5, <1>6, <1>7 DEF Concerned, Counted

LEMMA IssuePast ==
  ASSUME ChannelOK, NEW c, NEW r, NEW g, Prefixed(c, r, g),
         NEW remembered, PastOK(remembered), PastCovers(remembered, r)
  PROVE  PastCovers(Recorded(remembered, c.cmd, c.addr), g)
<1> SUFFICES ASSUME NEW x \in Histories, NEW k \in 1 .. Remembered(x[1], x[2]),
                    NEW p \in Picks(Counted(x, g), k)
             PROVE  Recorded(remembered, c.cmd, c.addr)[x][k] <= g[p[k]].ago
  BY DEF PastCovers
<1>1. k \in Nat \ {0} /\ remembered[x][k] \in Nat
  BY RememberedType
<1>2. PICK i : i = p[k]
  OBVIOUS
<1>3. i \in Counted(x, g) /\ i \in DOMAIN g /\ g[i].ago \in Nat
  <2>1. i \in Counted(x, g)
    BY <1>1, <1>2, PickOf
  <2> QED BY <2>1, PrefixedCommands DEF Counted
<1>4. Follows(Counted(x, g), Counted(x, r))
  BY PrefixedCommands
<1>5. PICK cmd, addr, rec : /\ cmd = c.cmd /\ addr = c.addr
                            /\ rec = Recorded(remembered, cmd, addr)
  OBVIOUS
<1>6. CASE ~ (cmd = x[2] /\ Target(x[1], addr))
  <2>1. rec[x] = remembered[x]
    BY <1>5, <1>6, RecordedType
  <2>2. 1 \notin Counted(x, g)
    BY <1>5, <1>6, PrefixedCommands
  <2>3. PICK q \in Picks(Counted(x, r), k) : q[k] = p[k] - 1
    BY <1>1, <1>4, <2>2, PickShifts
  <2>4. remembered[x][k] <= r[q[k]].ago
    BY <2>3 DEF PastCovers
  <2>5. g[i] = r[q[k]]
    BY <1>2, <1>3, <2>2, <2>3, PrefixedCommands
  <2> QED BY <1>2, <1>5, <2>1, <2>4, <2>5
<1>7. CASE cmd = x[2] /\ Target(x[1], addr)
  <2>1. rec[x][1] = 0 /\ \A j \in 2 .. Remembered(x[1], x[2]) : rec[x][j] = remembered[x][j - 1]
    BY <1>5, <1>7, RecordedType
  <2>2. CASE k = 1
    BY <1>2, <1>3, <1>5, <2>1, <2>2
  <2>3. CASE k # 1
    <3>1. k > 1 /\ k \in Nat /\ k \in 2 .. Remembered(x[1], x[2])
          /\ k - 1 \in 1 .. Remembered(x[1], x[2])
      <4>1. Remembered(x[1], x[2]) \in 0 .. 4
        BY RemembersEnough DEF Histories
      <4> QED BY <1>1, <2>3, <4>1
    <3>2. PICK q \in Picks(Counted(x, r), k - 1) : q[k - 1] = p[k] - 1
      BY <1>4, <3>1, PickDrops
    <3>3. remembered[x][k - 1] <= r[q[k - 1]].ago
      BY <3>1, <3>2 DEF PastCovers
    <3>4. p \in [1 .. k -> Counted(x, g)] /\ \A a, b \in 1 .. k : a < b => p[a] < p[b]
      BY DEF Picks
    <3>5. i # 1
      <4>1. 1 \in 1 .. k /\ k \in 1 .. k /\ 1 < k
        BY <3>1
      <4>2. p[1] < p[k] /\ p[1] \in Counted(x, g)
        BY <3>4, <4>1
      <4>3. p[1] \in Nat /\ p[1] # 0
        BY <1>4, <4>2 DEF Follows
      <4> QED BY <1>2, <4>2, <4>3
    <3>6. g[i] = r[q[k - 1]]
      BY <1>2, <1>3, <3>2, <3>5, PrefixedCommands
    <3> QED BY <1>2, <1>5, <2>1, <3>1, <3>3, <3>6
  <2> QED BY <2>2, <2>3
<1> QED BY <1>6, <1>7

LEMMA IssueWaits ==
  ASSUME ChannelOK, NEW c, NEW r, NEW g, Prefixed(c, r, g), NEW wait \in WaitsType,
         WaitsCover(wait, r), NEW remembered, PastOK(remembered), PastCovers(remembered, g),
         NEW delayed, DelayedOK(delayed, wait, remembered, c.cmd, c.addr)
  PROVE  WaitsCover(delayed, g)
<1> SUFFICES ASSUME NEW n \in Nodes, NEW e \in EntriesOf(n),
                    NEW p \in Picks(Concerned(n, e, g), e.dist)
             PROVE  delayed[n][e.cmd] + g[p[e.dist]].ago >= e.val
  BY DEF WaitsCover
<1>1. PICK k, i, cmd, addr : k = e.dist /\ i = p[e.dist] /\ cmd = c.cmd /\ addr = c.addr
  OBVIOUS
<1>2. /\ k \in Nat \ {0} /\ e.val \in Int /\ e.on \in Commands /\ e.cmd \in Commands
      /\ e.sibling \in BOOLEAN /\ (e.sibling => k = 1)
  BY <1>1, EntryCounts
<1>3. i \in Concerned(n, e, g) /\ i \in DOMAIN g /\ g[i].ago \in Nat
  <2>1. i \in Concerned(n, e, g)
    BY <1>1, <1>2, PickOf
  <2> QED BY <2>1, PrefixedCommands DEF Concerned
<1>4. PICK w, d : w = wait[n][e.cmd] /\ d = delayed[n][e.cmd]
  OBVIOUS
<1>5. w \in Int /\ d \in Int /\ d >= w
  <2>1. Standard.longest \in Nat /\ delayed \in WaitsType
    BY ChannelFacts DEF DelayedOK
  <2>2. w \in 0 .. Standard.longest /\ d \in 0 .. Standard.longest
    BY <1>2, <1>4, <2>1 DEF WaitsType
  <2> QED BY <1>2, <1>4, <2>1, <2>2 DEF DelayedOK
<1>6. CASE ~ Concerns(n, e, c)
  <2>1. 1 \notin Concerned(n, e, g) /\ Follows(Concerned(n, e, g), Concerned(n, e, r))
    BY <1>6, PrefixedCommands
  <2>2. PICK q \in Picks(Concerned(n, e, r), k) : q[k] = p[k] - 1
    BY <1>1, <1>2, <2>1, PickShifts
  <2>3. w + r[q[k]].ago >= e.val
    BY <1>1, <1>4, <2>2 DEF WaitsCover
  <2>4. g[i] = r[q[k]]
    BY <1>1, <1>3, <2>1, <2>2, PrefixedCommands
  <2>5. w + g[i].ago >= e.val
    BY <2>3, <2>4
  <2>6. d + g[i].ago >= e.val
    BY <1>2, <1>3, <1>5, <2>5
  <2> QED BY <1>1, <1>4, <2>6
<1>7. CASE Concerns(n, e, c)
  <2>1. e.on = cmd /\ IF e.sibling THEN Beside(n, addr) ELSE Target(n, addr)
    BY <1>1, <1>7 DEF Concerns
  <2>2. d >= e.val - (IF k = 1 THEN 0 ELSE remembered[<<n, cmd>>][k])
    BY <1>1, <1>4, <2>1 DEF DelayedOK
  <2>3. CASE k = 1
    <3>1. d >= e.val
      BY <1>2, <2>2, <2>3
    <3>2. d + g[i].ago >= e.val
      BY <1>2, <1>3, <1>5, <3>1
    <3> QED BY <1>1, <1>4, <3>2
  <2>4. CASE k # 1
    <3>1. ~ e.sibling /\ Target(n, addr) /\ cmd \in Commands /\ k > 1
      BY <1>2, <2>1, <2>4
    <3>2. k \in 1 .. Remembered(n, cmd) /\ <<n, cmd>> \in Histories
      <4>1. Remembered(n, cmd) \in 0 .. 4 /\ k <= Remembered(n, cmd)
        BY <1>1, <2>1, <3>1, RemembersEnough
      <4>2. k \in 1 .. Remembered(n, cmd) /\ Remembered(n, cmd) > 0
        BY <1>2, <4>1
      <4> QED BY <3>1, <4>2 DEF Histories
    <3>3. PICK x \in Histories : x = <<n, cmd>> /\ x[1] = n /\ x[2] = cmd
      BY <3>2
    <3>4. Concerned(n, e, g) \subseteq Counted(x, g)
      BY <2>1, <3>1, <3>3 DEF Concerned, Counted, Concerns
    <3>5. p \in Picks(Counted(x, g), k)
      BY <1>1, <1>2, <3>4, PickOf
    <3>6. remembered[x][k] <= g[i].ago /\ remembered[x][k] \in Nat
      BY <1>1, <3>2, <3>3, <3>5, RememberedType DEF PastCovers
    <3>7. d >= e.val - remembered[x][k]
      BY <2>2, <2>4, <3>3
    <3>8. d + g[i].ago >= e.val
      BY <1>2, <1>3, <1>5, <3>6, <3>7
    <3> QED BY <1>1, <1>4, <3>8
  <2> QED BY <2>3, <2>4
<1> QED BY <1>6, <1>7

\* The command just issued may follow those before it.
LEMMA IssueApart ==
  ASSUME ChannelOK, NEW c, NEW r, NEW g, Prefixed(c, r, g), NEW wait \in WaitsType,
         WaitsCover(wait, r), c.cmd \in Commands, Allowed(wait, c.cmd, c.addr),
         \A l \in 0 .. Depth : l <= Standard.scope[c.cmd] => SubSeq(c.addr, 1, l) \in Nodes
  PROVE  FirstApart(g)
<1>1. PICK cmd, addr : cmd = c.cmd /\ addr = c.addr /\ g[1].cmd = cmd /\ g[1].addr = addr
  BY DEF Prefixed
<1> SUFFICES ASSUME NEW l \in 0 .. Depth, l <= Standard.scope[cmd], NEW n, n = SubSeq(addr, 1, l),
                    NEW e \in EntriesOf(n), e.cmd = cmd,
                    NEW p \in Picks(Concerned(n, e, g) \ {1}, e.dist)
             PROVE  g[p[e.dist]].ago >= e.val
  BY <1>1 DEF FirstApart
<1>2. n \in Nodes /\ wait[n][cmd] = 0
  <2>1. Depth \in Nat /\ Standard.scope[cmd] \in Nat
    BY <1>1, ChannelFacts
  <2>2. l \in 0 .. Standard.scope[cmd] /\ l <= Depth
    BY <2>1
  <2> QED BY <1>1, <2>2 DEF Allowed
<1>3. PICK k, i : k = e.dist /\ i = p[e.dist]
  OBVIOUS
<1>4. k \in Nat \ {0} /\ e.val \in Int
  BY <1>2, <1>3, EntryCounts
<1>5. PICK S : S = Concerned(n, e, g) \ {1}
  OBVIOUS
<1>6. Follows(S, Concerned(n, e, r)) /\ 1 \notin S
  <2>1. Follows(Concerned(n, e, g), Concerned(n, e, r))
    BY PrefixedCommands
  <2> QED BY <1>5, <2>1 DEF Follows
<1>7. PICK q \in Picks(Concerned(n, e, r), k) : q[k] = p[k] - 1
  BY <1>3, <1>4, <1>5, <1>6, PickShifts
<1>8. i \in S /\ i \in DOMAIN g /\ g[i].ago \in Nat
  <2>1. i \in S
    BY <1>3, <1>4, <1>5, PickOf
  <2>2. i \in DOMAIN g
    BY <1>5, <2>1 DEF Concerned
  <2> QED BY <2>1, <2>2, PrefixedCommands
<1>9. g[i] = r[q[k]]
  BY <1>3, <1>6, <1>7, <1>8, PrefixedCommands
<1>10. wait[n][e.cmd] + r[q[k]].ago >= e.val
  BY <1>2, <1>3, <1>7 DEF WaitsCover
<1>11. 0 + g[i].ago >= e.val
  BY <1>2, <1>9, <1>10
<1> QED BY <1>3, <1>4, <1>8, <1>11

-----------------------------------------------------------------------------
(***************************************************************************)
(* Functions defined by recursion: there is one, and its values stay where *)
(* every step does.                                                        *)
(***************************************************************************)
Folded(f, N, start, step) ==
  f = [i \in 0 .. N |-> IF i = 0 THEN start ELSE step[i][f[i - 1]]]

LEMMA FoldExists ==
  ASSUME NEW N \in Nat, NEW S, NEW start \in S, NEW step \in [1 .. N -> [S -> S]]
  PROVE  \E f : Folded(f, N, start, step)
<1> DEFINE Good == {n \in Nat : n <= N => \E f : /\ Folded(f, n, start, step)
                                                 /\ \A i \in 0 .. n : f[i] \in S}
<1>1. 0 \in Good
  <2>1. PICK f : f = [i \in 0 .. 0 |-> start]
    OBVIOUS
  <2>2. Folded(f, 0, start, step) /\ \A i \in 0 .. 0 : f[i] \in S
    BY <2>1 DEF Folded
  <2> QED BY <2>2
<1>2. ASSUME NEW n \in Nat, n \in Good
      PROVE  n + 1 \in Good
  <2> SUFFICES ASSUME n + 1 <= N
               PROVE  \E f : /\ Folded(f, n + 1, start, step)
                             /\ \A i \in 0 .. n + 1 : f[i] \in S
    OBVIOUS
  <2>1. PICK f : Folded(f, n, start, step) /\ \A i \in 0 .. n : f[i] \in S
    BY <1>2
  <2>2. PICK m, next : m = n + 1 /\ next = step[m][f[n]]
    OBVIOUS
  <2>3. next \in S /\ m \in Nat /\ m # 0 /\ m - 1 = n
    <3>1. m \in 1 .. N /\ f[n] \in S /\ m # 0 /\ m - 1 = n
      BY <2>1, <2>2
    <3>2. step[m] \in [S -> S]
      BY <3>1
    <3> QED BY <2>2, <3>1, <3>2
  <2>4. PICK g : g = [i \in 0 .. m |-> IF i = m THEN next ELSE f[i]]
    OBVIOUS
  <2>5. \A i \in 0 .. n : g[i] = f[i]
    BY <2>3, <2>4
  <2>6. \A i \in 0 .. m : g[i] = IF i = 0 THEN start ELSE step[i][g[i - 1]]
    <3> TAKE i \in 0 .. m
    <3>1. CASE i = m
      <4>1. g[i] = next /\ g[i - 1] = f[n]
        BY <2>3, <2>4, <2>5, <3>1
      <4> QED BY <2>2, <2>3, <3>1, <4>1
    <3>2. CASE i # m
      <4>1. i \in 0 .. n /\ (i # 0 => i - 1 \in 0 .. n)
        BY <2>3, <3>2
      <4>2. f[i] = IF i = 0 THEN start ELSE step[i][f[i - 1]]
        BY <2>1, <4>1 DEF Folded
      <4> QED BY <2>5, <4>1, <4>2
    <3> QED BY <3>1, <3>2
  <2>7. g = [i \in 0 .. m |-> g[i]]
    BY <2>4
  <2>8. g = [i \in 0 .. m |-> IF i = 0 THEN start ELSE step[i][g[i - 1]]]
    BY <2>6, <2>7, Zenon
  <2>9. \A i \in 0 .. m : g[i] \in S
    BY <2>1, <2>3, <2>4
  <2> QED BY <2>2, <2>8, <2>9 DEF Folded
<1>3. Nat \subseteq Good
  <2> HIDE DEF Good
  <2> QED BY <1>1, <1>2, SetInduction
<1> QED BY <1>3

LEMMA FoldType ==
  ASSUME NEW N \in Nat, NEW S, NEW f, f[0] \in S, \A i \in 1 .. N : f[i - 1] \in S => f[i] \in S
  PROVE  \A i \in 0 .. N : f[i] \in S
<1> DEFINE Good == {n \in Nat : n <= N => f[n] \in S}
<1>1. 0 \in Good
  OBVIOUS
<1>2. ASSUME NEW n \in Nat, n \in Good
      PROVE  n + 1 \in Good
  <2>1. n + 1 <= N => n + 1 \in 1 .. N /\ (n + 1) - 1 = n /\ f[n] \in S
    BY <1>2
  <2> QED BY <2>1
<1>3. Nat \subseteq Good
  <2> HIDE DEF Good
  <2> QED BY <1>1, <1>2, SetInduction
<1> QED BY <1>3

-----------------------------------------------------------------------------
(***************************************************************************)
(* Requests: every address is a row of a bank, or a rank.                  *)
(***************************************************************************)
Addresses ==
  {a \in Seq(Int) : /\ Len(a) = Depth + 1 /\ Row(a) \in Nat
                    /\ \A l \in 0 .. Depth : SubSeq(a, 1, l) \in Nodes}
Requests(B) == [burst : B, addr : Addresses, first : BOOLEAN]
Coming(B) == [burst : B, left : Nat, forwarded : BOOLEAN]

LEMMA StridesPositive ==
  ASSUME ChannelOK, Columns \in Nat \ {0}
  PROVE  \A i \in 0 .. Depth : Strides[i] \in Nat \ {0}
<1>1. PICK N, S : N = Depth /\ S = Nat \ {0}
  OBVIOUS
<1>2. N \in Nat /\ \A i \in 1 .. N : Children[i] \in 1 .. 8
  BY <1>1, ChannelFacts
<1>3. PICK step : step = [i \in 1 .. N |-> [s \in S |-> s * Children[i]]]
  OBVIOUS
<1>4. \A i \in 1 .. N, s \in S : step[i][s] = s * Children[i] /\ step[i][s] \in S
  <2> TAKE i \in 1 .. N, s \in S
  <2>1. step[i][s] = s * Children[i]
    BY <1>3
  <2>2. PICK c : c = Children[i]
    OBVIOUS
  <2>3. s \in Nat /\ s > 0 /\ c \in Nat /\ c > 0
    BY <1>1, <1>2, <2>2
  <2>4. s * c \in Nat /\ s * c > 0
    BY <2>3
  <2> QED BY <1>1, <2>1, <2>2, <2>4
<1>5. step \in [1 .. N -> [S -> S]]
  BY <1>3, <1>4
<1>6. Columns \in S
  BY <1>1
<1> DEFINE Def(f) == f = [i \in 0 .. N |-> IF i = 0 THEN Columns ELSE f[i - 1] * Children[i]]
<1>7. PICK g : Folded(g, N, Columns, step)
  BY <1>2, <1>5, <1>6, FoldExists
<1>8. \A i \in 0 .. N : g[i] \in S
  <2>1. g[0] \in S
    BY <1>2, <1>6, <1>7 DEF Folded
  <2>2. \A i \in 1 .. N : g[i] = step[i][g[i - 1]]
    BY <1>2, <1>7 DEF Folded
  <2> QED BY <1>2, <1>4, <2>1, <2>2, FoldType
<1>9. Def(g)
  <2>1. \A i \in 0 .. N : g[i] = IF i = 0 THEN Columns ELSE g[i - 1] * Children[i]
    <3> TAKE i \in 0 .. N
    <3>1. g[i] = IF i = 0 THEN Columns ELSE step[i][g[i - 1]]
      BY <1>7 DEF Folded
    <3>2. i # 0 => i \in 1 .. N /\ g[i - 1] \in S
      BY <1>2, <1>8
    <3>3. i # 0 => step[i][g[i - 1]] = g[i - 1] * Children[i]
      BY <1>4, <3>2
    <3> QED BY <3>1, <3>3
  <2>2. g = [i \in 0 .. N |-> g[i]]
    BY <1>7 DEF Folded
  <2> QED BY <2>1, <2>2, Zenon
<1>10. Def(Strides)
  <2>1. Strides = CHOOSE f : Def(f)
    BY <1>1 DEF Strides
  <2> QED BY <1>9, <2>1
<1>11. PICK f : f = Strides /\ Def(f)
  BY <1>10
<1>12. f[0] \in S /\ \A i \in 1 .. N : f[i] = f[i - 1] * Children[i]
  BY <1>2, <1>6, <1>11
<1>13. \A i \in 1 .. N : f[i - 1] \in S => f[i] \in S
  BY <1>4, <1>12
<1> HIDE DEF Def
<1>14. \A i \in 0 .. N : f[i] \in S
  BY <1>2, <1>12, <1>13, FoldType
<1> QED BY <1>1, <1>11, <1>14

LEMMA AddressOfBurst ==
  ASSUME ChannelOK, Columns \in Nat \ {0}, NEW burst \in Int
  PROVE  AddrOf(burst) \in Addresses
<1>1. Depth \in Nat \ {0} /\ \A i \in 1 .. Depth : Children[i] \in 1 .. 8
  BY ChannelFacts
<1>2. PICK a : a = AddrOf(burst)
  OBVIOUS
<1>3. \A i \in 1 .. Depth + 1 :
        a[i] = (burst \div Strides[i - 1]) % (IF i = Depth + 1 THEN Rows ELSE Children[i])
  BY <1>2 DEF AddrOf
<1>4. ASSUME NEW i \in 1 .. Depth + 1
      PROVE  /\ a[i] \in Nat
             /\ i # Depth + 1 => a[i] \in 0 .. 7 /\ a[i] < Children[i]
  <2>1. PICK s, c : s = Strides[i - 1] /\ c = (IF i = Depth + 1 THEN Rows ELSE Children[i])
    OBVIOUS
  <2>2. s \in Nat /\ s > 0
    BY <1>1, <2>1, StridesPositive
  <2>3. c \in Nat /\ c > 0 /\ (i # Depth + 1 => c = Children[i] /\ c <= 8)
    <3>1. CASE i = Depth + 1
      BY <2>1, <3>1 DEF ChannelOK, GeometryOK
    <3>2. CASE i # Depth + 1
      <4>1. i \in 1 .. Depth /\ c = Children[i]
        BY <1>1, <2>1, <3>2
      <4>2. c \in 1 .. 8
        BY <1>1, <4>1
      <4> QED BY <3>2, <4>1, <4>2
    <3> QED BY <3>1, <3>2
  <2>4. PICK d : d = burst \div s
    OBVIOUS
  <2>5. d \in Int
    BY <2>2, <2>4
  <2>6. d % c \in 0 .. c - 1
    BY <2>3, <2>5
  <2>7. a[i] = d % c
    BY <1>3, <2>1, <2>4
  <2> QED BY <2>3, <2>6, <2>7
<1>5. a \in Seq(Int) /\ Len(a) = Depth + 1
  <2>1. a = [i \in 1 .. Depth + 1 |-> a[i]]
    BY <1>2 DEF AddrOf
  <2>2. a \in [1 .. Depth + 1 -> Int]
    BY <1>4, <2>1
  <2> QED BY <1>1, <2>2, FunctionIsSeq
<1>6. ASSUME NEW l \in 0 .. Depth
      PROVE  SubSeq(a, 1, l) \in Nodes
  <2>1. PICK n : n = SubSeq(a, 1, l)
    OBVIOUS
  <2>2. n = [i \in 1 .. l |-> a[i]]
    <3>1. n \in Seq(Int) /\ Len(n) = l /\ \A i \in 1 .. l : n[i] = a[i]
      BY <1>1, <1>5, <2>1
    <3> QED BY <3>1, LenProperties
  <2>3. \A i \in 1 .. l : a[i] \in 0 .. 7 /\ a[i] < Children[i]
    BY <1>1, <1>4
  <2>4. n \in [1 .. l -> 0 .. 7] /\ \A i \in 1 .. l : n[i] < Children[i]
    BY <2>2, <2>3
  <2>5. n \in {m \in [1 .. l -> 0 .. 7] : \A i \in 1 .. l : m[i] < Children[i]}
    BY <2>4
  <2> QED BY <2>1, <2>5, Zenon DEF Nodes
<1>7. Row(a) \in Nat
  BY <1>1, <1>4 DEF Row
<1> QED BY <1>2, <1>5, <1>6, <1>7 DEF Addresses

LEMMA RequestType ==
  ASSUME ChannelOK, Columns \in Nat \ {0}, NEW B \in SUBSET Int, NEW burst \in B
  PROVE  Request(burst) \in Requests(B)
BY AddressOfBurst DEF Request, Requests

\* A request that comes has not begun, and a read a queued write has the data of was none.
LEMMA NewNotCounted ==
  ASSUME NEW S, NEW q \in Seq(S), NEW x
  PROVE  /\ x.first = TRUE => Begun(Append(q, x)) = Begun(q)
         /\ x.forwarded = TRUE => Accessing(Append(q, x)) = Accessing(q)
<1>1. PICK n, g : n = Len(q) /\ g = Append(q, x)
  OBVIOUS
<1>2. n \in Nat /\ DOMAIN q = 1 .. n /\ DOMAIN g = 1 .. n + 1
  BY <1>1, LenProperties
<1>3. g[n + 1] = x /\ \A i \in 1 .. n : g[i] = q[i]
  BY <1>1, <1>2
<1>4. ASSUME x.first = TRUE
      PROVE  Begun(g) = Begun(q)
  BY <1>2, <1>3, <1>4 DEF Begun
<1>5. ASSUME x.forwarded = TRUE
      PROVE  Accessing(g) = Accessing(q)
  BY <1>2, <1>3, <1>5 DEF Accessing, AccessedRow
<1> QED BY <1>1, <1>4, <1>5

\* Controller::enqueue: every burst takes one place, in the queue or among the reads whose
\* data comes, and none is counted as begun.
LEMMA EnqueuedType ==
  ASSUME ChannelOK, Columns \in Nat \ {0}, NEW B \in SUBSET Int,
         readq \in Seq(Requests(B)), pending \in Seq(Coming(B)), NEW bursts \in Seq(B)
  PROVE  /\ Enqueued(bursts).reads \in Seq(Requests(B))
         /\ Enqueued(bursts).comes \in Seq(Coming(B))
         /\ Begun(Enqueued(bursts).reads) = Begun(readq)
         /\ Accessing(Enqueued(bursts).comes) = Accessing(pending)
         /\ Len(Enqueued(bursts).reads) + Len(Enqueued(bursts).comes)
              = Len(readq) + Len(pending) + Len(bursts)
<1>1. PICK N, R, A, S, start, base :
        /\ N = Len(bursts) /\ S = [reads : R, comes : A]
        /\ R = {s \in Seq(Requests(B)) : Begun(s) = Begun(readq)}
        /\ A = {s \in Seq(Coming(B)) : Accessing(s) = Accessing(pending)}
        /\ start = [reads |-> readq, comes |-> pending] /\ base = Len(readq) + Len(pending)
  OBVIOUS
<1>2. N \in Nat /\ start \in S /\ base \in Nat /\ \A i \in 1 .. N : bursts[i] \in B
  BY <1>1, LenProperties, ElementOfSeq
<1> DEFINE from(b) == [burst |-> b, left |-> 1, forwarded |-> TRUE]
           After(i, s) == IF Forwards(bursts[i])
                          THEN [s EXCEPT !.comes = Append(@, from(bursts[i]))]
                          ELSE [s EXCEPT !.reads = Append(@, Request(bursts[i]))]
           Def(f) == f = [i \in 0 .. N |-> IF i = 0 THEN start ELSE After(i, f[i - 1])]
           Both(s) == Len(s.reads) + Len(s.comes)
<1>3. ASSUME NEW i \in 1 .. N, NEW s \in S
      PROVE  After(i, s) \in S /\ Both(After(i, s)) = Both(s) + 1
  <2>1. PICK r, c, q, o : /\ r = Request(bursts[i]) /\ c = from(bursts[i])
                          /\ q = s.reads /\ o = s.comes
    OBVIOUS
  <2>2. r \in Requests(B) /\ c \in Coming(B)
    BY <1>2, <2>1, RequestType DEF Coming
  <2>3. q \in Seq(Requests(B)) /\ o \in Seq(Coming(B)) /\ s = [reads |-> q, comes |-> o]
        /\ q \in R /\ o \in A
    BY <1>1, <2>1
  <2>10. Append(q, r) \in R /\ Append(o, c) \in A
    <3>1. r.first = TRUE /\ c.forwarded = TRUE
      BY <2>1 DEF Request
    <3>2. Append(q, r) \in Seq(Requests(B)) /\ Append(o, c) \in Seq(Coming(B))
      BY <2>2, <2>3
    <3>3. Begun(Append(q, r)) = Begun(q) /\ Accessing(Append(o, c)) = Accessing(o)
      BY <2>3, <3>1, NewNotCounted
    <3> QED BY <1>1, <2>3, <3>2, <3>3
  <2>4. /\ Append(q, r) \in Seq(Requests(B)) /\ Len(Append(q, r)) = Len(q) + 1
        /\ Append(o, c) \in Seq(Coming(B)) /\ Len(Append(o, c)) = Len(o) + 1
        /\ Len(q) \in Nat /\ Len(o) \in Nat
    BY <2>2, <2>3
  <2>5. \/ After(i, s) = [reads |-> q, comes |-> Append(o, c)]
        \/ After(i, s) = [reads |-> Append(q, r), comes |-> o]
    BY <2>1, <2>3
  <2>6. After(i, s) \in S
    BY <1>1, <2>3, <2>10, <2>5
  <2>9. PICK y, z : y = Len(q) /\ z = Len(o) /\ y \in Nat /\ z \in Nat
    BY <2>4
  <2>7. CASE After(i, s) = [reads |-> q, comes |-> Append(o, c)]
    <3>1. Both(After(i, s)) = y + (z + 1) /\ Both(s) = y + z
      BY <2>3, <2>4, <2>7, <2>9
    <3>2. y + (z + 1) = (y + z) + 1
      BY <2>9
    <3> QED BY <2>6, <3>1, <3>2
  <2>8. CASE After(i, s) = [reads |-> Append(q, r), comes |-> o]
    <3>1. Both(After(i, s)) = (y + 1) + z /\ Both(s) = y + z
      BY <2>3, <2>4, <2>8, <2>9
    <3>2. (y + 1) + z = (y + z) + 1
      BY <2>9
    <3> QED BY <2>6, <3>1, <3>2
  <2> QED BY <2>5, <2>7, <2>8
<1>14. \A s \in S : s.reads \in Seq(Requests(B)) /\ s.comes \in Seq(Coming(B))
                    /\ Both(s) \in Nat
  <2> TAKE s \in S
  <2>1. s.reads \in Seq(Requests(B)) /\ s.comes \in Seq(Coming(B))
    BY <1>1
  <2>2. PICK y, z : y = Len(s.reads) /\ z = Len(s.comes)
    OBVIOUS
  <2>3. y \in Nat /\ z \in Nat
    BY <2>1, <2>2, LenProperties
  <2>4. Both(s) = y + z
    BY <2>2
  <2> HIDE DEF Both
  <2>5. Both(s) \in Nat
    BY <2>3, <2>4
  <2> QED BY <2>1, <2>5
<1> HIDE DEF After
<1>4. PICK step : step = [i \in 1 .. N |-> [s \in S |-> After(i, s)]]
  OBVIOUS
<1>5. step \in [1 .. N -> [S -> S]] /\ \A i \in 1 .. N, s \in S : step[i][s] = After(i, s)
  BY <1>3, <1>4
<1>6. PICK g : Folded(g, N, start, step)
  BY <1>2, <1>5, FoldExists
<1>7. \A i \in 0 .. N : g[i] \in S
  <2>1. g[0] \in S /\ \A i \in 1 .. N : g[i] = step[i][g[i - 1]]
    BY <1>2, <1>6 DEF Folded
  <2>2. \A i \in 1 .. N : g[i - 1] \in S => g[i] \in S
    BY <1>3, <1>5, <2>1
  <2> QED BY <1>2, <2>1, <2>2, FoldType
<1>8. Def(g)
  <2>1. \A i \in 0 .. N : g[i] = IF i = 0 THEN start ELSE After(i, g[i - 1])
    <3> TAKE i \in 0 .. N
    <3>1. g[i] = IF i = 0 THEN start ELSE step[i][g[i - 1]]
      BY <1>6 DEF Folded
    <3>2. i # 0 => i \in 1 .. N /\ g[i - 1] \in S
      BY <1>2, <1>7
    <3> QED BY <1>5, <3>1, <3>2
  <2>2. g = [i \in 0 .. N |-> g[i]]
    BY <1>6 DEF Folded
  <2> QED BY <2>1, <2>2, Zenon
<1>9. PICK f : Def(f) /\ Enqueued(bursts) = f[N]
  <2>1. Enqueued(bursts) = (CHOOSE f : Def(f))[N]
    BY <1>1, Zenon DEF Enqueued, After
  <2>2. Def(CHOOSE f : Def(f))
    <3> HIDE DEF Def
    <3> QED BY <1>8, Zenon
  <2> QED BY <2>1, <2>2, Zenon
<1>10. f[0] = start /\ \A i \in 1 .. N : f[i] = After(i, f[i - 1])
  BY <1>2, <1>9
<1> HIDE DEF Def
<1>11. \A i \in 0 .. N : f[i] \in S
  <2>1. \A i \in 1 .. N : f[i - 1] \in S => f[i] \in S
    BY <1>3, <1>10
  <2> QED BY <1>2, <1>10, <2>1, FoldType
<1>12. \A i \in 0 .. N : Both(f[i]) - i \in {base}
  <2>1. PICK h : h = [i \in 0 .. N |-> Both(f[i]) - i]
    OBVIOUS
  <2>2. \A i \in 0 .. N : Both(f[i]) \in Nat
    <3> HIDE DEF Both
    <3> QED BY <1>11, <1>14
  <2>3. h[0] \in {base}
    <3>1. Both(f[0]) = base
      BY <1>1, <1>10
    <3> QED BY <1>2, <2>1, <3>1
  <2>4. \A i \in 1 .. N : h[i - 1] \in {base} => h[i] \in {base}
    <3> TAKE i \in 1 .. N
    <3> HAVE h[i - 1] \in {base}
    <3>1. i \in 0 .. N /\ i - 1 \in 0 .. N
      BY <1>2
    <3>2. Both(f[i]) = Both(f[i - 1]) + 1
      BY <1>3, <1>10, <1>11, <3>1
    <3> HIDE DEF Both
    <3>3. h[i] = Both(f[i]) - i /\ h[i - 1] = Both(f[i - 1]) - (i - 1)
      BY <2>1, <3>1
    <3>4. h[i] = h[i - 1]
      BY <2>2, <3>1, <3>2, <3>3
    <3> QED BY <3>4
  <2> HIDE DEF Both
  <2>5. \A i \in 0 .. N : h[i] \in {base}
    <3>1. PICK V : V = {base}
      OBVIOUS
    <3>2. h[0] \in V /\ \A i \in 1 .. N : h[i - 1] \in V => h[i] \in V
      BY <2>3, <2>4, <3>1
    <3>3. \A i \in 0 .. N : h[i] \in V
      BY <1>2, <3>2, FoldType
    <3> QED BY <3>1, <3>3
  <2> QED BY <2>1, <2>5
<1>13. f[N] \in S /\ Both(f[N]) = base + N
  <2>1. N \in 0 .. N
    BY <1>2
  <2>2. PICK both : both = Both(f[N])
    OBVIOUS
  <2>4. both \in Nat
    <3> HIDE DEF Both
    <3> QED BY <1>11, <1>14, <2>1, <2>2
  <2>5. both - N = base
    <3> HIDE DEF Both
    <3> QED BY <1>12, <2>1, <2>2
  <2>6. both = base + N
    BY <1>2, <2>4, <2>5
  <2> HIDE DEF Both
  <2> QED BY <1>11, <2>1, <2>2, <2>6
<1>15. f[N].reads \in R /\ f[N].comes \in A
  BY <1>1, <1>13
<1> QED BY <1>1, <1>9, <1>13, <1>15

\* The ranks are finitely many: a refresh of all is a sequence of them.
LEMMA RanksInOrder ==
  ASSUME ChannelOK
  PROVE  SetToSeq(Ranks) \in Seq(Ranks)
<1>1. Ranks \subseteq {<<i>> : i \in 0 .. 7}
  <2> SUFFICES ASSUME NEW n \in Ranks PROVE \E i \in 0 .. 7 : n = <<i>>
    OBVIOUS
  <2>1. n \in Nodes /\ Len(n) = 1
    BY DEF Ranks
  <2>2. PICK l \in 0 .. Depth : n \in [1 .. l -> 0 .. 7]
    BY <2>1 DEF Nodes
  <2>3. l \in Nat
    BY NodeEntries, <2>1
  <2>4. n \in Seq(0 .. 7)
    BY <2>2, <2>3, FunctionIsSeq
  <2>5. n = <<n[1]>> /\ n[1] \in 0 .. 7
    <3>1. l = 1
      BY <2>1, <2>2, <2>3, FunctionIsSeq
    <3>2. n[1] \in 0 .. 7
      BY <2>2, <3>1
    <3> QED BY <2>1, <2>4, <3>2
  <2> QED BY <2>5
<1>2. IsFiniteSet({<<i>> : i \in 0 .. 7})
  <2>1. IsFiniteSet(0 .. 7)
    <3>1. 0 \in Int /\ 7 \in Int
      OBVIOUS
    <3> QED BY <3>1, FS_Interval
  <2>2. PICK S, T : S = 0 .. 7 /\ T = {<<i>> : i \in S}
    OBVIOUS
  <2>3. PICK f : f = [i \in S |-> <<i>>]
    OBVIOUS
  <2>4. f \in [S -> T] /\ \A t \in T : \E i \in S : f[i] = t
    BY <2>2, <2>3
  <2>5. f \in Surjection(S, T)
    BY <2>4 DEF Surjection
  <2> QED BY <2>1, <2>2, <2>5, FS_Surjection
<1>3. IsFiniteSet(Ranks)
  BY <1>1, <1>2, FS_Subset
<1>4. PICK c : c = Cardinality(Ranks)
  OBVIOUS
<1>5. c \in Nat /\ ExistsBijection(1 .. c, Ranks)
  BY <1>3, <1>4, FS_CardinalityType
<1>6. \E f \in [1 .. c -> Ranks] : IsInjective(f)
  <2>1. PICK f \in Bijection(1 .. c, Ranks) : TRUE
    BY <1>5 DEF ExistsBijection
  <2>2. f \in [1 .. c -> Ranks] /\ IsInjective(f)
    BY <2>1 DEF Bijection, Injection, IsInjective
  <2> QED BY <2>2
<1>7. SetToSeq(Ranks) \in [1 .. c -> Ranks]
  BY <1>4, <1>6, Zenon DEF SetToSeq
<1> QED BY <1>5, <1>7, FunctionIsSeq

-----------------------------------------------------------------------------
(***************************************************************************)
(* A tick: what is issued was asked for, and may be issued.                *)
(***************************************************************************)
QueuesOK(B) ==
  /\ readq \in Seq(Requests(B)) /\ pending \in Seq(Coming(B))
  /\ writeq \in Seq(Requests(Int)) /\ otherq \in Seq(Ranks)

\* A command to a row or a rank: all nodes that check it are nodes of the channel.
Way(cmd, addr) ==
  \A l \in 0 .. Depth : l <= Standard.scope[cmd] => SubSeq(addr, 1, l) \in Nodes

LEMMA HeadIsReady ==
  ASSUME NEW kind, NEW S, NEW q \in Seq(S), NEW waiting,
         NEW head, head = GetHead(kind, q, waiting),
         head # 0, NEW w, w = Wanted(kind, q[head])
  PROVE  head \in DOMAIN q /\ Allowed(waiting, Decode(open, w.cmd, w.addr), w.addr)
<1> DEFINE ask(i) == Wanted(kind, q[i])
           ready(i) == Allowed(waiting, Decode(open, ask(i).cmd, ask(i).addr), ask(i).addr)
           hit(i) == RowHit(open, ask(i).cmd, ask(i).addr)
           Hits == {i \in DOMAIN q : hit(i)}
           Violates(i) == /\ ~ hit(i) /\ RowOpen(open, ask(i).cmd, ask(i).addr)
                          /\ \E j \in Hits : Bank(ask(j).addr) = Bank(ask(i).addr)
           Candidates == {i \in DOMAIN q : ~ Violates(i)}
           Ready(T) == {i \in T : ready(i)}
<1>1. head = IF Ready(Hits) # {} THEN Min(Ready(Hits))
             ELSE IF Ready(Candidates) # {} THEN Min(Ready(Candidates)) ELSE 0
  BY DEF GetHead
<1>2. DOMAIN q \subseteq Nat
  BY LenProperties
<1>3. \A T : T \subseteq DOMAIN q => Ready(T) \in SUBSET Nat /\ Ready(T) \subseteq DOMAIN q
  BY <1>2
<1>4. Hits \subseteq DOMAIN q /\ Candidates \subseteq DOMAIN q
  OBVIOUS
<1>5. PICK T : T \subseteq DOMAIN q /\ Ready(T) # {} /\ head = Min(Ready(T))
  <2> HIDE DEF Ready, Hits, Candidates
  <2> QED BY <1>1, <1>4
<1>6. head \in Ready(T)
  <2>1. PICK R : R = Ready(T)
    OBVIOUS
  <2>2. R \in SUBSET Nat /\ R # {}
    BY <1>3, <1>5, <2>1
  <2> HIDE DEF Ready
  <2> QED BY <1>5, <2>1, <2>2, MinOfNaturals
<1>7. head \in DOMAIN q /\ ready(head)
  BY <1>3, <1>5, <1>6
<1> QED BY <1>7

\* What is issued: what an access, or the refresh of a rank, needs next.
Chosen(cmd, addr) ==
  \/ addr \in Addresses /\ \E c \in {"RD", "WR"} : cmd = Decode(open, c, addr)
  \/ addr \in Ranks /\ cmd = Decode(open, "REF", addr)

LEMMA AccessWay ==
  ASSUME MemoryOK, NEW kind \in {"read", "write"}, NEW B, NEW r \in Requests(B),
         NEW w, w = Wanted(kind, r)
  PROVE  /\ w.addr \in Targets /\ Decode(open, w.cmd, w.addr) \in Commands
         /\ Way(Decode(open, w.cmd, w.addr), w.addr)
         /\ Chosen(Decode(open, w.cmd, w.addr), w.addr)
<1>1. w.addr \in Addresses /\ w.cmd \in {"RD", "WR"}
  BY DEF Wanted, Requests
<1>2. Decode(open, w.cmd, w.addr) \in
        {Standard.needs.closed, Standard.needs.otherRow, w.cmd}
  BY <1>1 DEF Decode
<1>3. Decode(open, w.cmd, w.addr) \in Commands
  BY <1>1, <1>2, ChannelFacts DEF MemoryOK
<1>4. w.addr \in Targets
  <2>1. Depth \in Nat
    BY ChannelFacts DEF MemoryOK
  <2> QED BY <1>1, <2>1, EmptySeq DEF Addresses, Targets
<1>5. Way(Decode(open, w.cmd, w.addr), w.addr)
  BY <1>1 DEF Addresses, Way
<1> QED BY <1>1, <1>3, <1>4, <1>5 DEF Chosen

LEMMA RefreshWay ==
  ASSUME MemoryOK, NEW r \in Ranks, NEW w, w = Wanted("other", r)
  PROVE  /\ w.addr \in Targets /\ Decode(open, w.cmd, w.addr) \in Commands
         /\ Way(Decode(open, w.cmd, w.addr), w.addr)
         /\ Chosen(Decode(open, w.cmd, w.addr), w.addr)
<1>1. w.addr = r /\ w.cmd = "REF"
  BY DEF Wanted
<1>2. PICK cmd : cmd = Decode(open, w.cmd, w.addr)
  OBVIOUS
<1>3. cmd \in {Standard.needs.anyOpen, "REF"}
  BY <1>1, <1>2 DEF Decode
<1>4. cmd \in Commands /\ Standard.scope[cmd] \in Nat /\ Standard.scope[cmd] <= 1
  BY <1>3, ChannelFacts DEF MemoryOK, Rank
<1>5. r \in Nodes /\ Len(r) = 1 /\ r \in Seq(Int) /\ Depth \in Nat \ {0}
  BY NodeEntries DEF Ranks, MemoryOK
<1>6. ASSUME NEW l \in 0 .. Depth, l <= Standard.scope[cmd]
      PROVE  SubSeq(r, 1, l) \in Nodes
  <2>1. CASE l = 0
    <3>1. PICK n : n = SubSeq(r, 1, l)
      OBVIOUS
    <3>2. n \in [1 .. l -> 0 .. 7] /\ \A i \in 1 .. l : n[i] < Children[i]
      <4>1. n = << >>
        BY <1>5, <2>1, <3>1
      <4> QED BY <2>1, <4>1
    <3>3. n \in {m \in [1 .. l -> 0 .. 7] : \A i \in 1 .. l : m[i] < Children[i]}
      BY <3>2
    <3> QED BY <3>1, <3>3, Zenon DEF Nodes
  <2>2. CASE l # 0
    <3>1. l = 1
      BY <1>4, <1>5, <1>6, <2>2
    <3>2. SubSeq(r, 1, l) = r
      BY <1>5, <3>1
    <3> QED BY <1>5, <3>2
  <2> QED BY <2>1, <2>2
<1>7. r \in Targets
  BY <1>5, EmptySeq DEF Targets
<1>8. r \in Ranks /\ Chosen(cmd, r)
  BY <1>1, <1>2 DEF Chosen
<1> QED BY <1>1, <1>2, <1>4, <1>6, <1>7, <1>8 DEF Way

\* What a tick does to the nodes and the history: nothing but time passing, or a command.
Sends(cmd, addr) ==
  /\ Chosen(cmd, addr) /\ open' = Effect(open, cmd, addr) /\ table' = Tabled(cmd, addr)
  /\ Way(cmd, addr) /\ Allowed(WaitLess(waits), cmd, addr)
  /\ past' = Recorded(Older(past), cmd, addr)
  /\ waits' = Delayed(WaitLess(waits), past', cmd, addr)
  /\ issued' = <<[cmd |-> cmd, addr |-> addr, ago |-> 0]>> \o Recent(issued)

LEMMA WithoutType ==
  ASSUME NEW S, NEW q \in Seq(S), NEW i \in DOMAIN q
  PROVE  Without(q, i) \in Seq(S) /\ Len(Without(q, i)) = Len(q) - 1
BY DEF Without

LEMMA BegunType ==
  ASSUME NEW B, NEW q \in Seq(Requests(B)), NEW i \in DOMAIN q
  PROVE  /\ [q EXCEPT ![i].first = FALSE] \in Seq(Requests(B))
         /\ Len([q EXCEPT ![i].first = FALSE]) = Len(q)
<1>1. Len(q) \in Nat /\ DOMAIN q = 1 .. Len(q) /\ q \in [1 .. Len(q) -> Requests(B)]
  BY LenProperties
<1>2. PICK g : g = [q EXCEPT ![i].first = FALSE]
  OBVIOUS
<1>3. \A j \in 1 .. Len(q) : g[j] = IF j = i THEN [q[j] EXCEPT !.first = FALSE] ELSE q[j]
  BY <1>1, <1>2
<1>4. \A j \in 1 .. Len(q) : g[j] \in Requests(B)
  BY <1>1, <1>3 DEF Requests
<1>5. g \in [1 .. Len(q) -> Requests(B)]
  BY <1>1, <1>2, <1>4
<1> QED BY <1>1, <1>2, <1>5, FunctionIsSeq

\* The data that comes is taken from the reads waiting for it.
LEMMA TickComes ==
  ASSUME NEW B, pending \in Seq(Coming(B)),
         NEW soon, soon = [i \in DOMAIN pending |->
                             [pending[i] EXCEPT !.left = IF @ > 0 THEN @ - 1 ELSE 0]],
         NEW comes, comes = IF pending # <<>> /\ soon[1].left = 0 THEN Tail(soon) ELSE soon
  PROVE  /\ comes \in Seq(Coming(B))
         /\ Len(comes) = Len(pending) - (IF Comes THEN 1 ELSE 0)
<1>1. PICK n : n = Len(pending)
  OBVIOUS
<1>2. n \in Nat /\ DOMAIN pending = 1 .. n /\ \A i \in 1 .. n : pending[i] \in Coming(B)
  BY <1>1, LenProperties, ElementOfSeq
<1>3. \A i \in 1 .. n : /\ soon[i] \in Coming(B)
                        /\ soon[i].left = IF pending[i].left > 0 THEN pending[i].left - 1 ELSE 0
  <2> TAKE i \in 1 .. n
  <2>1. PICK c : c = pending[i] /\ c \in Coming(B)
    BY <1>2
  <2>2. soon[i] = [c EXCEPT !.left = IF c.left > 0 THEN c.left - 1 ELSE 0]
    BY <1>2, <2>1
  <2>3. c.left \in Nat
    BY <2>1 DEF Coming
  <2>4. PICK l : l = (IF c.left > 0 THEN c.left - 1 ELSE 0) /\ l \in Nat
    BY <2>3
  <2>5. [c EXCEPT !.left = l] \in Coming(B) /\ [c EXCEPT !.left = l].left = l
    BY <2>1, <2>4 DEF Coming
  <2> QED BY <2>1, <2>2, <2>4, <2>5
<1>4. soon \in Seq(Coming(B)) /\ Len(soon) = n
  <2>1. soon \in [1 .. n -> Coming(B)]
    BY <1>2, <1>3
  <2> QED BY <1>2, <2>1, FunctionIsSeq
<1>5. pending # <<>> /\ soon[1].left = 0 <=> Comes
  <2>1. pending # <<>> => 1 \in 1 .. n /\ n > 0
    BY <1>1, <1>2, EmptySeq
  <2>2. 1 \in 1 .. n => pending[1].left \in Nat
    BY <1>2 DEF Coming
  <2> QED BY <1>3, <2>1, <2>2 DEF Comes
<1>6. CASE Comes
  <2>1. n > 0 /\ comes = Tail(soon)
    BY <1>1, <1>2, <1>5, <1>6, EmptySeq
  <2>2. Tail(soon) \in Seq(Coming(B)) /\ Len(Tail(soon)) = n - 1
    BY <1>2, <1>4, <2>1
  <2> QED BY <1>1, <1>6, <2>1, <2>2
<1>7. CASE ~ Comes
  BY <1>1, <1>2, <1>4, <1>5, <1>7
<1> QED BY <1>6, <1>7

LEMMA TickIssues ==
  ASSUME MemoryOK, NEW B \in SUBSET Int, QueuesOK(B), Tick
  PROVE  /\ QueuesOK(B)'
         /\ Len(readq)' + Len(pending)' = (Len(readq) + Len(pending)) - (IF Comes THEN 1 ELSE 0)
         /\ \/ /\ waits' = WaitLess(waits) /\ past' = Older(past) /\ issued' = Recent(issued)
               /\ UNCHANGED <<open, table>>
            \/ \E cmd \in Commands, addr \in Targets : Sends(cmd, addr)
<1> DEFINE waiting == WaitLess(waits)
           aged == Older(past)
           soon == [i \in DOMAIN pending |->
                      [pending[i] EXCEPT !.left = IF @ > 0 THEN @ - 1 ELSE 0]]
           served == pending # <<>> /\ soon[1].left = 0
           comes == IF served THEN Tail(soon) ELSE soon
           others == Refreshes
           kind == CASE others # <<>> -> "other"
                     [] others = <<>> /\ WriteModeNext -> "write"
                     [] OTHER -> "read"
           q == CASE kind = "other" -> others [] kind = "write" -> writeq
                  [] kind = "read" -> readq
           head == GetHead(kind, q, waiting)
           w == Wanted(kind, q[head])
           cmd == Decode(open, w.cmd, w.addr)
           last == head # 0 /\ cmd = w.cmd
           rest == IF head = 0 THEN q
                   ELSE IF last THEN Without(q, head)
                   ELSE IF kind = "other" THEN q ELSE [q EXCEPT ![head].first = FALSE]
           new == [burst |-> q[head].burst, left |-> Standard.readLatency, forwarded |-> FALSE]
<1>1. /\ readq' = IF kind = "read" THEN rest ELSE readq
      /\ writeq' = IF kind = "write" THEN rest ELSE writeq
      /\ otherq' = IF kind = "other" THEN rest ELSE others
      /\ pending' = IF last /\ kind = "read" THEN Append(comes, new) ELSE comes
      /\ IF head = 0
         THEN /\ waits' = waiting /\ past' = aged /\ issued' = Recent(issued)
              /\ UNCHANGED <<open, table>>
         ELSE /\ Issue(cmd, w.addr, waiting, aged)
              /\ issued' = <<[cmd |-> cmd, addr |-> w.addr, ago |-> 0]>> \o Recent(issued)
  BY DEF Tick
<1>2. kind \in {"other", "write", "read"}
  OBVIOUS
<1>3. others \in Seq(Ranks)
  BY RanksInOrder DEF QueuesOK, Refreshes, MemoryOK
<1>4. comes \in Seq(Coming(B)) /\ Len(comes) = Len(pending) - (IF Comes THEN 1 ELSE 0)
  <2>1. PICK soon1, comes1 : soon1 = soon /\ comes1 = comes
    OBVIOUS
  <2>2. /\ soon1 = [i \in DOMAIN pending |->
                     [pending[i] EXCEPT !.left = IF @ > 0 THEN @ - 1 ELSE 0]]
        /\ comes1 = IF pending # <<>> /\ soon1[1].left = 0 THEN Tail(soon1) ELSE soon1
        /\ pending \in Seq(Coming(B))
    BY <2>1 DEF QueuesOK
  <2>3. comes1 \in Seq(Coming(B)) /\ Len(comes1) = Len(pending) - (IF Comes THEN 1 ELSE 0)
    <3> HIDE DEF soon, comes
    <3> QED BY <2>2, TickComes
  <2> QED BY <2>1, <2>3
<1> HIDE DEF comes
<1>5. /\ kind = "other" => q \in Seq(Ranks)
      /\ kind = "write" => q \in Seq(Requests(Int))
      /\ kind = "read" => q \in Seq(Requests(B)) /\ q = readq
  BY <1>2, <1>3 DEF QueuesOK
<1> HIDE DEF kind, q, others
<1>6. PICK k, s, C : /\ k = kind /\ s = q
                     /\ C = IF k = "read" THEN B ELSE Int
  OBVIOUS
<1>7. /\ k = "other" => s \in Seq(Ranks)
      /\ k # "other" => s \in Seq(Requests(C)) /\ k \in {"read", "write"}
      /\ k = "read" => s = readq /\ C = B
  BY <1>2, <1>5, <1>6
<1>8. rest = s \/ (head # 0 /\ rest = Without(s, head))
        \/ (head # 0 /\ k # "other" /\ rest = [s EXCEPT ![head].first = FALSE])
  BY <1>6
<1>9. \/ head = 0 /\ ~ last /\ rest = s
      \/ head # 0 /\ last /\ rest = Without(s, head)
      \/ head # 0 /\ k # "other" /\ ~ last /\ rest = [s EXCEPT ![head].first = FALSE]
      \/ head # 0 /\ k = "other" /\ ~ last /\ rest = s
  BY <1>6
<1>10. head # 0 => head \in DOMAIN s /\ Allowed(waiting, cmd, w.addr)
  <2>1. \E S : s \in Seq(S)
    BY <1>7
  <2> QED BY <1>6, <2>1, HeadIsReady
<1> HIDE DEF head, last, rest
<1>11. PICK h, done, left1 : h = head /\ done = last /\ left1 = rest /\ done \in BOOLEAN
  <2>1. last \in BOOLEAN
    BY DEF last
  <2> QED BY <2>1
<1>12. /\ k = "other" => left1 \in Seq(Ranks)
       /\ k # "other" => /\ left1 \in Seq(Requests(C))
                         /\ Len(left1) = Len(s) - (IF done THEN 1 ELSE 0)
  <2>1. CASE h = 0 /\ ~ done /\ left1 = s
    <3>1. k # "other" => Len(s) \in Nat
      BY <1>7, LenProperties
    <3> QED BY <1>7, <2>1, <3>1
  <2>2. CASE h # 0 /\ done /\ left1 = Without(s, h)
    <3>1. h \in DOMAIN s
      BY <1>10, <1>11, <2>2
    <3> QED BY <1>7, <2>2, <3>1, WithoutType
  <2>3. CASE h # 0 /\ k # "other" /\ ~ done /\ left1 = [s EXCEPT ![h].first = FALSE]
    <3>1. h \in DOMAIN s
      BY <1>10, <1>11, <2>3
    <3>2. Len(s) \in Nat
      BY <1>7, <2>3, LenProperties
    <3> QED BY <1>7, <2>3, <3>1, <3>2, BegunType
  <2>4. CASE h # 0 /\ k = "other" /\ ~ done /\ left1 = s
    BY <1>7, <2>4
  <2> QED BY <1>9, <1>11, <2>1, <2>2, <2>3, <2>4
<1>13. k = "read" /\ done => new \in Coming(B)
  <2> SUFFICES ASSUME k = "read", done PROVE new \in Coming(B)
    OBVIOUS
  <2>1. h \in DOMAIN s /\ s \in Seq(Requests(B))
    BY <1>7, <1>10, <1>11 DEF last
  <2>2. s[h] \in Requests(B)
    BY <2>1, LenProperties, ElementOfSeq
  <2>3. q[head].burst \in B
    BY <1>6, <1>11, <2>2 DEF Requests
  <2> QED BY <2>3, ChannelFacts DEF Coming, MemoryOK
<1> HIDE DEF new
<1>14. /\ readq' = IF k = "read" THEN left1 ELSE readq
       /\ writeq' = IF k = "write" THEN left1 ELSE writeq
       /\ otherq' = IF k = "other" THEN left1 ELSE others
       /\ pending' = IF done /\ k = "read" THEN Append(comes, new) ELSE comes
  BY <1>1, <1>6, <1>11
<1>15. QueuesOK(B)'
  <2>1. readq' \in Seq(Requests(B))
    BY <1>7, <1>12, <1>14 DEF QueuesOK
  <2>2. writeq' \in Seq(Requests(Int))
    BY <1>6, <1>12, <1>14 DEF QueuesOK
  <2>3. otherq' \in Seq(Ranks)
    BY <1>3, <1>12, <1>14
  <2>4. pending' \in Seq(Coming(B))
    BY <1>4, <1>13, <1>14
  <2> QED BY <2>1, <2>2, <2>3, <2>4 DEF QueuesOK
<1>16. Len(readq)' + Len(pending)' = (Len(readq) + Len(pending)) - (IF Comes THEN 1 ELSE 0)
  <2>1. PICK r, p, c, o : /\ r = Len(readq) /\ p = Len(pending) /\ c = Len(comes)
                          /\ o = (IF Comes THEN 1 ELSE 0)
    OBVIOUS
  <2>2. r \in Nat /\ p \in Nat /\ c \in Nat /\ o \in {0, 1} /\ c = p - o
    BY <1>4, <2>1, LenProperties DEF QueuesOK
  <2>3. CASE done /\ k = "read"
    <3>1. Len(readq)' = r - 1
      BY <1>7, <1>12, <1>14, <2>1, <2>3
    <3>2. Len(pending)' = c + 1
      BY <1>4, <1>13, <1>14, <2>1, <2>3
    <3>3. (r - 1) + (c + 1) = (r + p) - o
      BY <2>2
    <3> QED BY <2>1, <3>1, <3>2, <3>3
  <2>4. CASE ~ (done /\ k = "read")
    <3>1. Len(readq)' = r
      BY <1>7, <1>12, <1>14, <2>1, <2>2, <2>4
    <3>2. Len(pending)' = c
      BY <1>14, <2>1, <2>4
    <3>3. r + c = (r + p) - o
      BY <2>2
    <3> QED BY <2>1, <3>1, <3>2, <3>3
  <2> QED BY <2>3, <2>4
<1>17. CASE head = 0
  BY <1>1, <1>15, <1>16, <1>17
<1>18. CASE head # 0
  <2>1. PICK r : r = s[h]
    OBVIOUS
  <2>2. h \in DOMAIN s
    BY <1>10, <1>11, <1>18
  <2>3. (k = "other" => r \in Ranks) /\ (k # "other" => r \in Requests(C))
    <3>1. CASE k = "other"
      <4>1. s \in Seq(Ranks)
        BY <1>7, <3>1
      <4> QED BY <2>1, <2>2, <3>1, <4>1, LenProperties, ElementOfSeq
    <3>2. CASE k # "other"
      <4>1. s \in Seq(Requests(C))
        BY <1>7, <3>2
      <4> QED BY <2>1, <2>2, <3>2, <4>1, LenProperties, ElementOfSeq
    <3> QED BY <3>1, <3>2
  <2>4. w = Wanted(k, r)
    BY <1>6, <1>11, <2>1
  <2>5. w.addr \in Targets /\ cmd \in Commands /\ Way(cmd, w.addr) /\ Chosen(cmd, w.addr)
    <3>1. PICK a : a = w
      OBVIOUS
    <3> HIDE DEF w
    <3>2. CASE k = "other"
      BY <2>3, <2>4, <3>2, RefreshWay
    <3>3. CASE k # "other"
      BY <1>7, <2>3, <2>4, <3>3, AccessWay
    <3> QED BY <3>2, <3>3
  <2>6. Sends(cmd, w.addr)
    BY <1>1, <1>10, <1>18, <2>5 DEF Sends, Issue
  <2> HIDE DEF cmd, w
  <2> QED BY <1>15, <1>16, <2>5, <2>6
<1> QED BY <1>17, <1>18

-----------------------------------------------------------------------------
(***************************************************************************)
(* Any two commands of the history are apart, and so is their data.        *)
(***************************************************************************)
Way1(c, l) == SubSeq(c.addr, 1, l)

PairsApart(h) ==
  \A i, j \in DOMAIN h : i < j =>
    \A l \in 0 .. Depth : l <= Standard.scope[h[i].cmd] =>
      \A e \in EntriesOf(Way1(h[i], l)) :
        e.cmd = h[i].cmd /\ e.dist = 1 /\ Concerns(Way1(h[i], l), e, h[j]) =>
          h[j].ago - h[i].ago >= e.val

LEMMA AgePairs ==
  ASSUME NEW h, NEW r, Ages(h, r), PairsApart(h)
  PROVE  PairsApart(r)
<1> SUFFICES ASSUME NEW i \in DOMAIN r, NEW j \in DOMAIN r, i < j,
                    NEW l \in 0 .. Depth, l <= Standard.scope[r[i].cmd],
                    NEW e \in EntriesOf(Way1(r[i], l)),
                    e.cmd = r[i].cmd /\ e.dist = 1 /\ Concerns(Way1(r[i], l), e, r[j])
             PROVE  r[j].ago - r[i].ago >= e.val
  BY DEF PairsApart
<1>1. DOMAIN r = 1 .. Len(r) /\ DOMAIN h = 1 .. Len(h) /\ Len(r) \in Nat /\ Len(h) \in Nat
  BY LenProperties DEF Ages
<1>2. \A k \in DOMAIN r : k \in DOMAIN h /\ r[k].cmd = h[k].cmd /\ r[k].addr = h[k].addr
  BY <1>1 DEF Ages
<1>3. \A k \in DOMAIN r : r[k].ago = h[k].ago + 1 /\ h[k].ago \in Nat
  BY AgeSubsets
<1>4. Way1(r[i], l) = Way1(h[i], l) /\ Concerns(Way1(h[i], l), e, h[j])
  BY <1>2 DEF Way1, Concerns
<1>5. h[j].ago - h[i].ago >= e.val
  BY <1>2, <1>4 DEF PairsApart
<1>6. PICK a, b : a = h[i].ago /\ b = h[j].ago /\ r[i].ago = a + 1 /\ r[j].ago = b + 1
                  /\ a \in Nat /\ b \in Nat
  BY <1>3
<1>7. (b + 1) - (a + 1) = b - a
  BY <1>6
<1> QED BY <1>5, <1>6, <1>7

LEMMA PrefixedPairs ==
  ASSUME NEW c, NEW r, NEW g, Prefixed(c, r, g), c.ago = 0, PairsApart(r), FirstApart(g)
  PROVE  PairsApart(g)
<1> SUFFICES ASSUME NEW i \in DOMAIN g, NEW j \in DOMAIN g, i < j,
                    NEW l \in 0 .. Depth, l <= Standard.scope[g[i].cmd],
                    NEW n, n = Way1(g[i], l), NEW e \in EntriesOf(n),
                    e.cmd = g[i].cmd, e.dist = 1, Concerns(n, e, g[j])
             PROVE  g[j].ago - g[i].ago >= e.val
  BY DEF PairsApart
<1>1. DOMAIN g = 1 .. Len(g) /\ Len(g) \in Nat /\ g[1] = c
  BY LenProperties DEF Prefixed
<1>2. j # 1 /\ i \in Nat /\ j \in Nat
  BY <1>1
<1>3. CASE i = 1
  <2>1. PICK S : S = Concerned(n, e, g) \ {1}
    OBVIOUS
  <2>2. j \in S
    BY <1>2, <2>1 DEF Concerned
  <2>3. PICK p : p = [k \in 1 .. 1 |-> j]
    OBVIOUS
  <2>4. p \in Picks(S, 1) /\ p[1] = j
    BY <2>2, <2>3 DEF Picks
  <2>5. p \in Picks(Concerned(SubSeq(g[1].addr, 1, l), e, g) \ {1}, e.dist)
    BY <1>3, <2>1, <2>4 DEF Way1
  <2>6. g[p[e.dist]].ago >= e.val
    BY <1>3, <2>5 DEF FirstApart, Way1
  <2>7. g[j].ago >= e.val /\ g[j].ago \in Nat /\ g[i].ago = 0
    BY <1>1, <1>3, <2>4, <2>6, PrefixedCommands
  <2>8. g[j].ago - g[i].ago = g[j].ago
    BY <2>7
  <2> QED BY <2>7, <2>8
<1>4. CASE i # 1
  <2>1. /\ i - 1 \in DOMAIN r /\ g[i] = r[i - 1]
        /\ j - 1 \in DOMAIN r /\ g[j] = r[j - 1]
    BY <1>2, <1>4, PrefixedCommands
  <2>2. i - 1 < j - 1
    BY <1>2
  <2> QED BY <2>1, <2>2 DEF PairsApart
<1> QED BY <1>3, <1>4

\* The nodes of the channel and of the rank on the way to an address.
LEMMA RankOf ==
  ASSUME NEW a \in Targets, NEW b \in Targets, NEW n, n = SubSeq(a, 1, 1)
  PROVE  /\ SubSeq(a, 1, 0) = <<>> /\ Len(<<>>) = 0 /\ Len(n) = 1
         /\ Target(<<>>, b)
         /\ Target(n, b) <=> b[1] = a[1]
         /\ b[1] # a[1] => Beside(n, b)
<1>1. a \in Seq(Int) /\ b \in Seq(Int) /\ Len(a) \in Nat /\ Len(b) \in Nat
      /\ Len(a) >= 1 /\ Len(b) >= 1
  BY EmptySeq, LenProperties DEF Targets
<1>2. SubSeq(a, 1, 0) = <<>> /\ SubSeq(b, 1, 0) = <<>> /\ SubSeq(<<>>, 1, 0) = <<>>
      /\ Len(<<>>) = 0
  BY <1>1
<1>3. /\ n \in Seq(Int) /\ Len(n) = 1 /\ n[1] = a[1] /\ SubSeq(n, 1, 1) = n
      /\ SubSeq(b, 1, 1) \in Seq(Int) /\ Len(SubSeq(b, 1, 1)) = 1 /\ SubSeq(b, 1, 1)[1] = b[1]
  <2>1. n \in Seq(Int) /\ Len(n) = 1 /\ n[1] = a[1]
    BY <1>1
  <2>2. SubSeq(n, 1, 1) = n
    BY <2>1
  <2> QED BY <1>1, <2>1, <2>2
<1>4. Front(n) = <<>> /\ n # <<>>
  <2>1. n \in Seq(Int) /\ Len(n) = 1
    BY <1>3
  <2>2. SubSeq(n, 1, 0) = <<>>
    BY <2>1
  <2>3. n # <<>>
    <3>1. SUFFICES ASSUME n = <<>> PROVE FALSE
      OBVIOUS
    <3>2. Len(n) = 0
      BY <1>2, <3>1, Zenon
    <3> QED BY <2>1, <3>2
  <2>4. Len(n) - 1 = 0
    BY <2>1
  <2> QED BY <2>2, <2>3, <2>4, Zenon DEF Front
<1>5. Target(<<>>, b) /\ IsPrefix(Front(n), b)
  BY <1>1, <1>2, <1>4 DEF Target, IsPrefix
<1>6. Target(n, b) <=> b[1] = a[1]
  <2>1. n = SubSeq(b, 1, 1) <=> b[1] = a[1]
    <3>1. PICK m : m = SubSeq(b, 1, 1)
      OBVIOUS
    <3>2. m \in Seq(Int) /\ Len(m) = 1 /\ m[1] = b[1]
      BY <1>3, <3>1
    <3>3. m[1] = n[1] => m = n
      BY <1>3, <3>2
    <3> QED BY <1>3, <3>1, <3>2, <3>3
  <2>2. Target(n, b) <=> n = SubSeq(b, 1, 1)
    BY <1>1, <1>3 DEF Target, IsPrefix
  <2> QED BY <2>1, <2>2
<1> QED BY <1>2, <1>3, <1>4, <1>5, <1>6 DEF Beside

\* An entry of the channel, or of the rank of the later command, is kept.
LEMMA EntryKept ==
  ASSUME MemoryOK, NEW h \in Seq(Issues), PairsApart(h),
         NEW i \in DOMAIN h, NEW j \in DOMAIN h, i < j, Standard.scope[h[i].cmd] >= 1,
         NEW l \in {0, 1}, NEW e \in Standard.timing[l + 1],
         e.on = h[j].cmd, e.cmd = h[i].cmd, e.dist = 1, e.sibling \in BOOLEAN,
         e.sibling => l = 1 /\ h[j].addr[1] # h[i].addr[1],
         ~ e.sibling => l = 0 \/ h[j].addr[1] = h[i].addr[1]
  PROVE  h[j].ago - h[i].ago >= e.val
<1>1. h[i] \in Issues /\ h[j] \in Issues
  BY ElementOfSeq, LenProperties
<1>2. PICK a, b, n : a = h[i].addr /\ b = h[j].addr /\ n = SubSeq(a, 1, l)
  OBVIOUS
<1>3. a \in Targets /\ b \in Targets /\ h[i].cmd \in Commands
  BY <1>1, <1>2 DEF Issues
<1>4. Len(n) = l /\ IF e.sibling THEN Beside(n, b) ELSE Target(n, b)
  <2>1. CASE l = 0
    BY <1>2, <1>3, <2>1, RankOf
  <2>2. CASE l = 1
    BY <1>2, <1>3, <2>2, RankOf
  <2> QED BY <2>1, <2>2
<1>5. Concerns(Way1(h[i], l), e, h[j]) /\ e \in EntriesOf(Way1(h[i], l))
  BY <1>2, <1>4 DEF Concerns, Way1, EntriesOf
<1>6. l \in 0 .. Depth /\ l <= Standard.scope[h[i].cmd]
  <2>1. Depth \in Nat \ {0}
    BY ChannelFacts DEF MemoryOK
  <2>2. Standard.scope[h[i].cmd] \in Nat
    BY <1>3, ChannelFacts DEF MemoryOK
  <2> QED BY <2>1, <2>2
<1> QED BY <1>5, <1>6 DEF PairsApart

LEMMA PairsLeaveBusFree ==
  ASSUME MemoryOK, SpacesData(Standard), issued \in Seq(Issues), PairsApart(issued)
  PROVE  DataBusFree
<1> SUFFICES ASSUME NEW i \in Accesses, NEW j \in Accesses, i < j
             PROVE  LET changes == issued[i].addr[1] # issued[j].addr[1]
                                     /\ "RD" \in {issued[i].cmd, issued[j].cmd}
                    IN DataBegins(i) >= DataBegins(j) + Standard.data.length
                                          + (IF changes THEN Standard.data.pause ELSE 0)
  BY DEF DataBusFree
<1>1. PICK cmd, on, a, b, x, y : /\ cmd = issued[i].cmd /\ on = issued[j].cmd
                                 /\ a = issued[i].addr /\ b = issued[j].addr
                                 /\ x = issued[i].ago /\ y = issued[j].ago
  OBVIOUS
<1>2. i \in DOMAIN issued /\ j \in DOMAIN issued /\ cmd \in {"RD", "WR"} /\ on \in {"RD", "WR"}
  BY <1>1 DEF Accesses
<1>3. x \in Nat /\ y \in Nat
  <2>1. issued[i] \in Issues /\ issued[j] \in Issues
    BY <1>2, ElementOfSeq, LenProperties
  <2> QED BY <1>1, <2>1 DEF Issues
<1>4. Standard.scope[cmd] >= 1
  BY <1>2 DEF SpacesData, Rank
<1> DEFINE clear == Standard.data[on] + Standard.data.length - Standard.data[cmd]
           change == IF "RD" \in {on, cmd} THEN Standard.data.pause ELSE 0
           entries(sibling) == {e \in Standard.timing[1] \cup Standard.timing[2] :
                                  e.on = on /\ e.cmd = cmd /\ e.dist = 1 /\ e.sibling = sibling}
<1>5. /\ \E e \in entries(FALSE) : e.val >= clear
      /\ \/ \E e \in Standard.timing[2] \cap entries(TRUE) : e.val >= clear + change
         \/ \E e \in Standard.timing[1] \cap entries(FALSE) : e.val >= clear + change
  <2>1. Spaces(Standard, on, cmd)
    BY <1>2 DEF SpacesData
  <2> QED BY <2>1, Zenon DEF Spaces
<1>6. \A l \in {0, 1} : \A e \in Standard.timing[l + 1] :
        /\ e.on = on /\ e.cmd = cmd /\ e.dist = 1 /\ e.sibling \in BOOLEAN
        /\ e.sibling => l = 1 /\ b[1] # a[1]
        /\ ~ e.sibling => l = 0 \/ b[1] = a[1]
        => y - x >= e.val
  BY <1>1, <1>2, <1>4, EntryKept
<1>7. 0 + 1 = 1 /\ 1 + 1 = 2
  OBVIOUS
<1> DEFINE data(c) == Standard.data[c]
           length == Standard.data.length
<1>10. \A l \in {0, 1} : \A e \in Standard.timing[l + 1] : e.val \in Int
  <2>1. Depth \in Nat \ {0}
    BY ChannelFacts DEF MemoryOK
  <2>2. \A l \in {0, 1} : l + 1 \in 1 .. Depth + 1
    BY <2>1
  <2> QED BY <2>2 DEF MemoryOK, ChannelOK, StandardOK, EntryOK
<1>11. /\ data(on) \in Nat /\ data(cmd) \in Nat /\ length \in Nat
       /\ change \in Nat /\ clear \in Int
  <2>1. data(on) \in Nat /\ data(cmd) \in Nat /\ length \in Nat /\ Standard.data.pause \in Nat
    BY <1>2 DEF SpacesData
  <2> QED BY <2>1
<1>8. CASE b[1] = a[1]
  <2>1. PICK e \in entries(FALSE) : e.val >= clear
    BY <1>5
  <2>2. y - x >= e.val
    BY <1>6, <1>7, <1>8, <2>1
  <2>3. e.val \in Int
    BY <1>7, <1>10, <2>1
  <2>4. y - x >= clear
    BY <1>3, <1>11, <2>1, <2>2, <2>3
  <2>5. PICK ends, begins, long : ends = data(on) /\ begins = data(cmd) /\ long = length
    OBVIOUS
  <2>6. y - x >= ends + (long - begins) /\ ends \in Nat /\ begins \in Nat /\ long \in Nat
    BY <1>11, <2>4, <2>5
  <2>7. begins - x >= ((ends - y) + long) + 0
    BY <1>3, <2>6
  <2> QED BY <1>1, <1>8, <2>5, <2>7 DEF DataBegins
<1>9. CASE b[1] # a[1]
  <2>1. PICK e : /\ e.val >= clear + change
                 /\ \/ e \in Standard.timing[2] \cap entries(TRUE)
                    \/ e \in Standard.timing[1] \cap entries(FALSE)
    BY <1>5
  <2>2. y - x >= e.val
    BY <1>6, <1>7, <1>9, <2>1
  <2>3. e.val \in Int
    BY <1>7, <1>10, <2>1
  <2>4. y - x >= clear + change
    BY <1>3, <1>11, <2>1, <2>2, <2>3
  <2>5. PICK d : d = change
    OBVIOUS
  <2>6. PICK ends, begins, long : ends = data(on) /\ begins = data(cmd) /\ long = length
    OBVIOUS
  <2>9. /\ y - x >= (ends + (long - begins)) + d
        /\ ends \in Nat /\ begins \in Nat /\ long \in Nat /\ d \in Nat
    BY <1>11, <2>4, <2>5, <2>6
  <2>7. begins - x >= ((ends - y) + long) + d
    BY <1>3, <2>9
  <2>8. d = IF a[1] # b[1] /\ "RD" \in {cmd, on} THEN Standard.data.pause ELSE 0
    BY <1>9, <2>5
  <2> QED BY <1>1, <2>6, <2>7, <2>8 DEF DataBegins
<1> QED BY <1>8, <1>9

-----------------------------------------------------------------------------
(***************************************************************************)
(* The controller's invariant, and a tick.                                 *)
(***************************************************************************)
NodesOK ==
  /\ waits \in WaitsType /\ PastOK(past) /\ issued \in Seq(Issues)
  /\ WaitsCover(waits, issued) /\ PastCovers(past, issued) /\ PairsApart(issued)

LEMMA TickNodes ==
  ASSUME MemoryOK, NodesOK, QueuesOK(Int), Tick
  PROVE  NodesOK' /\ CommandsKeepApart' /\ QueuesOK(Int)'
<1>1. PICK w, pa, h, r : w = WaitLess(waits) /\ pa = Older(past) /\ h = issued /\ r = Recent(h)
  OBVIOUS
<1>2. ChannelOK /\ Ages(h, r) /\ r \in Seq(Issues)
  BY <1>1, RecentAges DEF MemoryOK, NodesOK, Ages
<1>3. w \in WaitsType /\ PastOK(pa)
  BY <1>1, <1>2, WaitLessType, OlderType DEF NodesOK
<1>4. WaitsCover(w, r)
  BY <1>1, <1>2, AgeWaits DEF NodesOK
<1>5. PastCovers(pa, r)
  BY <1>1, <1>2, AgePast DEF NodesOK
<1>9. PairsApart(r)
  BY <1>1, <1>2, AgePairs DEF NodesOK
<1>6. QueuesOK(Int)'
  BY TickIssues
<1>7. CASE waits' = WaitLess(waits) /\ past' = Older(past) /\ issued' = Recent(issued)
  <2>1. waits' = w /\ past' = pa /\ issued' = r
    BY <1>1, <1>7
  <2>2. NodesOK'
    BY <1>2, <1>3, <1>4, <1>5, <1>9, <2>1 DEF NodesOK
  <2>3. r # <<>> => r[1].ago # 0
    <3>1. r # <<>> => 1 \in 1 .. Len(r) /\ 1 \in DOMAIN r
      BY <1>2, LenProperties, EmptySeq
    <3> QED BY <1>2, <3>1, AgeSubsets
  <2>4. CommandsKeepApart'
    BY <2>1, <2>3 DEF CommandsKeepApart
  <2> QED BY <1>6, <2>2, <2>4
<1>8. CASE \E cmd \in Commands, addr \in Targets : Sends(cmd, addr)
  <2>1. PICK cmd \in Commands, addr \in Targets : Sends(cmd, addr)
    BY <1>8
  <2>2. PICK c, g, rec, d : /\ c = [cmd |-> cmd, addr |-> addr, ago |-> 0] /\ g = issued'
                            /\ rec = past' /\ d = waits'
    OBVIOUS
  <2>3. c \in Issues /\ c.cmd = cmd /\ c.addr = addr
    BY <2>2 DEF Issues
  <2>4. /\ g = <<c>> \o r /\ rec = Recorded(pa, c.cmd, c.addr)
        /\ d = Delayed(w, rec, c.cmd, c.addr)
    BY <1>1, <2>1, <2>2, <2>3 DEF Sends
  <2>5. Prefixed(c, r, g)
    BY <1>2, <2>3, <2>4, PrefixedBy
  <2>6. PastOK(rec)
    BY <1>2, <1>3, <2>4, RecordedType
  <2>7. PastCovers(rec, g)
    BY <1>2, <1>3, <1>5, <2>4, <2>5, IssuePast
  <2>8. DelayedOK(d, w, rec, c.cmd, c.addr)
    BY <1>2, <1>3, <2>3, <2>4, <2>6, DelayedWaits
  <2>9. WaitsCover(d, g)
    BY <1>2, <1>3, <1>4, <2>5, <2>6, <2>7, <2>8, IssueWaits
  <2>10. FirstApart(g)
    BY <1>1, <1>2, <1>3, <1>4, <2>1, <2>3, <2>5, IssueApart DEF Sends, Way
  <2>13. PairsApart(g)
    BY <1>9, <2>2, <2>5, <2>10, PrefixedPairs
  <2>11. NodesOK'
    BY <2>2, <2>5, <2>6, <2>7, <2>8, <2>9, <2>13 DEF NodesOK, DelayedOK, Prefixed
  <2>12. CommandsKeepApart'
    BY <2>2, <2>10 DEF CommandsKeepApart, FirstApart, Concerning, Concerned
  <2> QED BY <1>6, <2>11, <2>12
<1> QED BY <1>7, <1>8, TickIssues

-----------------------------------------------------------------------------
(***************************************************************************)
(* The adapter: it never sends more bursts than were asked for.            *)
(***************************************************************************)
Demands == [kind : {"none", "read", "write"}, start : Nat, bursts : Nat]
Serving ==
  {r \in [start : Nat, bursts : Nat, enqueued : Nat, done : Nat] : r.enqueued <= r.bursts}

AdapterOK ==
  /\ asks \in [{Ports[i] : i \in DOMAIN Ports} -> Demands]
  /\ atPort \in DOMAIN Ports
  /\ request \in Serving

LEMMA SentFits ==
  ASSUME NEW kind, NEW r \in Serving
  PROVE  Sent(kind, r) \in 0 .. r.bursts - r.enqueued
<1> DEFINE full(k) == IF kind = "write" THEN Len(writeq) + k >= QueueMax
                      ELSE Len(readq) + Cardinality({i \in 0 .. k - 1 :
                                     ~ Forwards(r.start + r.enqueued + i)}) >= QueueMax
           Fit == {k \in 0 .. r.bursts - r.enqueued : \A i \in 0 .. k - 1 : ~ full(i)}
<1>1. PICK space : space = r.bursts - r.enqueued
  OBVIOUS
<1>2. space \in Nat
  BY <1>1 DEF Serving
<1>3. Sent(kind, r) = Max(Fit)
  BY DEF Sent
<1> HIDE DEF full
<1>4. PICK F : F = Fit
  OBVIOUS
<1>5. F \in SUBSET (0 .. space)
  BY <1>1, <1>4
<1>6. 0 \in F
  BY <1>1, <1>2, <1>4
<1>7. F \in SUBSET Int /\ F # {} /\ Bounded(F, space)
  BY <1>2, <1>5, <1>6 DEF Bounded
<1>8. Max(F) \in F
  BY <1>7, MaxOfBounded
<1> HIDE DEF Fit
<1> QED BY <1>1, <1>3, <1>4, <1>5, <1>8

Span(r) == r.start .. r.start + r.bursts

LEMMA NewBurstsType ==
  ASSUME NEW r \in Serving, NEW n \in 0 .. r.bursts - r.enqueued
  PROVE  /\ Span(r) \in SUBSET Int
         /\ NewBursts(r, n) \in Seq(Span(r)) /\ NewBursts(r, n) \in Seq(Int)
         /\ Len(NewBursts(r, n)) = n
<1>1. r.start \in Nat /\ r.enqueued \in Nat /\ r.bursts \in Nat
  BY DEF Serving
<1>2. n \in Nat /\ n <= r.bursts - r.enqueued
  BY <1>1
<1>3. \A i \in 1 .. n : r.start + r.enqueued + i - 1 \in Span(r)
  BY <1>1, <1>2 DEF Span
<1>4. Span(r) \in SUBSET Int
  BY <1>1 DEF Span
<1>5. PICK B : B = Span(r) /\ B \in SUBSET Int
  BY <1>4
<1>6. NewBursts(r, n) \in [1 .. n -> B] /\ NewBursts(r, n) \in [1 .. n -> Int]
  BY <1>3, <1>5 DEF NewBursts
<1> QED BY <1>2, <1>5, <1>6, FunctionIsSeq

LEMMA ServedType ==
  ASSUME request \in Serving, NEW ask \in Demands
  PROVE  Served(ask) \in Serving
BY DEF Served, Serving, Demands

LEMMA EnqueueReadTypes ==
  ASSUME MemoryOK, NEW B \in SUBSET Int, QueuesOK(B), NEW bursts \in Seq(B), EnqueueReads(bursts)
  PROVE  /\ readq' \in Seq(Requests(B)) /\ pending' \in Seq(Coming(B)) /\ writeq' = writeq
         /\ Len(readq)' + Len(pending)' = (Len(readq) + Len(pending)) + Len(bursts)
<1>1. PICK all : all = Enqueued(bursts)
  OBVIOUS
<1>2. readq' = all.reads /\ pending' = all.comes /\ writeq' = writeq
  BY <1>1 DEF EnqueueReads
<1>3. /\ all.reads \in Seq(Requests(B)) /\ all.comes \in Seq(Coming(B))
      /\ Len(all.reads) + Len(all.comes) = Len(readq) + Len(pending) + Len(bursts)
  BY <1>1, EnqueuedType DEF QueuesOK, MemoryOK, RequestsOK
<1> QED BY <1>2, <1>3

LEMMA EnqueueWriteTypes ==
  ASSUME MemoryOK, NEW B, QueuesOK(B), NEW bursts \in Seq(Int), EnqueueWrites(bursts)
  PROVE  writeq' \in Seq(Requests(Int)) /\ readq' = readq /\ pending' = pending
<1>1. PICK new, n : new = [i \in DOMAIN bursts |-> Request(bursts[i])] /\ n = Len(bursts)
  OBVIOUS
<1>2. n \in Nat /\ DOMAIN bursts = 1 .. n /\ \A i \in 1 .. n : bursts[i] \in Int
  BY <1>1, LenProperties, ElementOfSeq
<1>3. \A i \in 1 .. n : Request(bursts[i]) \in Requests(Int)
  BY <1>2, RequestType DEF MemoryOK, RequestsOK
<1>4. new \in [1 .. n -> Requests(Int)]
  BY <1>1, <1>2, <1>3
<1>5. new \in Seq(Requests(Int))
  BY <1>2, <1>4, FunctionIsSeq
<1> QED BY <1>1, <1>5 DEF EnqueueWrites, QueuesOK

LEMMA ReadKeeps ==
  ASSUME MemoryOK, QueuesOK(Int), AdapterOK, NEW p, NEW ask \in Demands, Read(p, ask)
  PROVE  /\ readq' \in Seq(Requests(Int)) /\ pending' \in Seq(Coming(Int))
         /\ writeq' \in Seq(Requests(Int))
         /\ asks' \in [{Ports[i] : i \in DOMAIN Ports} -> Demands]
         /\ request' \in Serving
<1>1. NoAsk \in Demands
  BY DEF NoAsk, Demands
<1>2. asks' \in [{Ports[i] : i \in DOMAIN Ports} -> Demands]
  BY <1>1 DEF Read, AdapterOK
<1>3. CASE request.start # 0 /\ request.bursts = request.done
  <2>1. request' = NoRequest /\ UNCHANGED <<readq, writeq, pending>>
    BY <1>3 DEF Read
  <2>2. NoRequest \in Serving
    BY DEF NoRequest, Serving
  <2> QED BY <1>2, <2>1, <2>2 DEF QueuesOK
<1>4. CASE ~ (request.start # 0 /\ request.bursts = request.done)
  <2>1. PICK r, n : r = Served(ask) /\ n = Sent("read", r)
    OBVIOUS
  <2>2. request' = [r EXCEPT !.enqueued = @ + n] /\ EnqueueReads(NewBursts(r, n))
    BY <1>4, <2>1 DEF Read
  <2>3. r \in Serving
    BY <2>1, ServedType DEF AdapterOK
  <2>4. n \in 0 .. r.bursts - r.enqueued
    BY <2>1, <2>3, SentFits
  <2>5. request' \in Serving
    BY <2>2, <2>3, <2>4 DEF Serving
  <2>6. NewBursts(r, n) \in Seq(Int)
    BY <2>3, <2>4, NewBurstsType
  <2> QED BY <1>2, <2>2, <2>5, <2>6, EnqueueReadTypes DEF QueuesOK
<1> QED BY <1>3, <1>4

LEMMA WriteKeeps ==
  ASSUME MemoryOK, QueuesOK(Int), AdapterOK, NEW p, NEW ask \in Demands, Write(p, ask)
  PROVE  /\ readq' \in Seq(Requests(Int)) /\ pending' \in Seq(Coming(Int))
         /\ writeq' \in Seq(Requests(Int))
         /\ asks' \in [{Ports[i] : i \in DOMAIN Ports} -> Demands]
         /\ request' \in Serving
<1>1. NoAsk \in Demands
  BY DEF NoAsk, Demands
<1>2. asks' \in [{Ports[i] : i \in DOMAIN Ports} -> Demands]
  BY <1>1 DEF Write, AdapterOK
<1>3. PICK r, n : r = Served(ask) /\ n = Sent("write", r)
  OBVIOUS
<1>4. /\ EnqueueWrites(NewBursts(r, n))
      /\ request' = NoRequest \/ request' = [r EXCEPT !.enqueued = @ + n, !.done = @ + n]
  BY <1>3 DEF Write
<1>5. r \in Serving
  BY <1>3, ServedType DEF AdapterOK
<1>6. n \in 0 .. r.bursts - r.enqueued
  BY <1>3, <1>5, SentFits
<1>7. request' \in Serving /\ n \in Nat
  <2>1. NoRequest \in Serving
    BY DEF NoRequest, Serving
  <2>2. r.bursts \in Nat /\ r.enqueued \in Nat /\ r.done \in Nat /\ n \in Nat
        /\ r.enqueued + n <= r.bursts
    BY <1>5, <1>6 DEF Serving
  <2>3. [r EXCEPT !.enqueued = @ + n, !.done = @ + n] \in Serving
    <3>1. PICK x : x = [r EXCEPT !.enqueued = @ + n, !.done = @ + n]
      OBVIOUS
    <3>2. x = [start |-> r.start, bursts |-> r.bursts, enqueued |-> r.enqueued + n,
               done |-> r.done + n]
      BY <1>5, <3>1 DEF Serving
    <3>3. r.start \in Nat /\ r.enqueued + n \in Nat /\ r.done + n \in Nat
      BY <1>5, <2>2 DEF Serving
    <3>4. x \in [start : Nat, bursts : Nat, enqueued : Nat, done : Nat]
      BY <2>2, <3>2, <3>3
    <3>5. x.enqueued <= x.bursts
      BY <2>2, <3>2
    <3> QED BY <3>1, <3>4, <3>5 DEF Serving
  <2> QED BY <1>4, <2>1, <2>2, <2>3
<1>8. NewBursts(r, n) \in Seq(Int)
  BY <1>5, <1>6, NewBurstsType
<1> QED BY <1>2, <1>4, <1>7, <1>8, EnqueueWriteTypes DEF QueuesOK

LEMMA AccessKeeps ==
  ASSUME MemoryOK, QueuesOK(Int), AdapterOK, Access
  PROVE  QueuesOK(Int)' /\ AdapterOK'
<1>1. atPort' \in DOMAIN Ports
  <2>1. Len(Ports) \in Nat /\ DOMAIN Ports = 1 .. Len(Ports) /\ Len(Ports) > 0
    BY EmptySeq, LenProperties DEF MemoryOK, RequestsOK
  <2> QED BY <2>1 DEF Access, CoreTick, AdapterOK
<1>2. UNCHANGED otherq
  BY DEF Access
<1>3. PICK p : p = Ports[atPort]
  OBVIOUS
<1>4. CASE UNCHANGED <<asks, request, readq, writeq, pending>>
  BY <1>1, <1>2, <1>4 DEF QueuesOK, AdapterOK
<1>5. CASE \E ask \in IF asks[p] = NoAsk THEN Asks ELSE {asks[p]} :
             IF ask.kind = "read" THEN Read(p, ask) ELSE Write(p, ask)
  <2>1. PICK ask \in IF asks[p] = NoAsk THEN Asks ELSE {asks[p]} :
               IF ask.kind = "read" THEN Read(p, ask) ELSE Write(p, ask)
    BY <1>5
  <2>2. ask \in Demands
    <3>1. p \in {Ports[i] : i \in DOMAIN Ports}
      BY <1>3 DEF AdapterOK
    <3>2. asks[p] \in Demands
      BY <3>1 DEF AdapterOK
    <3>3. ask \in Asks \/ ask = asks[p]
      BY <2>1
    <3>4. Asks \subseteq Demands
      BY DEF MemoryOK, RequestsOK, Demands
    <3> QED BY <3>2, <3>3, <3>4
  <2>3. /\ readq' \in Seq(Requests(Int)) /\ pending' \in Seq(Coming(Int))
        /\ writeq' \in Seq(Requests(Int))
        /\ asks' \in [{Ports[i] : i \in DOMAIN Ports} -> Demands]
        /\ request' \in Serving
    BY <2>1, <2>2, ReadKeeps, WriteKeeps
  <2> QED BY <1>1, <1>2, <2>3 DEF QueuesOK, AdapterOK
<1> QED BY <1>3, <1>4, <1>5 DEF Access

-----------------------------------------------------------------------------
(***************************************************************************)
(* The theorem.                                                            *)
(***************************************************************************)
IInv == NodesOK /\ QueuesOK(Int) /\ AdapterOK /\ CommandsKeepApart

LEMMA InitHolds ==
  ASSUME MemoryOK, Init
  PROVE  IInv
<1>1. /\ issued = <<>> /\ waits = NoWait /\ past = NoPast
      /\ readq = <<>> /\ writeq = <<>> /\ otherq = <<>> /\ pending = <<>>
  BY DEF Init, ControllerInit
<1>2. Standard.longest \in Nat /\ ChannelOK
  BY ChannelFacts DEF MemoryOK
<1>3. waits \in WaitsType
  BY <1>1, <1>2 DEF NoWait, WaitsType
<1>4. PastOK(past)
  BY <1>1, <1>2 DEF NoPast, PastOK
<1>5. \A n, e : Concerned(n, e, issued) = {}
  BY <1>1 DEF Concerned
<1>6. \A x : Counted(x, issued) = {}
  BY <1>1 DEF Counted
<1>7. WaitsCover(waits, issued)
  <2> SUFFICES ASSUME NEW n \in Nodes, NEW e \in EntriesOf(n),
                      NEW p \in Picks(Concerned(n, e, issued), e.dist)
               PROVE  FALSE
    BY DEF WaitsCover
  <2>1. p[e.dist] \in Concerned(n, e, issued)
    BY <1>2, EntryCounts, PickOf
  <2> QED BY <1>5, <2>1
<1>8. PastCovers(past, issued)
  <2> SUFFICES ASSUME NEW x \in Histories, NEW k \in 1 .. Remembered(x[1], x[2]),
                      NEW p \in Picks(Counted(x, issued), k)
               PROVE  FALSE
    BY DEF PastCovers
  <2>1. k \in Nat \ {0}
    BY <1>2, <1>4, RememberedType
  <2>2. p[k] \in Counted(x, issued)
    BY <2>1, PickOf
  <2> QED BY <1>6, <2>2
<1>9. NodesOK
  BY <1>1, <1>3, <1>4, <1>7, <1>8 DEF NodesOK, PairsApart
<1>10. QueuesOK(Int)
  BY <1>1 DEF QueuesOK
<1>11. AdapterOK
  <2>1. NoAsk \in Demands /\ NoRequest \in Serving
    BY DEF NoAsk, Demands, NoRequest, Serving
  <2>2. 1 \in DOMAIN Ports
    BY EmptySeq, LenProperties DEF MemoryOK, RequestsOK
  <2> QED BY <2>1, <2>2 DEF Init, AdapterOK
<1>12. CommandsKeepApart
  BY <1>1 DEF CommandsKeepApart
<1> QED BY <1>9, <1>10, <1>11, <1>12 DEF IInv

LEMMA StepHolds ==
  ASSUME MemoryOK, IInv, [Next]_vars
  PROVE  IInv'
<1>1. CASE Access
  <2>1. QueuesOK(Int)' /\ AdapterOK'
    BY <1>1, AccessKeeps DEF IInv
  <2>2. UNCHANGED <<waits, past, issued>>
    BY <1>1 DEF Access
  <2>3. NodesOK' /\ CommandsKeepApart'
    BY <2>2 DEF IInv, NodesOK, CommandsKeepApart, Concerning
  <2> QED BY <2>1, <2>3 DEF IInv
<1>2. CASE MemTick
  <2>1. NodesOK' /\ CommandsKeepApart' /\ QueuesOK(Int)'
    BY <1>2, TickNodes DEF MemTick, IInv
  <2>2. UNCHANGED <<asks, atPort>>
        /\ (UNCHANGED request \/ request' = [request EXCEPT !.done = @ + 1])
    BY <1>2 DEF MemTick
  <2>3. AdapterOK'
    BY <2>2 DEF IInv, AdapterOK, Serving
  <2> QED BY <2>1, <2>3 DEF IInv
<1>3. CASE UNCHANGED vars
  <2>1. UNCHANGED <<waits, past, issued, readq, writeq, otherq, pending, asks, atPort, request>>
    BY <1>3 DEF vars, controllerVars, adapterVars
  <2> QED BY <2>1 DEF IInv, NodesOK, QueuesOK, AdapterOK, CommandsKeepApart, Concerning
<1> QED BY <1>1, <1>2, <1>3 DEF Next

\* Whatever is read, written and refreshed, every command the controller issues keeps
\* every time of the standard to every command before it, of all nodes it concerns
\* (DRAM.h update_timing, check): the next and prev of the nodes forget none that counts.
THEOREM CommandsKeepTimes ==
  ASSUME MemoryOK
  PROVE  Spec => []CommandsKeepApart
<1>1. Init => IInv
  BY InitHolds
<1>2. IInv /\ [Next]_vars => IInv'
  BY StepHolds
<1>3. IInv => CommandsKeepApart
  BY DEF IInv
<1> QED BY <1>1, <1>2, <1>3, PTL DEF Spec

\* In particular the data of two accesses never is on the bus at once, and the bus rests
\* when the rank changes, for every standard that spaces commands that much.
THEOREM DataNeverCollides ==
  ASSUME MemoryOK, SpacesData(Standard)
  PROVE  Spec => []DataBusFree
<1>1. Init => IInv
  BY InitHolds
<1>2. IInv /\ [Next]_vars => IInv'
  BY StepHolds
<1>3. IInv => DataBusFree
  BY PairsLeaveBusFree DEF IInv, NodesOK
<1> QED BY <1>1, <1>2, <1>3, PTL DEF Spec
-----------------------------------------------------------------------------
(***************************************************************************)
(* The reads of the controller are those of the request being served.      *)
(***************************************************************************)
OneAsks == Len(Ports) = 1 /\ \A ask \in Asks : ask.start > 0

\* The record is that of what the port repeats, and the controller's reads are its bursts.
RecordInv ==
  LET ask == asks[Ports[1]] IN
  /\ ask = NoAsk => request = NoRequest
  /\ ask # NoAsk => request.start = ask.start /\ request.bursts = ask.bursts
  /\ ask # NoAsk => request.start > 0 /\ ask.kind \in {"read", "write"}
  /\ ask.kind = "write" => request.done = request.enqueued

ReadsInv == QueuesOK(Span(request)) /\ RecordInv /\ ReadsAccounted

\* A queue without elements holds bursts of any request.
LEMMA NoReads ==
  ASSUME QueuesOK(Int), Len(readq) + Len(pending) = 0
  PROVE  readq = <<>> /\ pending = <<>> /\ \A B : QueuesOK(B)
<1>1. Len(readq) = 0 /\ Len(pending) = 0
  BY LenProperties DEF QueuesOK
<1>2. readq = <<>> /\ pending = <<>>
  BY <1>1, EmptySeq DEF QueuesOK
<1> QED BY <1>2, EmptySeq DEF QueuesOK

LEMMA RecordServed ==
  ASSUME RequestsOK, OneAsks, AdapterOK, RecordInv, QueuesOK(Int), ReadsInv,
         NEW p, p = Ports[1], NEW ask \in IF asks[p] = NoAsk THEN Asks ELSE {asks[p]},
         NEW r, r = Served(ask)
  PROVE  /\ ask.kind \in {"read", "write"} /\ ask \in Demands /\ ask # NoAsk
         /\ r \in Serving /\ r.start = ask.start /\ r.bursts = ask.bursts /\ r.start > 0
         /\ Within(ask, r)
         /\ QueuesOK(Span(r))
         /\ Len(readq) + Len(pending) = r.enqueued - r.done
         /\ ask.kind = "write" => r.done = r.enqueued
<1>1. CASE asks[p] = NoAsk
  <2>1. ask \in Asks /\ request = NoRequest
    BY <1>1 DEF RecordInv
  <2>2. ask \in [kind : {"read", "write"}, start : Nat, bursts : Nat] /\ ask.start > 0
    BY <2>1 DEF RequestsOK, OneAsks
  <2>3. r = [start |-> ask.start, bursts |-> ask.bursts, enqueued |-> 0, done |-> 0]
    BY <2>1 DEF Served, NoRequest
  <2>4. Len(readq) + Len(pending) = 0
    BY <2>1 DEF ReadsInv, ReadsAccounted, NoRequest
  <2>5. QueuesOK(Span(r))
    BY <2>4, NoReads
  <2>6. r \in Serving
    BY <2>2, <2>3 DEF Serving
  <2>7. ask # NoAsk /\ ask \in Demands
    BY <2>2 DEF NoAsk, Demands
  <2>8. Within(ask, r)
    BY <2>2, <2>3 DEF Within
  <2> QED BY <2>2, <2>3, <2>4, <2>5, <2>6, <2>7, <2>8
<1>2. CASE asks[p] # NoAsk
  <2>1. ask = asks[p]
    BY <1>2
  <2>2. /\ request.start = ask.start /\ request.bursts = ask.bursts
        /\ request.start > 0 /\ ask.kind \in {"read", "write"}
        /\ ask.kind = "write" => request.done = request.enqueued
    BY <1>2, <2>1 DEF RecordInv
  <2>3. request \in Serving /\ request.start \in Nat /\ request.bursts \in Nat
    BY DEF AdapterOK, Serving
  <2>4. r = request
    BY <2>2, <2>3 DEF Served
  <2>5. ask \in Demands
    <3>1. 1 \in DOMAIN Ports
      BY LenProperties DEF OneAsks, RequestsOK
    <3> QED BY <2>1, <3>1 DEF AdapterOK
  <2>6. Within(ask, r)
    BY <2>2, <2>3, <2>4 DEF Within
  <2> QED BY <1>2, <2>1, <2>2, <2>3, <2>4, <2>5, <2>6 DEF ReadsInv, ReadsAccounted
<1> QED BY <1>1, <1>2

\* ramulator_memory_t::read
LEMMA ReadAccounts ==
  ASSUME MemoryOK, OneAsks, IInv, ReadsInv,
         NEW p, p = Ports[1], NEW ask \in IF asks[p] = NoAsk THEN Asks ELSE {asks[p]},
         ask.kind = "read", Read(p, ask), UNCHANGED otherq
  PROVE  ReadsInv'
<1>1. PICK r, n : r = Served(ask) /\ n = Sent("read", r)
  OBVIOUS
<1>2. /\ ask \in Demands /\ ask # NoAsk
      /\ r \in Serving /\ r.start = ask.start /\ r.bursts = ask.bursts /\ r.start > 0
      /\ Within(ask, r)
      /\ QueuesOK(Span(r))
      /\ Len(readq) + Len(pending) = r.enqueued - r.done
  BY <1>1, RecordServed DEF MemoryOK, IInv, ReadsInv
<1>3. p \in {Ports[i] : i \in DOMAIN Ports} /\ asks[p]' = asks'[p]
  <2>1. 1 \in DOMAIN Ports
    BY LenProperties DEF OneAsks, RequestsOK, MemoryOK
  <2> QED BY <2>1
<1>4. CASE request.start # 0 /\ request.bursts = request.done
  <2>1. /\ asks' = [asks EXCEPT ![p] = NoAsk] /\ request' = NoRequest
        /\ UNCHANGED <<readq, writeq, pending, failed>>
    BY <1>4 DEF Read
  <2>2. asks'[p] = NoAsk
    BY <1>3, <2>1 DEF IInv, AdapterOK
  <2>3. Len(readq) + Len(pending) = 0
    <3>1. Len(readq) + Len(pending) = request.enqueued - request.done
      BY DEF ReadsInv, ReadsAccounted
    <3>2. /\ request.enqueued \in Nat /\ request.done \in Nat /\ request.bursts \in Nat
          /\ request.enqueued <= request.bursts
      BY DEF IInv, AdapterOK, Serving
    <3>3. Len(readq) \in Nat /\ Len(pending) \in Nat
      BY LenProperties DEF IInv, QueuesOK
    <3> QED BY <1>4, <3>1, <3>2, <3>3
  <2>4. QueuesOK(Span(NoRequest))
    BY <2>3, NoReads DEF IInv
  <2>5. QueuesOK(Span(request))'
    BY <2>1, <2>4 DEF QueuesOK
  <2>6. RecordInv'
    BY <2>1, <2>2 DEF RecordInv, NoAsk
  <2>7. ReadsAccounted'
    BY <2>1, <2>3 DEF ReadsInv, ReadsAccounted, NoRequest
  <2> QED BY <2>5, <2>6, <2>7 DEF ReadsInv
<1>5. CASE ~ (request.start # 0 /\ request.bursts = request.done)
  <2>1. /\ asks' = [asks EXCEPT ![p] = ask]
        /\ failed' = ~ Within(ask, r)
        /\ request' = [r EXCEPT !.enqueued = @ + n]
        /\ EnqueueReads(NewBursts(r, n))
    BY <1>1, <1>5 DEF Read
  <2>2. asks'[p] = ask
    BY <1>3, <2>1 DEF IInv, AdapterOK
  <2>3. n \in 0 .. r.bursts - r.enqueued
    BY <1>1, <1>2, SentFits
  <2>4. PICK B, bursts : /\ B = Span(r) /\ B \in SUBSET Int /\ bursts = NewBursts(r, n)
                         /\ bursts \in Seq(B) /\ Len(bursts) = n
    BY <1>2, <2>3, NewBurstsType
  <2>5. /\ readq' \in Seq(Requests(B)) /\ pending' \in Seq(Coming(B)) /\ writeq' = writeq
        /\ Len(readq)' + Len(pending)' = (Len(readq) + Len(pending)) + n
    BY <1>2, <2>1, <2>4, EnqueueReadTypes
  <2>6. /\ request'.start = r.start /\ request'.bursts = r.bursts /\ request'.done = r.done
        /\ request'.enqueued = r.enqueued + n
        /\ r.enqueued \in Nat /\ r.done \in Nat /\ n \in Nat
    BY <1>2, <2>1, <2>3 DEF Serving
  <2>7. QueuesOK(Span(request))'
    <3>1. Span(request)' = B
      BY <2>4, <2>6 DEF Span
    <3> QED BY <1>2, <2>5, <3>1 DEF QueuesOK
  <2>8. RecordInv'
    BY <1>2, <2>2, <2>6 DEF RecordInv
  <2>9. ReadsAccounted'
    <3>1. ~ failed'
      BY <1>2, <2>1
    <3>2. Len(readq)' + Len(pending)' = (r.enqueued - r.done) + n
      BY <1>2, <2>5
    <3> QED BY <2>6, <3>1, <3>2 DEF ReadsAccounted
  <2> QED BY <2>7, <2>8, <2>9 DEF ReadsInv
<1> QED BY <1>4, <1>5

\* ramulator_memory_t::write
LEMMA WriteAccounts ==
  ASSUME MemoryOK, OneAsks, IInv, ReadsInv,
         NEW p, p = Ports[1], NEW ask \in IF asks[p] = NoAsk THEN Asks ELSE {asks[p]},
         ask.kind # "read", Write(p, ask), UNCHANGED otherq
  PROVE  ReadsInv'
<1>1. PICK r, n : r = Served(ask) /\ n = Sent("write", r)
  OBVIOUS
<1>2. /\ ask.kind = "write" /\ ask # NoAsk
      /\ r \in Serving /\ r.start = ask.start /\ r.bursts = ask.bursts /\ r.start > 0
      /\ Within(ask, r)
      /\ QueuesOK(Span(r))
      /\ Len(readq) + Len(pending) = r.enqueued - r.done
      /\ r.done = r.enqueued
  BY <1>1, RecordServed DEF MemoryOK, IInv, ReadsInv
<1>3. p \in {Ports[i] : i \in DOMAIN Ports}
  <2>1. 1 \in DOMAIN Ports
    BY LenProperties DEF OneAsks, RequestsOK, MemoryOK
  <2> QED BY <2>1
<1>4. n \in 0 .. r.bursts - r.enqueued
  BY <1>1, <1>2, SentFits
<1>5. r.enqueued \in Nat /\ r.done \in Nat /\ n \in Nat /\ r.bursts \in Nat /\ r.start \in Nat
  BY <1>2, <1>4 DEF Serving
<1>6. NewBursts(r, n) \in Seq(Int)
  BY <1>2, <1>4, NewBurstsType
<1>7. EnqueueWrites(NewBursts(r, n))
  BY <1>1 DEF Write
<1>8. writeq' \in Seq(Requests(Int)) /\ readq' = readq /\ pending' = pending
  BY <1>2, <1>6, <1>7, EnqueueWriteTypes
<1>9. PICK done : done = (r.enqueued + n = r.bursts)
  OBVIOUS
<1>10. ~ failed'
  BY <1>1, <1>2, <1>5 DEF Write
<1>11. Len(readq) + Len(pending) = 0
  BY <1>2, <1>5
<1>12. \A B : QueuesOK(B)'
  BY <1>8, <1>11, NoReads, EmptySeq DEF IInv, QueuesOK
<1>13. CASE r.enqueued + n = r.bursts
  <2>1. asks' = [asks EXCEPT ![p] = NoAsk] /\ request' = NoRequest
    BY <1>1, <1>13 DEF Write
  <2>2. asks'[p] = NoAsk
    BY <1>3, <2>1 DEF IInv, AdapterOK
  <2>3. RecordInv'
    BY <2>1, <2>2 DEF RecordInv, NoAsk
  <2>4. ReadsAccounted'
    BY <1>8, <1>10, <1>11, <2>1 DEF ReadsAccounted, NoRequest
  <2> QED BY <1>12, <2>3, <2>4 DEF ReadsInv
<1>14. CASE r.enqueued + n # r.bursts
  <2>1. /\ asks' = [asks EXCEPT ![p] = ask]
        /\ request' = [r EXCEPT !.enqueued = @ + n, !.done = @ + n]
    BY <1>1, <1>14 DEF Write
  <2>2. asks'[p] = ask
    BY <1>3, <2>1 DEF IInv, AdapterOK
  <2>3. /\ request'.start = r.start /\ request'.bursts = r.bursts
        /\ request'.done = r.done + n /\ request'.enqueued = r.enqueued + n
    BY <1>2, <2>1 DEF Serving
  <2>4. RecordInv'
    BY <1>2, <2>2, <2>3 DEF RecordInv
  <2>5. ReadsAccounted'
    BY <1>2, <1>5, <1>8, <1>10, <1>11, <2>3 DEF ReadsAccounted
  <2> QED BY <1>12, <2>4, <2>5 DEF ReadsInv
<1> QED BY <1>13, <1>14

\* A tick of the memory, with done_callback.
LEMMA TickAccounts ==
  ASSUME MemoryOK, IInv, ReadsInv, MemTick
  PROVE  ReadsInv'
<1>1. request \in Serving /\ request.start \in Nat /\ request.bursts \in Nat
      /\ request.enqueued \in Nat /\ request.done \in Nat
  BY DEF IInv, AdapterOK, Serving
<1>2. PICK B : B = Span(request) /\ B \in SUBSET Int
  BY <1>1 DEF Span
<1>3. /\ QueuesOK(B)'
      /\ Len(readq)' + Len(pending)' = (Len(readq) + Len(pending)) - (IF Comes THEN 1 ELSE 0)
  BY <1>2, TickIssues DEF MemTick, ReadsInv
<1>4. Len(readq) + Len(pending) = request.enqueued - request.done /\ ~ failed
  BY DEF ReadsInv, ReadsAccounted
<1>5. UNCHANGED asks
  BY DEF MemTick
<1>6. CASE Comes
  <2>1. /\ request' = [request EXCEPT !.done = @ + 1]
        /\ failed' = ~ (pending[1].burst \in request.start .. request.start + request.bursts)
    BY <1>6 DEF MemTick
  <2>2. /\ request'.start = request.start /\ request'.bursts = request.bursts
        /\ request'.enqueued = request.enqueued /\ request'.done = request.done + 1
    BY <1>1, <2>1 DEF Serving
  <2>3. Len(pending) > 0 /\ Len(readq) \in Nat /\ pending[1] \in Coming(B)
    BY <1>2, <1>6, EmptySeq, LenProperties, ElementOfSeq DEF Comes, ReadsInv, QueuesOK
  <2>4. ~ failed'
    BY <1>2, <2>1, <2>3 DEF Coming, Span
  <2>5. ReadsAccounted'
    BY <1>1, <1>3, <1>4, <1>6, <2>2, <2>4 DEF ReadsAccounted
  <2>6. request.done # request.enqueued /\ request # NoRequest
    BY <1>1, <1>4, <2>3, LenProperties DEF NoRequest, IInv, QueuesOK
  <2>7. RecordInv'
    BY <1>5, <2>2, <2>6 DEF ReadsInv, RecordInv
  <2>8. Span(request)' = B
    BY <1>2, <2>2 DEF Span
  <2> QED BY <1>3, <2>5, <2>7, <2>8 DEF ReadsInv, QueuesOK
<1>7. CASE ~ Comes
  <2>1. UNCHANGED <<request, failed>>
    BY <1>7 DEF MemTick
  <2>2. RecordInv' /\ ReadsAccounted'
    BY <1>3, <1>4, <1>5, <1>7, <2>1 DEF ReadsInv, RecordInv, ReadsAccounted
  <2>3. Span(request)' = B
    BY <1>2, <2>1 DEF Span
  <2> QED BY <1>3, <2>2, <2>3 DEF ReadsInv, QueuesOK
<1> QED BY <1>6, <1>7

LEMMA ReadsInit ==
  ASSUME MemoryOK, OneAsks, Init
  PROVE  ReadsInv
<1>1. /\ readq = <<>> /\ writeq = <<>> /\ otherq = <<>> /\ pending = <<>>
      /\ request = NoRequest /\ ~ failed
  BY DEF Init, ControllerInit
<1>2. asks[Ports[1]] = NoAsk
  <2>1. 1 \in DOMAIN Ports
    BY LenProperties DEF OneAsks, RequestsOK, MemoryOK
  <2> QED BY <2>1 DEF Init
<1>3. QueuesOK(Span(request))
  BY <1>1, EmptySeq DEF QueuesOK
<1>4. RecordInv
  BY <1>1, <1>2 DEF RecordInv, NoAsk
<1>5. ReadsAccounted
  BY <1>1, EmptySeq DEF ReadsAccounted, NoRequest
<1> QED BY <1>3, <1>4, <1>5 DEF ReadsInv

LEMMA ReadsStep ==
  ASSUME MemoryOK, OneAsks, IInv, ReadsInv, [Next]_vars
  PROVE  ReadsInv'
<1>1. CASE Access
  <2>1. PICK p : p = Ports[atPort]
    OBVIOUS
  <2>2. p = Ports[1] /\ UNCHANGED otherq
    <3>1. atPort = 1
      BY LenProperties DEF IInv, AdapterOK, OneAsks, MemoryOK, RequestsOK
    <3> QED BY <1>1, <2>1, <3>1 DEF Access
  <2>3. CASE UNCHANGED <<asks, request, failed, readq, writeq, pending>>
    BY <2>2, <2>3 DEF ReadsInv, QueuesOK, RecordInv, ReadsAccounted, Span
  <2>4. CASE \E ask \in IF asks[p] = NoAsk THEN Asks ELSE {asks[p]} :
               IF ask.kind = "read" THEN Read(p, ask) ELSE Write(p, ask)
    BY <2>2, <2>4, ReadAccounts, WriteAccounts
  <2> QED BY <1>1, <2>1, <2>3, <2>4 DEF Access
<1>2. CASE MemTick
  BY <1>2, TickAccounts
<1>3. CASE UNCHANGED vars
  BY <1>3 DEF vars, controllerVars, adapterVars, ReadsInv, QueuesOK, RecordInv,
              ReadsAccounted, Span
<1> QED BY <1>1, <1>2, <1>3 DEF Next

\* Served to one port that asks for no burst 0: the reads in the controller are the bursts
\* enqueued and not done, and none of the assertions of read, write and done_callback
\* fails (memory.cc).
THEOREM ReadsAreAccounted ==
  ASSUME MemoryOK, OneAsks
  PROVE  Spec => []ReadsAccounted
<1>1. Init => IInv /\ ReadsInv
  BY InitHolds, ReadsInit
<1>2. (IInv /\ ReadsInv) /\ [Next]_vars => (IInv /\ ReadsInv)'
  BY StepHolds, ReadsStep
<1>3. ReadsInv => ReadsAccounted
  BY DEF ReadsInv
<1> QED BY <1>1, <1>2, <1>3, PTL DEF Spec
-----------------------------------------------------------------------------
(***************************************************************************)
(* The row table has the open rows.                                        *)
(***************************************************************************)
RowsInv == open \in [Banks -> Int] /\ RowsTabled

\* A full address is its bank and its row.
LEMMA AddressOfRow ==
  ASSUME ChannelOK, NEW a \in Addresses
  PROVE  /\ Bank(a) \in Banks /\ Row(a) \in Nat /\ a = Append(Bank(a), Row(a))
<1>1. Depth \in Nat \ {0}
  BY ChannelFacts
<1>2. /\ a \in Seq(Int) /\ Len(a) = Depth + 1 /\ Row(a) \in Nat
      /\ SubSeq(a, 1, Depth) \in Nodes
  BY <1>1 DEF Addresses
<1>3. PICK b : b = SubSeq(a, 1, Depth)
  OBVIOUS
<1>4. b \in Seq(Int) /\ Len(b) = Depth /\ \A i \in 1 .. Depth : b[i] = a[i]
  BY <1>1, <1>2, <1>3
<1>5. b \in Banks
  BY <1>2, <1>3, <1>4 DEF Banks
<1>6. PICK c : c = Append(b, a[Depth + 1])
  OBVIOUS
<1>7. c \in Seq(Int) /\ Len(c) = Depth + 1 /\ \A i \in 1 .. Depth + 1 : c[i] = a[i]
  BY <1>1, <1>2, <1>4, <1>6 DEF Row
<1>8. c = a
  BY <1>2, <1>7, SeqEqual
<1> QED BY <1>2, <1>3, <1>5, <1>6, <1>8 DEF Bank, Row

\* What is in the table for a bank or a rank.
LEMMA BankOfRow ==
  ASSUME ChannelOK, NEW b \in Banks, NEW row \in Int
  PROVE  /\ SubSeq(Append(b, row), 1, Depth) = b
         /\ SubSeq(Append(b, row), 1, Rank) = SubSeq(b, 1, Rank)
<1>1. Depth \in Nat \ {0} /\ b \in Seq(Int) /\ Len(b) = Depth
  BY NodeEntries, ChannelFacts DEF Banks
<1>2. PICK c : c = Append(b, row)
  OBVIOUS
<1>3. c \in Seq(Int) /\ Len(c) = Depth + 1 /\ \A i \in 1 .. Depth : c[i] = b[i]
  BY <1>1, <1>2
<1>4. PICK s : s = SubSeq(c, 1, Depth)
  OBVIOUS
<1>5. s \in Seq(Int) /\ Len(s) = Depth /\ \A i \in 1 .. Depth : s[i] = b[i]
  BY <1>1, <1>3, <1>4
<1>6. s = b
  BY <1>1, <1>5, SeqEqual
<1>7. PICK u, v : u = SubSeq(c, 1, Rank) /\ v = SubSeq(b, 1, Rank)
  OBVIOUS
<1>8. u \in Seq(Int) /\ v \in Seq(Int) /\ Len(u) = 1 /\ Len(v) = 1 /\ u[1] = v[1]
  BY <1>1, <1>3, <1>7 DEF Rank
<1>9. u = v
  BY <1>8, SeqEqual
<1> QED BY <1>2, <1>4, <1>6, <1>7, <1>9

LEMMA OpenRow ==
  ASSUME ChannelOK, RowsInv, NEW a \in Addresses, open[Bank(a)] = Closed
  PROVE  /\ [open EXCEPT ![Bank(a)] = Row(a)] \in [Banks -> Int]
         /\ Beneath(a, Depth) = {}
         /\ LET now == [open EXCEPT ![Bank(a)] = Row(a)]
            IN table \cup {a} = {Append(b, now[b]) : b \in {x \in DOMAIN now : now[x] # Closed}}
<1>1. PICK b, r : b = Bank(a) /\ r = Row(a)
  OBVIOUS
<1>2. b \in Banks /\ r \in Nat /\ a = Append(b, r)
  BY <1>1, AddressOfRow
<1>3. PICK now : now = [open EXCEPT ![b] = r]
  OBVIOUS
<1>4. now \in [Banks -> Int] /\ now[b] = r /\ \A x \in Banks : x # b => now[x] = open[x]
  BY <1>2, <1>3 DEF RowsInv
<1>5. open[b] = Closed /\ r # Closed
  BY <1>1, <1>2 DEF Closed
<1>6. ASSUME NEW t \in Beneath(a, Depth)
      PROVE  FALSE
  <2>1. t \in table /\ SubSeq(t, 1, Depth) = b
    BY <1>1 DEF Beneath, Bank
  <2>2. PICK x \in Banks : open[x] # Closed /\ t = Append(x, open[x])
    BY <2>1 DEF RowsInv, RowsTabled
  <2>3. x = b
    BY <2>1, <2>2, BankOfRow DEF RowsInv
  <2> QED BY <1>5, <2>2, <2>3
<1>7. table \cup {a} = {Append(x, now[x]) : x \in {y \in DOMAIN now : now[y] # Closed}}
  <2>1. table = {Append(x, open[x]) : x \in {y \in Banks : open[y] # Closed}}
    BY DEF RowsInv, RowsTabled
  <2>2. {y \in Banks : now[y] # Closed} = {y \in Banks : open[y] # Closed} \cup {b}
    BY <1>2, <1>4, <1>5
  <2>3. \A x \in {y \in Banks : open[y] # Closed} : now[x] = open[x]
    BY <1>4, <1>5
  <2>4. DOMAIN now = Banks
    BY <1>4
  <2> QED BY <1>2, <1>4, <2>1, <2>2, <2>3, <2>4
<1> QED BY <1>1, <1>3, <1>4, <1>6, <1>7

\* Rows are closed where the table drops them.
LEMMA CloseRows ==
  ASSUME ChannelOK, RowsInv, NEW now \in [Banks -> Int], NEW dropped,
         \A b \in Banks : now[b] = IF open[b] # Closed /\ Append(b, open[b]) \in dropped
                                   THEN Closed ELSE open[b]
  PROVE  table \ dropped = {Append(b, now[b]) : b \in {x \in DOMAIN now : now[x] # Closed}}
<1>1. table = {Append(x, open[x]) : x \in {y \in Banks : open[y] # Closed}}
  BY DEF RowsInv, RowsTabled
<1>2. DOMAIN now = Banks
  OBVIOUS
<1>3. \A b \in Banks : now[b] # Closed <=> open[b] # Closed /\ Append(b, open[b]) \notin dropped
  OBVIOUS
<1>4. \A b \in Banks : now[b] # Closed => now[b] = open[b]
  OBVIOUS
<1> QED BY Zenon, <1>1, <1>2, <1>3, <1>4

LEMMA ChosenRows ==
  ASSUME MemoryOK, RowsInv, NEW cmd, NEW addr, Chosen(cmd, addr),
         open' = Effect(open, cmd, addr), table' = Tabled(cmd, addr)
  PROVE  RowsInv'
<1>1. ChannelOK
  BY DEF MemoryOK
<1>2. /\ Standard.effects[Standard.needs.closed] = "open"
      /\ Standard.effects[Standard.needs.otherRow] = "close"
      /\ Standard.effects[Standard.needs.anyOpen] = "closeAll"
      /\ \A c \in {"RD", "WR", "REF"} : Standard.effects[c] = "none"
      /\ Standard.scope[Standard.needs.otherRow] = Depth
      /\ Standard.scope[Standard.needs.anyOpen] = Rank
  BY <1>1, ChannelFacts DEF ChannelOK, StandardOK
<1>3. CASE Standard.effects[cmd] = "none"
  <2>1. open' = open /\ table' = table
    BY <1>3 DEF Effect, Tabled, Opens, Closes
  <2> QED BY <2>1 DEF RowsInv, RowsTabled
<1>4. CASE addr \in Addresses /\ cmd = Standard.needs.closed /\ open[Bank(addr)] = Closed
  <2>1. open' = [open EXCEPT ![Bank(addr)] = Row(addr)]
    BY <1>2, <1>4 DEF Effect
  <2>2. Beneath(addr, Depth) = {} => table' = table \cup {addr}
    BY <1>2, <1>4 DEF Tabled, Opens
  <2>3. PICK now : now = [open EXCEPT ![Bank(addr)] = Row(addr)]
    OBVIOUS
  <2>4. /\ now \in [Banks -> Int] /\ Beneath(addr, Depth) = {}
        /\ table \cup {addr} = {Append(x, now[x]) : x \in {y \in DOMAIN now : now[y] # Closed}}
    BY <1>1, <1>4, <2>3, OpenRow
  <2>5. open' = now /\ table' = table \cup {addr}
    BY <2>1, <2>2, <2>3, <2>4
  <2> QED BY <2>4, <2>5 DEF RowsInv, RowsTabled
<1>5. CASE addr \in Addresses /\ cmd = Standard.needs.otherRow
  <2>1. PICK b : b = Bank(addr)
    OBVIOUS
  <2>2. b \in Banks
    BY <1>1, <1>5, <2>1, AddressOfRow
  <2>3. PICK now : now = open'
    OBVIOUS
  <2>4. now = [open EXCEPT ![b] = Closed]
    BY <1>2, <1>5, <2>1, <2>3 DEF Effect
  <2>5. now \in [Banks -> Int] /\ now[b] = Closed /\ \A x \in Banks : x # b => now[x] = open[x]
    BY <2>2, <2>4 DEF RowsInv, Closed
  <2>6. PICK dropped : dropped = Beneath(addr, Depth)
    OBVIOUS
  <2>7. table' = table \ dropped
    BY <1>2, <1>5, <2>6 DEF Tabled, Opens, Closes
  <2>8. \A x \in Banks : open[x] # Closed =>
           (Append(x, open[x]) \in dropped <=> x = b)
    <3> SUFFICES ASSUME NEW x \in Banks, open[x] # Closed
                 PROVE  Append(x, open[x]) \in dropped <=> x = b
      OBVIOUS
    <3>1. open[x] \in Int /\ Append(x, open[x]) \in table
      BY DEF RowsInv, RowsTabled
    <3>2. SubSeq(Append(x, open[x]), 1, Depth) = x
      BY <1>1, <3>1, BankOfRow
    <3> QED BY <2>1, <2>6, <3>1, <3>2 DEF Beneath, Bank
  <2>9. \A x \in Banks : now[x] = IF open[x] # Closed /\ Append(x, open[x]) \in dropped
                                  THEN Closed ELSE open[x]
    BY <2>5, <2>8
  <2>10. table \ dropped = {Append(x, now[x]) : x \in {y \in DOMAIN now : now[y] # Closed}}
    BY <1>1, <2>5, <2>9, CloseRows
  <2> QED BY <2>3, <2>5, <2>7, <2>10 DEF RowsInv, RowsTabled
<1>6. CASE addr \in Ranks /\ cmd = Standard.needs.anyOpen
  <2>1. addr \in Seq(Int) /\ Len(addr) = 1
    BY <1>1, <1>6, NodeEntries DEF Ranks
  <2>2. PICK r : r = SubSeq(addr, 1, 1)
    OBVIOUS
  <2>3. r \in Seq(Int) /\ Len(r) = 1
    BY <2>1, <2>2
  <2>4. PICK now : now = open'
    OBVIOUS
  <2>5. now = [b \in DOMAIN open |-> IF b \in OpenBelow(open, r) THEN Closed ELSE open[b]]
    BY <1>2, <1>6, <2>2, <2>4 DEF Effect
  <2>6. now \in [Banks -> Int]
    BY <2>5 DEF RowsInv, Closed
  <2>7. PICK dropped : dropped = Beneath(addr, Rank)
    OBVIOUS
  <2>8. table' = table \ dropped
    BY <1>2, <1>6, <2>7 DEF Tabled, Opens, Closes
  <2>9. ASSUME NEW b \in Banks, open[b] # Closed
        PROVE  b \in OpenBelow(open, r) <=> Append(b, open[b]) \in dropped
    <3>1. open[b] \in Int /\ Append(b, open[b]) \in table /\ b \in DOMAIN open
      BY <2>9 DEF RowsInv, RowsTabled
    <3>2. SubSeq(Append(b, open[b]), 1, Rank) = SubSeq(b, 1, Rank)
      BY <1>1, <3>1, BankOfRow
    <3>3. b \in Seq(Int) /\ Len(b) = Depth /\ Depth \in Nat \ {0}
      BY <1>1, NodeEntries, ChannelFacts DEF Banks
    <3>4. IsPrefix(r, b) <=> SubSeq(b, 1, 1) = r
      BY <2>3, <3>3 DEF IsPrefix
    <3> QED BY <2>2, <2>7, <2>9, <3>1, <3>2, <3>4 DEF Beneath, OpenBelow, Rank
  <2>10. \A b \in Banks : now[b] = IF open[b] # Closed /\ Append(b, open[b]) \in dropped
                                   THEN Closed ELSE open[b]
    BY <2>5, <2>9 DEF RowsInv, OpenBelow
  <2>11. table \ dropped = {Append(x, now[x]) : x \in {y \in DOMAIN now : now[y] # Closed}}
    BY <1>1, <2>6, <2>10, CloseRows
  <2> QED BY <2>4, <2>6, <2>8, <2>11 DEF RowsInv, RowsTabled
<1>7. CASE addr \in Addresses /\ \E c \in {"RD", "WR"} : cmd = Decode(open, c, addr)
  BY <1>2, <1>3, <1>4, <1>5, <1>7 DEF Decode
<1>8. CASE addr \in Ranks /\ cmd = Decode(open, "REF", addr)
  BY <1>2, <1>3, <1>6, <1>8 DEF Decode
<1> QED BY <1>7, <1>8 DEF Chosen

\* The table the scheduler looks rows up in has the open rows of the banks, and no others,
\* whichever of an access, another row's access or a refresh a command is for: the
\* assertions on it in Scheduler.h hold.
THEOREM RowsAreTabled ==
  ASSUME MemoryOK
  PROVE  Spec => []RowsTabled
<1>1. Init => IInv /\ RowsInv
  <2>1. ASSUME Init
        PROVE  RowsInv
    <3>1. open = AllClosed /\ table = {}
      BY <2>1 DEF Init, ControllerInit
    <3>2. open \in [Banks -> Int] /\ \A b \in Banks : open[b] = Closed
      BY <3>1 DEF AllClosed, Closed
    <3> QED BY <3>1, <3>2 DEF RowsInv, RowsTabled
  <2> QED BY <2>1, InitHolds
<1>2. (IInv /\ RowsInv) /\ [Next]_vars => (IInv /\ RowsInv)'
  <2> SUFFICES ASSUME IInv, RowsInv, [Next]_vars
               PROVE  RowsInv'
    BY StepHolds
  <2>1. CASE UNCHANGED <<open, table>>
    BY <2>1 DEF RowsInv, RowsTabled
  <2>2. CASE MemTick
    <3>1. \/ UNCHANGED <<open, table>>
          \/ \E cmd \in Commands, addr \in Targets : Sends(cmd, addr)
      BY <2>2, TickIssues DEF MemTick, IInv
    <3>2. CASE \E cmd \in Commands, addr \in Targets : Sends(cmd, addr)
      BY <3>2, ChosenRows DEF Sends
    <3> QED BY <2>1, <3>1, <3>2
  <2>3. Access \/ UNCHANGED vars => UNCHANGED <<open, table>>
    BY DEF Access, vars, controllerVars
  <2> QED BY <2>1, <2>2, <2>3 DEF Next
<1>3. RowsInv => RowsTabled
  BY DEF RowsInv
<1> QED BY <1>1, <1>2, <1>3, PTL DEF Spec
-----------------------------------------------------------------------------
(***************************************************************************)
(* The requests being served are counted.                                  *)
(***************************************************************************)
One(b) == IF b THEN 1 ELSE 0

\* When a place is taken out of a sequence, the places counted among the others remain.
LEMMA PlaceDropped ==
  ASSUME NEW n \in Nat, NEW h \in 1 .. n, NEW S \in SUBSET (1 .. n), NEW T,
         T = {i \in 1 .. n - 1 : IF i < h THEN i \in S ELSE i + 1 \in S}
  PROVE  Cardinality(S) \in Nat /\ Cardinality(T) = Cardinality(S) - One(h \in S)
<1>1. IsFiniteSet(S) /\ IsFiniteSet(S \ {h})
  <2>1. IsFiniteSet(1 .. n)
    BY FS_Interval
  <2>2. IsFiniteSet(S)
    BY <2>1, FS_Subset
  <2> QED BY <2>2, FS_RemoveElement
<1>2. PICK f : f = [k \in S \ {h} |-> IF k < h THEN k ELSE k - 1]
  OBVIOUS
<1>3. \A k \in S \ {h} : k \in 1 .. n /\ k # h /\ f[k] = IF k < h THEN k ELSE k - 1
  BY <1>2
<1>4. f \in [S \ {h} -> T]
  <2>1. \A k \in S \ {h} : f[k] \in T
    BY <1>3
  <2> QED BY <1>2, <2>1
<1>5. \A k, l \in S \ {h} : f[k] = f[l] => k = l
  BY <1>3
<1>6. \A i \in T : \E k \in S \ {h} : f[k] = i
  <2> TAKE i \in T
  <2>1. PICK k : k = IF i < h THEN i ELSE i + 1
    OBVIOUS
  <2>2. k \in S \ {h}
    BY <2>1
  <2>3. f[k] = i
    BY <1>3, <2>1, <2>2
  <2> QED BY <2>2, <2>3
<1>7. ExistsBijection(S \ {h}, T)
  BY <1>4, <1>5, <1>6 DEF ExistsBijection, Bijection, Injection, Surjection, IsInjective
<1>8. Cardinality(T) = Cardinality(S \ {h})
  BY <1>1, <1>7, FS_Bijection
<1>9. Cardinality(S) \in Nat
  BY <1>1, FS_CardinalityType
<1>10. Cardinality(S \ {h}) = IF h \in S THEN Cardinality(S) - 1 ELSE Cardinality(S)
  BY <1>1, FS_RemoveElement
<1> QED BY <1>8, <1>9, <1>10 DEF One

\* When one more place is counted, it is one more.
LEMMA PlaceCounted ==
  ASSUME NEW n \in Nat, NEW S \in SUBSET (1 .. n), NEW h
  PROVE  Cardinality(S) \in Nat /\ Cardinality(S \cup {h}) = Cardinality(S) + One(h \notin S)
<1>1. IsFiniteSet(S)
  <2>1. IsFiniteSet(1 .. n)
    BY FS_Interval
  <2> QED BY <2>1, FS_Subset
<1> QED BY <1>1, FS_CardinalityType, FS_AddElement DEF One

\* A request that is done leaves the queue.
LEMMA BegunWithout ==
  ASSUME NEW S, NEW q \in Seq(S), NEW h \in DOMAIN q
  PROVE  /\ Cardinality(Begun(q)) \in Nat
         /\ Cardinality(Begun(Without(q, h))) = Cardinality(Begun(q)) - One(~ q[h].first)
<1>1. PICK n, g : n = Len(q) /\ g = Without(q, h)
  OBVIOUS
<1>2. n \in Nat /\ DOMAIN q = 1 .. n /\ h \in 1 .. n
  BY <1>1, LenProperties
<1>3. DOMAIN g = 1 .. n - 1 /\ \A i \in 1 .. n - 1 : g[i] = IF i < h THEN q[i] ELSE q[i + 1]
  <2>1. g \in Seq(S) /\ Len(g) = n - 1
    BY <1>1, WithoutType
  <2>2. DOMAIN g = 1 .. n - 1
    BY <2>1, LenProperties
  <2>3. PICK a, b : a = SubSeq(q, 1, h - 1) /\ b = SubSeq(q, h + 1, n)
    OBVIOUS
  <2>4. a \in Seq(S) /\ b \in Seq(S) /\ g = a \o b
    BY <1>1, <1>2, <2>3 DEF Without
  <2>5. /\ Len(a) = h - 1 /\ \A i \in 1 .. h - 1 : a[i] = q[i]
        /\ Len(b) = n - h /\ \A i \in 1 .. n - h : b[i] = q[h + i]
    <3>1. Len(a) = h - 1 /\ \A i \in 1 .. h - 1 : a[i] = q[i]
      BY <1>1, <1>2, <2>3
    <3>2. Len(b) = n - h
      BY <1>1, <1>2, <2>3
    <3>3. \A i \in 1 .. n - h : b[i] = q[h + i]
      <4> TAKE i \in 1 .. n - h
      <4>1. b[i] = q[(h + 1) + i - 1]
        BY <1>1, <1>2, <2>3
      <4>2. (h + 1) + i - 1 = h + i
        BY <1>2
      <4> QED BY <4>1, <4>2
    <3> QED BY <3>1, <3>2, <3>3
  <2>6. \A i \in 1 .. n - 1 : g[i] = IF i <= h - 1 THEN a[i] ELSE b[i - (h - 1)]
    BY <1>2, <2>4, <2>5
  <2>7. ASSUME NEW i \in 1 .. n - 1
        PROVE  g[i] = IF i < h THEN q[i] ELSE q[i + 1]
    <3>1. CASE i < h
      BY <1>2, <2>5, <2>6, <3>1
    <3>2. CASE ~ (i < h)
      <4>1. PICK k : k = i - (h - 1)
        OBVIOUS
      <4>2. k \in 1 .. n - h /\ h + k = i + 1 /\ ~ (i <= h - 1)
        BY <1>2, <3>2, <4>1
      <4> QED BY <2>5, <2>6, <3>2, <4>1, <4>2
    <3> QED BY <3>1, <3>2
  <2> QED BY <2>2, <2>7
<1>4. PICK C, T : C = Begun(q) /\ T = Begun(g)
  OBVIOUS
<1>5. C \in SUBSET (1 .. n) /\ \A i \in 1 .. n : i \in C <=> ~ q[i].first
  BY <1>2, <1>4 DEF Begun
<1>6. T = {i \in 1 .. n - 1 : IF i < h THEN i \in C ELSE i + 1 \in C}
  <2>1. \A i : i \in T <=> i \in 1 .. n - 1 /\ ~ g[i].first
    BY <1>3, <1>4 DEF Begun
  <2>2. \A i \in 1 .. n - 1 : ~ g[i].first <=> IF i < h THEN i \in C ELSE i + 1 \in C
    <3> TAKE i \in 1 .. n - 1
    <3>1. i \in 1 .. n /\ i + 1 \in 1 .. n
      BY <1>2
    <3>2. CASE i < h
      BY <1>3, <1>5, <3>1, <3>2
    <3>3. CASE ~ (i < h)
      BY <1>3, <1>5, <3>1, <3>3
    <3> QED BY <3>2, <3>3
  <2> QED BY <2>1, <2>2
<1>7. Cardinality(C) \in Nat /\ Cardinality(T) = Cardinality(C) - One(h \in C)
  <2>1. n \in Nat /\ h \in 1 .. n /\ C \in SUBSET (1 .. n)
    BY <1>2, <1>5
  <2> QED BY <2>1, <1>6, PlaceDropped, ZenonT(60)
<1>8. h \in C <=> ~ q[h].first
  BY <1>2, <1>5
<1>9. One(h \in C) = One(~ q[h].first)
  BY <1>8 DEF One
<1> QED BY <1>1, <1>4, <1>7, <1>9

\* The first command for a request begins it.
LEMMA BegunStarted ==
  ASSUME NEW B, NEW q \in Seq(Requests(B)), NEW h \in DOMAIN q
  PROVE  /\ Cardinality(Begun(q)) \in Nat
         /\ Cardinality(Begun([q EXCEPT ![h].first = FALSE]))
              = Cardinality(Begun(q)) + One(q[h].first)
<1>1. PICK n, g : n = Len(q) /\ g = [q EXCEPT ![h].first = FALSE]
  OBVIOUS
<1>2. n \in Nat /\ DOMAIN q = 1 .. n /\ h \in 1 .. n /\ \A i \in 1 .. n : q[i] \in Requests(B)
  BY <1>1, LenProperties, ElementOfSeq
<1>3. /\ DOMAIN g = 1 .. n
      /\ \A i \in 1 .. n : g[i] = IF i = h THEN [q[i] EXCEPT !.first = FALSE] ELSE q[i]
  BY <1>1, <1>2
<1>4. \A i \in 1 .. n : g[i].first <=> q[i].first /\ i # h
  BY <1>2, <1>3 DEF Requests
<1>5. PICK C, T : C = Begun(q) /\ T = Begun(g)
  OBVIOUS
<1>6. C \in SUBSET (1 .. n) /\ T = C \cup {h} /\ (h \notin C <=> q[h].first)
  BY <1>2, <1>3, <1>4, <1>5 DEF Begun
<1>7. Cardinality(C) \in Nat /\ Cardinality(T) = Cardinality(C) + One(h \notin C)
  BY <1>2, <1>6, PlaceCounted
<1>8. One(h \notin C) = One(q[h].first)
  BY <1>6 DEF One
<1> QED BY <1>1, <1>5, <1>7, <1>8

\* A read that was served leaves the reads whose data comes.
LEMMA AccessingServed ==
  ASSUME NEW B, pending \in Seq(Coming(B)),
         NEW soon, soon = [i \in DOMAIN pending |->
                             [pending[i] EXCEPT !.left = IF @ > 0 THEN @ - 1 ELSE 0]],
         NEW served \in BOOLEAN, served => pending # <<>>,
         NEW comes, comes = IF served THEN Tail(soon) ELSE soon
  PROVE  /\ Cardinality(Accessing(pending)) \in Nat
         /\ Cardinality(Accessing(comes))
              = Cardinality(Accessing(pending)) - One(served /\ AccessedRow(pending[1]))
<1>1. PICK n : n = Len(pending)
  OBVIOUS
<1>2. n \in Nat /\ DOMAIN pending = 1 .. n /\ \A i \in 1 .. n : pending[i] \in Coming(B)
  BY <1>1, LenProperties, ElementOfSeq
<1>3. DOMAIN soon = 1 .. n /\ \A i \in 1 .. n : soon[i].forwarded = pending[i].forwarded
  <2> SUFFICES ASSUME NEW i \in 1 .. n PROVE soon[i].forwarded = pending[i].forwarded
    BY <1>2
  <2>1. PICK c : c = pending[i] /\ c \in Coming(B)
    BY <1>2
  <2>2. soon[i] = [c EXCEPT !.left = IF c.left > 0 THEN c.left - 1 ELSE 0]
    BY <1>2, <2>1
  <2> QED BY <2>1, <2>2 DEF Coming
<1>4. PICK C, T : C = Accessing(pending) /\ T = Accessing(comes)
  OBVIOUS
<1>5. C \in SUBSET (1 .. n) /\ C = Accessing(soon)
      /\ \A i \in 1 .. n : i \in C <=> AccessedRow(soon[i])
  BY <1>2, <1>3, <1>4 DEF Accessing, AccessedRow
<1>6. Cardinality(C) \in Nat
  BY <1>2, <1>5, PlaceCounted
<1>7. CASE ~ served
  BY <1>4, <1>5, <1>6, <1>7 DEF One
<1>8. CASE served
  <2>1. 1 \in 1 .. n
    BY <1>1, <1>2, <1>8, EmptySeq
  <2>2. DOMAIN comes = 1 .. n - 1 /\ \A i \in 1 .. n - 1 : comes[i] = soon[i + 1]
    <3>1. PICK E : soon \in Seq(E) /\ Len(soon) = n
      <4>1. PICK E : soon \in [1 .. n -> E]
        <5>1. soon \in [1 .. n -> {soon[i] : i \in 1 .. n}]
          BY <1>2, <1>3
        <5> QED BY <5>1
      <4> QED BY <1>2, <4>1, FunctionIsSeq
    <3> QED BY <1>8, <2>1, <3>1
  <2>3. T = {i \in 1 .. n - 1 : IF i < 1 THEN i \in C ELSE i + 1 \in C}
    <3>1. \A i \in 1 .. n - 1 : i + 1 \in 1 .. n /\ ~ (i < 1)
      BY <1>2
    <3>2. T = {i \in 1 .. n - 1 : AccessedRow(comes[i])}
      BY <1>4, <2>2 DEF Accessing
    <3> QED BY <1>5, <2>2, <3>1, <3>2
  <2>4. Cardinality(T) = Cardinality(C) - One(1 \in C)
    BY <1>2, <1>5, <2>1, <2>3, PlaceDropped
  <2>5. 1 \in C <=> AccessedRow(pending[1])
    BY <1>2, <1>4, <2>1 DEF Accessing
  <2>6. One(1 \in C) = One(served /\ AccessedRow(pending[1]))
    BY <1>8, <2>5 DEF One
  <2> QED BY <1>4, <1>6, <2>4, <2>6
<1> QED BY <1>7, <1>8

\* A read whose row is accessed joins them.
LEMMA AccessingMore ==
  ASSUME NEW S, NEW q \in Seq(S), NEW x, x.forwarded = FALSE
  PROVE  /\ Cardinality(Accessing(q)) \in Nat
         /\ Cardinality(Accessing(Append(q, x))) = Cardinality(Accessing(q)) + 1
<1>1. PICK n, g : n = Len(q) /\ g = Append(q, x)
  OBVIOUS
<1>2. n \in Nat /\ DOMAIN q = 1 .. n /\ DOMAIN g = 1 .. n + 1
  BY <1>1, LenProperties
<1>3. g[n + 1] = x /\ \A i \in 1 .. n : g[i] = q[i]
  BY <1>1, <1>2
<1>4. PICK C, T : C = Accessing(q) /\ T = Accessing(g)
  OBVIOUS
<1>5. C \in SUBSET (1 .. n) /\ T = C \cup {n + 1} /\ n + 1 \notin C
  BY <1>2, <1>3, <1>4 DEF Accessing, AccessedRow
<1>6. Cardinality(C) \in Nat /\ Cardinality(T) = Cardinality(C) + One(n + 1 \notin C)
  BY <1>2, <1>5, PlaceCounted
<1> QED BY <1>1, <1>4, <1>5, <1>6 DEF One

LEMMA BegunCounts ==
  ASSUME NEW S, NEW q \in Seq(S)
  PROVE  Cardinality(Begun(q)) \in Nat
<1>1. Len(q) \in Nat /\ Begun(q) \in SUBSET (1 .. Len(q))
  BY LenProperties DEF Begun
<1> QED BY <1>1, PlaceCounted

LEMMA WritesNotBegun ==
  ASSUME NEW B, writeq \in Seq(Requests(B)), NEW bursts \in Seq(Int), EnqueueWrites(bursts)
  PROVE  /\ Begun(writeq)' = Begun(writeq) /\ Begun(readq)' = Begun(readq)
         /\ Accessing(pending)' = Accessing(pending)
<1>1. PICK n, m, new : /\ n = Len(writeq) /\ m = Len(bursts)
                       /\ new = [i \in DOMAIN bursts |-> Request(bursts[i])]
  OBVIOUS
<1>2. n \in Nat /\ DOMAIN writeq = 1 .. n /\ m \in Nat /\ DOMAIN bursts = 1 .. m
  BY <1>1, LenProperties
<1>3. \A i \in 1 .. m : new[i].first = TRUE
  BY <1>1, <1>2 DEF Request
<1>4. PICK E : new \in Seq(E) /\ Len(new) = m
  <2>1. new \in [1 .. m -> {new[i] : i \in 1 .. m}]
    BY <1>1, <1>2
  <2> QED BY <1>2, <2>1, FunctionIsSeq
<1>5. PICK g : g = writeq \o new /\ g = writeq'
  BY <1>1 DEF EnqueueWrites
<1>6. /\ DOMAIN g = 1 .. n + m
      /\ \A i \in 1 .. n + m : g[i] = IF i <= n THEN writeq[i] ELSE new[i - n]
  <2>1. PICK F : F = {writeq[i] : i \in 1 .. n} \cup {new[i] : i \in 1 .. m}
    OBVIOUS
  <2>2. writeq \in [1 .. n -> F] /\ new \in [1 .. m -> F]
    <3>1. (\A i \in 1 .. n : writeq[i] \in F) /\ \A i \in 1 .. m : new[i] \in F
      BY <2>1
    <3>2. writeq = [i \in 1 .. n |-> writeq[i]] /\ new = [i \in 1 .. m |-> new[i]]
      BY <1>1, <1>2
    <3> QED BY <3>1, <3>2
  <2>3. writeq \in Seq(F) /\ new \in Seq(F) /\ Len(writeq) = n /\ Len(new) = m
    BY <1>2, <2>2, FunctionIsSeq
  <2>4. g \in Seq(F) /\ Len(g) = n + m
        /\ \A i \in 1 .. n + m : g[i] = IF i <= n THEN writeq[i] ELSE new[i - n]
    <3>1. PICK u : u = writeq /\ u \in Seq(F) /\ Len(u) = n /\ g = u \o new
      BY <1>5, <2>3
    <3>2. \A S : \A u1, v1 \in Seq(S) :
            /\ u1 \o v1 \in Seq(S) /\ Len(u1 \o v1) = Len(u1) + Len(v1)
            /\ \A i \in 1 .. Len(u1) + Len(v1) :
                 (u1 \o v1)[i] = IF i <= Len(u1) THEN u1[i] ELSE v1[i - Len(u1)]
      BY ConcatProperties, Zenon
    <3>3. /\ g \in Seq(F) /\ Len(g) = Len(u) + Len(new)
          /\ \A i \in 1 .. Len(u) + Len(new) :
               g[i] = IF i <= Len(u) THEN u[i] ELSE new[i - Len(u)]
      BY <2>3, <3>1, <3>2, Zenon
    <3> QED BY <2>3, <3>1, <3>3
  <2> QED BY <2>4, LenProperties
<1>7. \A i \in 1 .. n + m : i > n => g[i].first = TRUE
  <2> TAKE i \in 1 .. n + m
  <2> HAVE i > n
  <2>1. i - n \in 1 .. m /\ ~ (i <= n)
    BY <1>2
  <2> QED BY <1>3, <1>6, <2>1
<1>8. Begun(g) = Begun(writeq)
  BY <1>2, <1>6, <1>7 DEF Begun
<1> QED BY <1>5, <1>8 DEF EnqueueWrites, Begun, Accessing, AccessedRow

LEMMA AskDemanded ==
  ASSUME MemoryOK, AdapterOK, NEW p, p = Ports[atPort],
         NEW ask \in IF asks[p] = NoAsk THEN Asks ELSE {asks[p]}
  PROVE  ask \in Demands
<1>1. p \in {Ports[i] : i \in DOMAIN Ports}
  BY DEF AdapterOK
<1>2. asks[p] \in Demands
  BY <1>1 DEF AdapterOK
<1>3. ask \in Asks \/ ask = asks[p]
  OBVIOUS
<1>4. Asks \subseteq Demands
  BY DEF MemoryOK, RequestsOK, Demands
<1> QED BY <1>2, <1>3, <1>4

\* Whatever the scheduler chooses, the count is of the requests begun before or in this
\* cycle, without the write done and the read served in it.
LEMMA TickServes ==
  ASSUME MemoryOK, QueuesOK(Int), ServingCounted, Tick
  PROVE  ServingCounted'
<1> DEFINE waiting == WaitLess(waits)
           soon == [i \in DOMAIN pending |->
                      [pending[i] EXCEPT !.left = IF @ > 0 THEN @ - 1 ELSE 0]]
           served == pending # <<>> /\ soon[1].left = 0
           comes == IF served THEN Tail(soon) ELSE soon
           others == Refreshes
           kind == CASE others # <<>> -> "other"
                     [] others = <<>> /\ WriteModeNext -> "write"
                     [] OTHER -> "read"
           q == CASE kind = "other" -> others [] kind = "write" -> writeq
                  [] kind = "read" -> readq
           head == GetHead(kind, q, waiting)
           w == Wanted(kind, q[head])
           cmd == Decode(open, w.cmd, w.addr)
           begins == head # 0 /\ kind # "other" /\ q[head].first
           last == head # 0 /\ cmd = w.cmd
           rest == IF head = 0 THEN q
                   ELSE IF last THEN Without(q, head)
                   ELSE IF kind = "other" THEN q ELSE [q EXCEPT ![head].first = FALSE]
           new == [burst |-> q[head].burst, left |-> Standard.readLatency, forwarded |-> FALSE]
<1>1. /\ readq' = IF kind = "read" THEN rest ELSE readq
      /\ writeq' = IF kind = "write" THEN rest ELSE writeq
      /\ pending' = IF last /\ kind = "read" THEN Append(comes, new) ELSE comes
      /\ serving' = serving - One(served /\ AccessedRow(pending[1])) + One(begins)
                      - One(last /\ kind = "write")
  BY DEF Tick, One
<1>2. kind \in {"other", "write", "read"}
  OBVIOUS
<1>3. new.forwarded = FALSE
  OBVIOUS
<1>4. /\ comes \in Seq(Coming(Int)) /\ Cardinality(Accessing(pending)) \in Nat
      /\ Cardinality(Accessing(comes))
           = Cardinality(Accessing(pending)) - One(served /\ AccessedRow(pending[1]))
  <2>1. PICK soon1, served1, comes1 : soon1 = soon /\ served1 = served /\ comes1 = comes
    OBVIOUS
  <2>2. /\ soon1 = [i \in DOMAIN pending |->
                     [pending[i] EXCEPT !.left = IF @ > 0 THEN @ - 1 ELSE 0]]
        /\ served1 \in BOOLEAN /\ (served1 <=> pending # <<>> /\ soon1[1].left = 0)
        /\ comes1 = IF served1 THEN Tail(soon1) ELSE soon1
        /\ comes1 = IF pending # <<>> /\ soon1[1].left = 0 THEN Tail(soon1) ELSE soon1
        /\ pending \in Seq(Coming(Int))
    BY <2>1 DEF QueuesOK
  <2> HIDE DEF soon, served, comes
  <2>3. comes1 \in Seq(Coming(Int))
    BY <2>2, TickComes
  <2>4. /\ Cardinality(Accessing(pending)) \in Nat
        /\ Cardinality(Accessing(comes1))
             = Cardinality(Accessing(pending)) - One(served1 /\ AccessedRow(pending[1]))
    BY <2>2, AccessingServed
  <2> QED BY <2>1, <2>3, <2>4
<1>5. kind # "other" => q \in Seq(Requests(Int))
  BY <1>2 DEF QueuesOK
<1>6. head # 0 => \A S : q \in Seq(S) => head \in DOMAIN q
  BY HeadIsReady
<1>7. (kind = "write" => q = writeq) /\ (kind = "read" => q = readq)
  OBVIOUS
<1> HIDE DEF served, comes, kind, q, head, cmd, w, new
<1>8. PICK k, s, h, done, started, left1, o :
        /\ k = kind /\ s = q /\ h = head /\ done = last /\ started = begins /\ left1 = rest
        /\ o = One(served /\ AccessedRow(pending[1]))
  OBVIOUS
<1>9. /\ k \in {"other", "write", "read"} /\ done \in BOOLEAN /\ started \in BOOLEAN
      /\ o \in {0, 1} /\ (k = "write" => s = writeq) /\ (k = "read" => s = readq)
      /\ (k = "other" => ~ started) /\ (k # "other" => s \in Seq(Requests(Int)))
  BY <1>2, <1>5, <1>7, <1>8 DEF One
<1>10. PICK a, b, c, d, e, f : /\ a = Cardinality(Begun(readq)) /\ b = Cardinality(Begun(writeq))
                               /\ c = Cardinality(Accessing(pending))
                               /\ d = Cardinality(Begun(s)) /\ e = Cardinality(Begun(left1))
                               /\ f = Cardinality(Accessing(comes))
  OBVIOUS
<1>11. a \in Nat /\ b \in Nat /\ c \in Nat /\ f = c - o /\ serving = a + b + c
  <2>1. readq \in Seq(Requests(Int)) /\ writeq \in Seq(Requests(Int))
    BY DEF QueuesOK
  <2>2. Cardinality(Begun(readq)) \in Nat /\ Cardinality(Begun(writeq)) \in Nat
    BY <2>1, BegunCounts
  <2> QED BY <1>4, <1>8, <1>10, <2>2 DEF ServingCounted
<1>12. k # "other" => d \in Nat /\ e = (d + One(started)) - One(done)
  <2> SUFFICES ASSUME k # "other"
               PROVE  d \in Nat /\ e = (d + One(started)) - One(done)
    OBVIOUS
  <2>1. s \in Seq(Requests(Int)) /\ d \in Nat
    BY <1>9, <1>10, BegunCounts
  <2>2. CASE h = 0
    <3>1. left1 = s /\ ~ started /\ ~ done
      BY <1>8, <2>2
    <3> QED BY <1>10, <2>1, <3>1 DEF One
  <2>3. CASE h # 0
    <3>1. h \in DOMAIN s
      BY <1>6, <1>8, <2>1, <2>3
    <3>2. s[h] \in Requests(Int)
      BY <2>1, <3>1, LenProperties, ElementOfSeq
    <3>3. s[h].first \in BOOLEAN
      BY <3>2 DEF Requests
    <3>4. started <=> s[h].first
      BY <1>8, <2>3
    <3>5. h \in DOMAIN s /\ started = s[h].first
      BY <1>9, <3>3, <3>1, <3>4
    <3>6. CASE done
      <4>1. left1 = Without(s, h)
        BY <1>8, <2>3, <3>6
      <4>2. e = d - One(~ s[h].first)
        BY <1>10, <2>1, <3>5, <4>1, BegunWithout
      <4> QED BY <2>1, <3>5, <3>3, <3>6, <4>2 DEF One
    <3>7. CASE ~ done
      <4>1. left1 = [s EXCEPT ![h].first = FALSE]
        BY <1>8, <2>3, <3>7
      <4>2. e = d + One(s[h].first)
        BY <1>10, <2>1, <3>5, <4>1, BegunStarted
      <4> QED BY <2>1, <3>5, <3>3, <3>7, <4>2 DEF One
    <3> QED BY <1>9, <3>6, <3>7
  <2> QED BY <2>2, <2>3
<1>13. serving' = ((serving - o) + One(started)) - One(done /\ k = "write")
  <2>1. serving' = (serving - One(served /\ AccessedRow(pending[1])))
                   + (One(begins) - One(last /\ kind = "write"))
    BY <1>1
  <2> HIDE DEF last, begins, rest
  <2>2. One(begins) = One(started) /\ One(last /\ kind = "write") = One(done /\ k = "write")
    BY <1>8, Zenon
  <2>3. serving' = (serving - o) + (One(started) - One(done /\ k = "write"))
    BY <1>8, <2>1, <2>2
  <2>4. One(started) \in Int /\ One(done /\ k = "write") \in Int /\ serving \in Int
    BY <1>11 DEF One
  <2> QED BY <1>9, <2>3, <2>4
<1>14. /\ readq' = IF k = "read" THEN left1 ELSE readq
       /\ writeq' = IF k = "write" THEN left1 ELSE writeq
       /\ pending' = IF done /\ k = "read" THEN Append(comes, new) ELSE comes
  BY <1>1, <1>8
<1>15. Cardinality(Accessing(Append(comes, new))) = f + 1
  BY <1>3, <1>4, <1>10, AccessingMore
<1> HIDE DEF last, begins, rest
<1>16. CASE k = "other"
  <2>1. readq' = readq /\ writeq' = writeq /\ pending' = comes
    BY <1>14, <1>16
  <2>2. serving' = serving - o
    BY <1>9, <1>11, <1>13, <1>16 DEF One
  <2>3. serving' = a + b + f
    BY <1>9, <1>11, <2>2
  <2> QED BY <1>10, <2>1, <2>3 DEF ServingCounted
<1>17. CASE k = "write"
  <2>1. readq' = readq /\ writeq' = left1 /\ pending' = comes
    BY <1>14, <1>17
  <2>2. d = b
    BY <1>9, <1>10, <1>17
  <2>3. serving' = ((serving - o) + One(started)) - One(done)
    BY <1>9, <1>13, <1>17 DEF One
  <2>4. serving' = a + e + f
    BY <1>9, <1>11, <1>12, <1>17, <2>2, <2>3 DEF One
  <2> QED BY <1>10, <2>1, <2>4 DEF ServingCounted
<1>18. CASE k = "read"
  <2>1. /\ readq' = left1 /\ writeq' = writeq
        /\ pending' = IF done THEN Append(comes, new) ELSE comes
    BY <1>14, <1>18
  <2>2. d = a
    BY <1>9, <1>10, <1>18
  <2>3. serving' = (serving - o) + One(started)
    BY <1>9, <1>11, <1>13, <1>18 DEF One
  <2>4. Cardinality(Accessing(pending)') = f + One(done)
    <3>1. f + 0 = f
      BY <1>9, <1>11
    <3> QED BY <1>9, <1>10, <1>15, <2>1, <3>1 DEF One
  <2>5. serving' = e + b + (f + One(done))
    BY <1>9, <1>11, <1>12, <1>18, <2>2, <2>3 DEF One
  <2> QED BY <1>10, <2>1, <2>4, <2>5 DEF ServingCounted
<1> QED BY <1>9, <1>16, <1>17, <1>18

\* The requests that come were not begun.
LEMMA AccessServes ==
  ASSUME MemoryOK, QueuesOK(Int), AdapterOK, Access
  PROVE  /\ Begun(readq)' = Begun(readq) /\ Begun(writeq)' = Begun(writeq)
         /\ Accessing(pending)' = Accessing(pending) /\ serving' = serving
<1>1. serving' = serving
  BY DEF Access
<1>2. CASE UNCHANGED <<readq, writeq, pending>>
  BY <1>1, <1>2 DEF Begun, Accessing, AccessedRow
<1>3. PICK p : p = Ports[atPort]
  OBVIOUS
<1>4. CASE \E ask \in IF asks[p] = NoAsk THEN Asks ELSE {asks[p]} :
             IF ask.kind = "read" THEN Read(p, ask) ELSE Write(p, ask)
  <2>1. PICK ask \in IF asks[p] = NoAsk THEN Asks ELSE {asks[p]} :
               IF ask.kind = "read" THEN Read(p, ask) ELSE Write(p, ask)
    BY <1>4
  <2>2. ask \in Demands
    BY <1>3, <2>1, AskDemanded
  <2>3. PICK r : r = Served(ask)
    OBVIOUS
  <2>4. r \in Serving
    BY <2>2, <2>3, ServedType DEF AdapterOK
  <2>5. CASE UNCHANGED <<readq, writeq, pending>>
    BY <1>2, <2>5
  <2>6. CASE \E n \in 0 .. r.bursts - r.enqueued : EnqueueReads(NewBursts(r, n))
    <3>1. PICK n \in 0 .. r.bursts - r.enqueued : EnqueueReads(NewBursts(r, n))
      BY <2>6
    <3>2. PICK bursts : bursts = NewBursts(r, n) /\ bursts \in Seq(Int)
      BY <2>4, NewBurstsType
    <3>3. /\ Begun(Enqueued(bursts).reads) = Begun(readq)
          /\ Accessing(Enqueued(bursts).comes) = Accessing(pending)
      BY <3>2, EnqueuedType DEF QueuesOK, MemoryOK, RequestsOK
    <3> QED BY <1>1, <3>1, <3>2, <3>3 DEF EnqueueReads
  <2>7. CASE \E n \in 0 .. r.bursts - r.enqueued : EnqueueWrites(NewBursts(r, n))
    <3>1. PICK n \in 0 .. r.bursts - r.enqueued : EnqueueWrites(NewBursts(r, n))
      BY <2>7
    <3>2. PICK bursts : bursts = NewBursts(r, n) /\ bursts \in Seq(Int)
      BY <2>4, NewBurstsType
    <3> QED BY <1>1, <3>1, <3>2, WritesNotBegun DEF QueuesOK
  <2>8. Sent("read", r) \in 0 .. r.bursts - r.enqueued
        /\ Sent("write", r) \in 0 .. r.bursts - r.enqueued
    BY <2>4, SentFits
  <2>9. CASE Read(p, ask)
    <3>1. UNCHANGED <<readq, writeq, pending>> \/ EnqueueReads(NewBursts(r, Sent("read", r)))
      BY <2>3, <2>9 DEF Read
    <3> QED BY <2>5, <2>6, <2>8, <3>1
  <2>10. CASE Write(p, ask)
    <3>1. EnqueueWrites(NewBursts(r, Sent("write", r)))
      BY <2>3, <2>10 DEF Write
    <3> QED BY <2>7, <2>8, <3>1
  <2> QED BY <2>1, <2>9, <2>10
<1> QED BY <1>2, <1>3, <1>4 DEF Access

\* The number of requests a channel says it serves is the number of those a command was
\* issued for and that are not completed, whatever is asked and whichever are served first
\* (cur_serving_requests in Controller.h).
THEOREM ServedAreCounted ==
  ASSUME MemoryOK
  PROVE  Spec => []ServingCounted
<1>1. Init => IInv /\ ServingCounted
  <2>1. ASSUME Init
        PROVE  ServingCounted
    <3>1. readq = <<>> /\ writeq = <<>> /\ pending = <<>> /\ serving = 0
      BY <2>1 DEF Init, ControllerInit
    <3>2. Begun(readq) = {} /\ Begun(writeq) = {} /\ Accessing(pending) = {}
      BY <3>1 DEF Begun, Accessing
    <3>3. Cardinality({}) = 0
      BY FS_EmptySet
    <3> QED BY <3>1, <3>2, <3>3 DEF ServingCounted
  <2> QED BY <2>1, InitHolds
<1>2. (IInv /\ ServingCounted) /\ [Next]_vars => (IInv /\ ServingCounted)'
  <2> SUFFICES ASSUME IInv, ServingCounted, [Next]_vars
               PROVE  ServingCounted'
    BY StepHolds
  <2>1. CASE MemTick
    BY <2>1, TickServes DEF MemTick, IInv
  <2>2. CASE Access
    BY <2>2, AccessServes DEF IInv, ServingCounted
  <2>3. CASE UNCHANGED vars
    BY <2>3 DEF vars, controllerVars, ServingCounted, Begun, Accessing, AccessedRow
  <2> QED BY <2>1, <2>2, <2>3 DEF Next
<1> QED BY <1>1, <1>2, PTL DEF Spec
-----------------------------------------------------------------------------
(***************************************************************************)
(* The standards of pasim are as assumed, whatever the speed.              *)
(***************************************************************************)
\* Entries of a time up to the bound.
Upto(bound) == {v \in Int : v <= bound}
Entry(cmds, bound) ==
  {e \in [on : cmds, cmd : cmds, dist : 1 .. 4, val : Upto(bound), sibling : BOOLEAN] :
     e.sibling => e.dist = 1}

LEMMA EntriesMade ==
  ASSUME NEW cmds, NEW bound \in Int
  PROVE  /\ \A on, cmd \in cmds : \A val \in Upto(bound) :
               Gap(on, cmd, val) \in Entry(cmds, bound)
         /\ \A on, cmd \in cmds : \A val \in Upto(bound) :
               Sibling(on, cmd, val) \in Entry(cmds, bound)
         /\ \A cmd \in cmds : \A val \in Upto(bound) :
               Window(cmd, 4, val) \in Entry(cmds, bound)
         /\ \A some \in SUBSET cmds : \A val \in Upto(bound) :
               Same(some, val) \subseteq Entry(cmds, bound)
<1>1. \A on, cmd \in cmds : \A val \in Upto(bound) :
         Gap(on, cmd, val) \in Entry(cmds, bound)
  BY DEF Entry, Gap
<1>2. \A on, cmd \in cmds : \A val \in Upto(bound) :
         Sibling(on, cmd, val) \in Entry(cmds, bound)
  <2> TAKE on, cmd \in cmds
  <2> TAKE val \in Upto(bound)
  <2>1. PICK g : g = Gap(on, cmd, val)
    OBVIOUS
  <2>2. g \in [on : cmds, cmd : cmds, dist : 1 .. 4, val : Upto(bound), sibling : BOOLEAN]
    BY <1>1, <2>1 DEF Entry
  <2>3. [g EXCEPT !.sibling = TRUE]
           \in [on : cmds, cmd : cmds, dist : 1 .. 4, val : Upto(bound), sibling : BOOLEAN]
    BY <2>2
  <2>4. [g EXCEPT !.sibling = TRUE].dist = 1
    BY <2>1 DEF Gap
  <2> QED BY <2>1, <2>3, <2>4 DEF Entry, Sibling
<1>3. \A cmd \in cmds : \A val \in Upto(bound) :
         Window(cmd, 4, val) \in Entry(cmds, bound)
  <2> TAKE cmd \in cmds
  <2> TAKE val \in Upto(bound)
  <2>1. PICK g : g = Gap(cmd, cmd, val)
    OBVIOUS
  <2>2. g \in [on : cmds, cmd : cmds, dist : 1 .. 4, val : Upto(bound), sibling : BOOLEAN]
    BY <1>1, <2>1 DEF Entry
  <2>3. [g EXCEPT !.dist = 4]
           \in [on : cmds, cmd : cmds, dist : 1 .. 4, val : Upto(bound), sibling : BOOLEAN]
    BY <2>2
  <2>4. ~ [g EXCEPT !.dist = 4].sibling
    BY <2>1 DEF Gap
  <2> QED BY <2>1, <2>3, <2>4 DEF Entry, Window
<1>4. \A some \in SUBSET cmds : \A val \in Upto(bound) :
         Same(some, val) \subseteq Entry(cmds, bound)
  BY <1>1 DEF Same
<1> QED BY <1>1, <1>2, <1>3, <1>4

LEMMA LongestBounds ==
  ASSUME NEW timing, NEW cmds, NEW bound \in Int,
         \A i \in DOMAIN timing : timing[i] \subseteq Entry(cmds, bound),
         NEW k \in DOMAIN timing, NEW x \in timing[k], x.val \in Nat
  PROVE  /\ Longest(timing) \in Nat
         /\ \A i \in DOMAIN timing : \A e \in timing[i] : e.val <= Longest(timing)
<1>1. PICK T : T = {e.val : e \in UNION {timing[i] : i \in DOMAIN timing}}
  OBVIOUS
<1>2. \A i \in DOMAIN timing : \A e \in timing[i] : e.val \in T
  BY <1>1
<1>3. T \in SUBSET Int /\ T # {} /\ Bounded(T, bound)
  BY <1>1 DEF Entry, Bounded, Upto
<1>4. Max(T) \in T /\ \A y \in T : y <= Max(T)
  BY <1>3, MaxOfBounded
<1>5. Longest(timing) = Max(T)
  BY <1>1 DEF Longest
<1>6. Max(T) \in Int /\ x.val <= Max(T)
  BY <1>2, <1>3, <1>4
<1> QED BY <1>2, <1>4, <1>5, <1>6

\* A standard is as assumed when its times are, and some time is no negative number.
LEMMA StandardMade ==
  ASSUME NEW std, NEW levels \in Nat, NEW bound \in Int,
         DOMAIN std.timing = 1 .. levels + 1, std.longest = Longest(std.timing),
         \A i \in DOMAIN std.timing : std.timing[i] \subseteq Entry(DOMAIN std.effects, bound),
         NEW x \in std.timing[1], x.val \in Nat
  PROVE  /\ std.longest \in Nat
         /\ \A i \in 1 .. levels + 1 : \A e \in std.timing[i] : EntryOK(std, e)
<1>1. PICK cmds, timing : cmds = DOMAIN std.effects /\ timing = std.timing
  OBVIOUS
<1>2. 1 \in DOMAIN timing
  BY <1>1
<1>3. std.longest \in Nat /\ \A i \in DOMAIN timing : \A e \in timing[i] : e.val <= std.longest
  BY <1>1, <1>2, LongestBounds
<1>4. ASSUME NEW i \in DOMAIN timing, NEW e \in timing[i]
      PROVE  EntryOK(std, e)
  <2>1. e \in Entry(cmds, bound)
    BY <1>1, <1>4
  <2>2. e.val <= std.longest
    BY <1>3
  <2> QED BY <1>1, <2>1, <2>2 DEF EntryOK, Entry, Upto
<1> QED BY <1>1, <1>3, <1>4

Times(s, names) == \A name \in names : s[name] \in Nat

DDR3Times == {"nBL", "nCCD", "nRTRS", "nCL", "nRCD", "nRP", "nCWL", "nRAS", "nRC",
               "nRTP", "nWTR", "nWR", "nRRD", "nFAW", "nRFC"}

LEMMA DDR3Entries ==
  ASSUME NEW s, Times(s, DDR3Times)
  PROVE  \E bound \in Int : \A i \in 1 .. 3 :
            DDR3Timing(s)[i] \subseteq Entry(DOMAIN DDR3Effects, bound)
<1>1. DOMAIN DDR3Effects = {"ACT", "PRE", "PREA", "RD", "WR", "REF"}
  BY DEF DDR3Effects
<1>2. PICK BL, CCD, RTRS, CL, RCD, RP, CWL, RAS, RC, RTP, WTR, WR, RRD, FAW, RFC \in Nat :
         /\ s.nBL = BL /\ s.nCCD = CCD /\ s.nRTRS = RTRS /\ s.nCL = CL /\ s.nRCD = RCD
         /\ s.nRP = RP /\ s.nCWL = CWL /\ s.nRAS = RAS /\ s.nRC = RC /\ s.nRTP = RTP
         /\ s.nWTR = WTR /\ s.nWR = WR /\ s.nRRD = RRD /\ s.nFAW = FAW /\ s.nRFC = RFC
  BY DEF Times, DDR3Times
<1>3. PICK bound \in Int :
         bound = BL + CCD + RTRS + CL + RCD + RP + CWL + RAS + RC + RTP + WTR + WR
                   + RRD + FAW + RFC + 2
  OBVIOUS
<1> DEFINE ok == Upto(bound)
<1>4. /\ BL \in ok /\ CCD \in ok /\ RCD \in ok /\ RP \in ok /\ RAS \in ok /\ RC \in ok
      /\ RTP \in ok /\ RRD \in ok /\ FAW \in ok /\ RFC \in ok
      /\ CL + CCD + 2 - CWL \in ok /\ CWL + BL + WTR \in ok /\ BL + RTRS \in ok
      /\ CL + BL + RTRS - CWL \in ok /\ CWL + BL + RTRS - CL \in ok
      /\ CWL + BL + WR \in ok
  BY <1>3 DEF Upto
<1> HIDE DEF ok
<1>5. PICK cmds : cmds = DOMAIN DDR3Effects
  OBVIOUS
<1>6. /\ \A on, cmd \in cmds : \A val \in ok : Gap(on, cmd, val) \in Entry(cmds, bound)
      /\ \A on, cmd \in cmds : \A val \in ok : Sibling(on, cmd, val) \in Entry(cmds, bound)
      /\ \A cmd \in cmds : \A val \in ok : Window(cmd, 4, val) \in Entry(cmds, bound)
      /\ \A some \in SUBSET cmds : \A val \in ok : Same(some, val) \subseteq Entry(cmds, bound)
  BY EntriesMade DEF ok
<1>7. {"RD", "WR"} \in SUBSET cmds
  BY <1>1, <1>5
<1>8. DDR3Timing(s)[1] \subseteq Entry(cmds, bound)
  BY <1>1, <1>2, <1>4, <1>5, <1>6, <1>7 DEF DDR3Timing
<1>9. DDR3Timing(s)[2] \subseteq Entry(cmds, bound)
  BY <1>1, <1>2, <1>4, <1>5, <1>6, <1>7 DEF DDR3Timing
<1>10. DDR3Timing(s)[3] \subseteq Entry(cmds, bound)
  BY <1>1, <1>2, <1>4, <1>5, <1>6, <1>7 DEF DDR3Timing
<1>11. \A i \in 1 .. 3 : i = 1 \/ i = 2 \/ i = 3
  OBVIOUS
<1> QED BY <1>5, <1>8, <1>9, <1>10, <1>11

LEMMA DDR3Standard ==
  ASSUME NEW s, Times(s, DDR3Times)
  PROVE  StandardOK(DDR3(s), 2)
<1>1. PICK bound \in Int :
         \A i \in 1 .. 3 : DDR3Timing(s)[i] \subseteq Entry(DOMAIN DDR3Effects, bound)
  BY DDR3Entries
<1>2. PICK std : std = DDR3(s)
  OBVIOUS
<1>3. /\ std.timing = DDR3Timing(s) /\ std.effects = DDR3Effects
      /\ std.longest = Longest(std.timing)
  BY <1>2 DEF DDR3
<1>4. DOMAIN std.timing = 1 .. 2 + 1
  BY <1>3 DEF DDR3Timing
<1>5. Gap("RD", "RD", s.nBL) \in std.timing[1] /\ s.nBL \in Nat
  BY <1>3 DEF DDR3Timing, Same, Times, DDR3Times
<1>6. Gap("RD", "RD", s.nBL).val \in Nat
  BY <1>5 DEF Gap
<1>7. \A i \in DOMAIN std.timing : std.timing[i] \subseteq Entry(DOMAIN std.effects, bound)
  BY <1>1, <1>3, <1>4
<1>8. /\ std.longest \in Nat
      /\ \A i \in 1 .. 2 + 1 : \A e \in std.timing[i] : EntryOK(std, e)
  BY <1>3, <1>4, <1>5, <1>6, <1>7, StandardMade
<1>9. /\ {"RD", "WR", "REF", std.needs.closed, std.needs.otherRow, std.needs.anyOpen}
            \subseteq DOMAIN std.effects
      /\ std.scope \in [DOMAIN std.effects -> Nat]
      /\ std.scope["REF"] <= Rank /\ std.scope[std.needs.anyOpen] = Rank
      /\ std.scope[std.needs.otherRow] = 2
      /\ std.effects[std.needs.closed] = "open" /\ std.effects[std.needs.otherRow] = "close"
      /\ std.effects[std.needs.anyOpen] = "closeAll"
      /\ \A cmd \in {"RD", "WR", "REF"} : std.effects[cmd] = "none"
  BY <1>2 DEF DDR3, DDR3Needs, Needs, DDR3Effects, Rank
<1>10. std.readLatency \in Nat
  BY <1>2 DEF DDR3, Times, DDR3Times
<1> QED BY <1>2, <1>4, <1>8, <1>9, <1>10 DEF StandardOK

DDR4Times == {"nBL", "nCCDS", "nCCDL", "nRTRS", "nCL", "nRCD", "nRP", "nCWL", "nRAS",
               "nRC", "nRTP", "nWTRS", "nWTRL", "nWR", "nRRDS",
               "nRRDL", "nFAW", "nRFC"}

LEMMA DDR4Entries ==
  ASSUME NEW s, Times(s, DDR4Times)
  PROVE  \E bound \in Int : \A i \in 1 .. 4 :
            DDR4Timing(s)[i] \subseteq Entry(DOMAIN DDR4Effects, bound)
<1>1. DOMAIN DDR4Effects = {"ACT", "PRE", "PREA", "RD", "WR", "REF"}
  BY DEF DDR4Effects
<1>2. PICK BL, CCDS, CCDL, RTRS, CL, RCD, RP, CWL, RAS, RC, RTP, WTRS, WTRL, WR, RRDS
           , RRDL, FAW, RFC \in Nat :
         /\ s.nBL = BL /\ s.nCCDS = CCDS /\ s.nCCDL = CCDL /\ s.nRTRS = RTRS /\ s.nCL = CL
         /\ s.nRCD = RCD /\ s.nRP = RP /\ s.nCWL = CWL /\ s.nRAS = RAS /\ s.nRC = RC
         /\ s.nRTP = RTP /\ s.nWTRS = WTRS /\ s.nWTRL = WTRL /\ s.nWR = WR
         /\ s.nRRDS = RRDS /\ s.nRRDL = RRDL /\ s.nFAW = FAW /\ s.nRFC = RFC
  BY DEF Times, DDR4Times
<1>3. PICK bound \in Int :
         bound = BL + CCDS + CCDL + RTRS + CL + RCD + RP + CWL + RAS + RC + RTP + WTRS
                   + WTRL + WR + RRDS + RRDL + FAW + RFC + 2
  OBVIOUS
<1> DEFINE ok == Upto(bound)
<1>4. /\ BL \in ok /\ CCDS \in ok /\ CCDL \in ok /\ RCD \in ok /\ RP \in ok /\ RAS \in ok
      /\ RC \in ok /\ RTP \in ok /\ RRDS \in ok /\ RRDL \in ok /\ FAW \in ok
      /\ RFC \in ok /\ CL + CCDS + 2 - CWL \in ok /\ CWL + BL + WTRS \in ok
      /\ CWL + BL + WTRL \in ok /\ BL + RTRS \in ok /\ CL + BL + RTRS - CWL \in ok
      /\ CWL + BL + RTRS - CL \in ok /\ CWL + BL + WR \in ok
  BY <1>3 DEF Upto
<1> HIDE DEF ok
<1>5. PICK cmds : cmds = DOMAIN DDR4Effects
  OBVIOUS
<1>6. /\ \A on, cmd \in cmds : \A val \in ok : Gap(on, cmd, val) \in Entry(cmds, bound)
      /\ \A on, cmd \in cmds : \A val \in ok : Sibling(on, cmd, val) \in Entry(cmds, bound)
      /\ \A cmd \in cmds : \A val \in ok : Window(cmd, 4, val) \in Entry(cmds, bound)
      /\ \A some \in SUBSET cmds : \A val \in ok : Same(some, val) \subseteq Entry(cmds, bound)
  BY EntriesMade DEF ok
<1>7. {"RD", "WR"} \in SUBSET cmds
  BY <1>1, <1>5
<1>8. DDR4Timing(s)[1] \subseteq Entry(cmds, bound)
  BY <1>1, <1>2, <1>4, <1>5, <1>6, <1>7 DEF DDR4Timing
<1>9. DDR4Timing(s)[2] \subseteq Entry(cmds, bound)
  BY <1>1, <1>2, <1>4, <1>5, <1>6, <1>7 DEF DDR4Timing
<1>10. DDR4Timing(s)[3] \subseteq Entry(cmds, bound)
  BY <1>1, <1>2, <1>4, <1>5, <1>6, <1>7 DEF DDR4Timing
<1>11. DDR4Timing(s)[4] \subseteq Entry(cmds, bound)
  BY <1>1, <1>2, <1>4, <1>5, <1>6, <1>7 DEF DDR4Timing
<1>12. \A i \in 1 .. 4 : i = 1 \/ i = 2 \/ i = 3 \/ i = 4
  OBVIOUS
<1> QED BY <1>5, <1>8, <1>9, <1>10, <1>11, <1>12

LEMMA DDR4Standard ==
  ASSUME NEW s, Times(s, DDR4Times)
  PROVE  StandardOK(DDR4(s), 3)
<1>1. PICK bound \in Int :
         \A i \in 1 .. 4 : DDR4Timing(s)[i] \subseteq Entry(DOMAIN DDR4Effects, bound)
  BY DDR4Entries
<1>2. PICK std : std = DDR4(s)
  OBVIOUS
<1>3. /\ std.timing = DDR4Timing(s) /\ std.effects = DDR4Effects
      /\ std.longest = Longest(std.timing)
  BY <1>2 DEF DDR4
<1>4. DOMAIN std.timing = 1 .. 3 + 1
  BY <1>3 DEF DDR4Timing
<1>5. Gap("RD", "RD", s.nBL) \in std.timing[1] /\ s.nBL \in Nat
  BY <1>3 DEF DDR4Timing, Same, Times, DDR4Times
<1>6. Gap("RD", "RD", s.nBL).val \in Nat
  BY <1>5 DEF Gap
<1>7. \A i \in DOMAIN std.timing : std.timing[i] \subseteq Entry(DOMAIN std.effects, bound)
  BY <1>1, <1>3, <1>4
<1>8. /\ std.longest \in Nat
      /\ \A i \in 1 .. 3 + 1 : \A e \in std.timing[i] : EntryOK(std, e)
  BY <1>3, <1>4, <1>5, <1>6, <1>7, StandardMade
<1>9. /\ {"RD", "WR", "REF", std.needs.closed, std.needs.otherRow, std.needs.anyOpen}
            \subseteq DOMAIN std.effects
      /\ std.scope \in [DOMAIN std.effects -> Nat]
      /\ std.scope["REF"] <= Rank /\ std.scope[std.needs.anyOpen] = Rank
      /\ std.scope[std.needs.otherRow] = 3
      /\ std.effects[std.needs.closed] = "open" /\ std.effects[std.needs.otherRow] = "close"
      /\ std.effects[std.needs.anyOpen] = "closeAll"
      /\ \A cmd \in {"RD", "WR", "REF"} : std.effects[cmd] = "none"
  BY <1>2 DEF DDR4, DDR4Needs, Needs, DDR4Effects, Rank
<1>10. std.readLatency \in Nat
  BY <1>2 DEF DDR4, Times, DDR4Times
<1> QED BY <1>2, <1>4, <1>8, <1>9, <1>10 DEF StandardOK

LPDDR3Times == {"nBL", "nCCD", "nDQSCK", "nRTRS", "nCL", "nRCD", "nRPpb", "nRPab",
               "nCWL", "nRAS", "nRC", "nRTP", "nWTR", "nWR", "nRRD",
               "nFAW", "nRFCab"}

LEMMA LPDDR3Entries ==
  ASSUME NEW s, Times(s, LPDDR3Times)
  PROVE  \E bound \in Int : \A i \in 1 .. 3 :
            LPDDR3Timing(s)[i] \subseteq Entry(DOMAIN LPDDR3Effects, bound)
<1>1. DOMAIN LPDDR3Effects = {"ACT", "PRE", "PRA", "RD", "WR", "REF"}
  BY DEF LPDDR3Effects
<1>2. PICK BL, CCD, DQSCK, RTRS, CL, RCD, RPpb, RPab, CWL, RAS, RC, RTP, WTR, WR, RRD
           , FAW, RFCab \in Nat :
         /\ s.nBL = BL /\ s.nCCD = CCD /\ s.nDQSCK = DQSCK /\ s.nRTRS = RTRS /\ s.nCL = CL
         /\ s.nRCD = RCD /\ s.nRPpb = RPpb /\ s.nRPab = RPab /\ s.nCWL = CWL
         /\ s.nRAS = RAS /\ s.nRC = RC /\ s.nRTP = RTP /\ s.nWTR = WTR /\ s.nWR = WR
         /\ s.nRRD = RRD /\ s.nFAW = FAW /\ s.nRFCab = RFCab
  BY DEF Times, LPDDR3Times
<1>3. PICK bound \in Int :
         bound = BL + CCD + DQSCK + RTRS + CL + RCD + RPpb + RPab + CWL + RAS + RC
                   + RTP + WTR + WR + RRD + FAW + RFCab + 2
  OBVIOUS
<1> DEFINE ok == Upto(bound)
<1>4. /\ BL \in ok /\ CCD \in ok /\ RCD \in ok /\ RPpb \in ok /\ RPab \in ok /\ RAS \in ok
      /\ RC \in ok /\ RTP \in ok /\ RRD \in ok /\ FAW \in ok /\ RFCab \in ok
      /\ CL + BL + DQSCK + 1 - CWL \in ok /\ CWL + BL + WTR + 1 \in ok
      /\ BL + RTRS \in ok /\ CL + BL + DQSCK + 1 + RTRS - CWL \in ok
      /\ CWL + BL + RTRS - CL \in ok /\ CWL + BL + WR \in ok
  BY <1>3 DEF Upto
<1> HIDE DEF ok
<1>5. PICK cmds : cmds = DOMAIN LPDDR3Effects
  OBVIOUS
<1>6. /\ \A on, cmd \in cmds : \A val \in ok : Gap(on, cmd, val) \in Entry(cmds, bound)
      /\ \A on, cmd \in cmds : \A val \in ok : Sibling(on, cmd, val) \in Entry(cmds, bound)
      /\ \A cmd \in cmds : \A val \in ok : Window(cmd, 4, val) \in Entry(cmds, bound)
      /\ \A some \in SUBSET cmds : \A val \in ok : Same(some, val) \subseteq Entry(cmds, bound)
  BY EntriesMade DEF ok
<1>7. {"RD", "WR"} \in SUBSET cmds
  BY <1>1, <1>5
<1>8. LPDDR3Timing(s)[1] \subseteq Entry(cmds, bound)
  BY <1>1, <1>2, <1>4, <1>5, <1>6, <1>7 DEF LPDDR3Timing
<1>9. LPDDR3Timing(s)[2] \subseteq Entry(cmds, bound)
  BY <1>1, <1>2, <1>4, <1>5, <1>6, <1>7 DEF LPDDR3Timing
<1>10. LPDDR3Timing(s)[3] \subseteq Entry(cmds, bound)
  BY <1>1, <1>2, <1>4, <1>5, <1>6, <1>7 DEF LPDDR3Timing
<1>11. \A i \in 1 .. 3 : i = 1 \/ i = 2 \/ i = 3
  OBVIOUS
<1> QED BY <1>5, <1>8, <1>9, <1>10, <1>11

LEMMA LPDDR3Standard ==
  ASSUME NEW s, Times(s, LPDDR3Times)
  PROVE  StandardOK(LPDDR3(s), 2)
<1>1. PICK bound \in Int :
         \A i \in 1 .. 3 : LPDDR3Timing(s)[i] \subseteq Entry(DOMAIN LPDDR3Effects, bound)
  BY LPDDR3Entries
<1>2. PICK std : std = LPDDR3(s)
  OBVIOUS
<1>3. /\ std.timing = LPDDR3Timing(s) /\ std.effects = LPDDR3Effects
      /\ std.longest = Longest(std.timing)
  BY <1>2 DEF LPDDR3
<1>4. DOMAIN std.timing = 1 .. 2 + 1
  BY <1>3 DEF LPDDR3Timing
<1>5. Gap("RD", "RD", s.nBL) \in std.timing[1] /\ s.nBL \in Nat
  BY <1>3 DEF LPDDR3Timing, Same, Times, LPDDR3Times
<1>6. Gap("RD", "RD", s.nBL).val \in Nat
  BY <1>5 DEF Gap
<1>7. \A i \in DOMAIN std.timing : std.timing[i] \subseteq Entry(DOMAIN std.effects, bound)
  BY <1>1, <1>3, <1>4
<1>8. /\ std.longest \in Nat
      /\ \A i \in 1 .. 2 + 1 : \A e \in std.timing[i] : EntryOK(std, e)
  BY <1>3, <1>4, <1>5, <1>6, <1>7, StandardMade
<1>9. /\ {"RD", "WR", "REF", std.needs.closed, std.needs.otherRow, std.needs.anyOpen}
            \subseteq DOMAIN std.effects
      /\ std.scope \in [DOMAIN std.effects -> Nat]
      /\ std.scope["REF"] <= Rank /\ std.scope[std.needs.anyOpen] = Rank
      /\ std.scope[std.needs.otherRow] = 2
      /\ std.effects[std.needs.closed] = "open" /\ std.effects[std.needs.otherRow] = "close"
      /\ std.effects[std.needs.anyOpen] = "closeAll"
      /\ \A cmd \in {"RD", "WR", "REF"} : std.effects[cmd] = "none"
  BY <1>2 DEF LPDDR3, LPDDR3Needs, Needs, LPDDR3Effects, Rank
<1>10. std.readLatency \in Nat
  BY <1>2 DEF LPDDR3, Times, LPDDR3Times
<1> QED BY <1>2, <1>4, <1>8, <1>9, <1>10 DEF StandardOK

LPDDR4Times == LPDDR3Times \cup {"nPPD"}

LEMMA LPDDR4Entries ==
  ASSUME NEW s, Times(s, LPDDR4Times)
  PROVE  \E bound \in Int : \A i \in 1 .. 3 :
            LPDDR4Timing(s)[i] \subseteq Entry(DOMAIN LPDDR4Effects, bound)
<1>1. PICK old, cmds : old = DOMAIN LPDDR3Effects /\ cmds = DOMAIN LPDDR4Effects
  OBVIOUS
<1>2. /\ old = {"ACT", "PRE", "PRA", "RD", "WR", "REF"}
      /\ cmds = {"ACT", "PRE", "PREA", "RD", "WR", "REF"}
  BY <1>1 DEF LPDDR3Effects, LPDDR4Effects
<1>3. PICK some \in Int : \A i \in 1 .. 3 : LPDDR3Timing(s)[i] \subseteq Entry(old, some)
  BY <1>1, LPDDR3Entries DEF Times, LPDDR4Times
<1>4. PICK t1, t2, t3 : /\ t1 = LPDDR3Timing(s)[1] /\ t2 = LPDDR3Timing(s)[2]
                        /\ t3 = LPDDR3Timing(s)[3]
  OBVIOUS
<1>5. PICK PPD \in Nat : s.nPPD = PPD
  BY DEF Times, LPDDR4Times
<1>6. PICK bound \in Int : some <= bound /\ PPD <= bound
  <2>1. CASE some <= PPD
    BY <2>1
  <2>2. CASE PPD <= some
    BY <2>2
  <2> QED BY <2>1, <2>2
<1>7. /\ t1 \subseteq Entry(old, some) /\ t2 \subseteq Entry(old, some)
      /\ t3 \subseteq Entry(old, some)
  BY <1>3, <1>4
<1>8. ASSUME NEW e \in Entry(old, some)
      PROVE  /\ Renamed(e) \in Entry(cmds, bound)
             /\ e.on # "PRA" /\ e.cmd # "PRA" => e \in Entry(cmds, bound)
  <2>1. /\ e \in [on : old, cmd : old, dist : 1 .. 4, val : Upto(some), sibling : BOOLEAN]
        /\ e.sibling => e.dist = 1
    BY <1>8 DEF Entry
  <2>2. Upto(some) \subseteq Upto(bound)
    BY <1>6 DEF Upto
  <2>3. PICK on, cmd : on = (IF e.on = "PRA" THEN "PREA" ELSE e.on)
                         /\ cmd = (IF e.cmd = "PRA" THEN "PREA" ELSE e.cmd)
    OBVIOUS
  <2>4. on \in cmds /\ cmd \in cmds
    BY <1>2, <2>1, <2>3
  <2>5. PICK made : made = [e EXCEPT !.on = on, !.cmd = cmd]
    OBVIOUS
  <2>6. Renamed(e) = made
    BY <2>3, <2>5 DEF Renamed
  <2>7. made \in [on : cmds, cmd : cmds, dist : 1 .. 4, val : Upto(bound), sibling : BOOLEAN]
    BY <2>1, <2>2, <2>4, <2>5
  <2>8. made.sibling = e.sibling /\ made.dist = e.dist
    BY <2>1, <2>5
  <2>9. made \in Entry(cmds, bound)
    BY <2>1, <2>7, <2>8 DEF Entry
  <2>10. ASSUME e.on # "PRA" /\ e.cmd # "PRA"
         PROVE  e \in Entry(cmds, bound)
    <3>1. e.on \in cmds /\ e.cmd \in cmds
      BY <1>2, <2>1, <2>10
    <3>2. e \in [on : cmds, cmd : cmds, dist : 1 .. 4, val : Upto(bound), sibling : BOOLEAN]
      BY <2>1, <2>2, <3>1
    <3> QED BY <2>1, <3>2 DEF Entry
  <2> QED BY <2>6, <2>9, <2>10
<1>9. LPDDR4Timing(s)[1] \subseteq Entry(cmds, bound)
  <2>1. LPDDR4Timing(s)[1] = t1
    BY <1>4 DEF LPDDR4Timing
  <2>2. \A e \in t1 : e.on # "PRA" /\ e.cmd # "PRA"
    BY <1>4 DEF LPDDR3Timing, Same, Gap
  <2> QED BY <1>7, <1>8, <2>1, <2>2
<1>10. LPDDR4Timing(s)[3] \subseteq Entry(cmds, bound)
  <2>1. LPDDR4Timing(s)[3] = t3
    BY <1>4 DEF LPDDR4Timing
  <2>2. \A e \in t3 : e.on # "PRA" /\ e.cmd # "PRA"
    BY <1>4 DEF LPDDR3Timing, Gap
  <2> QED BY <1>7, <1>8, <2>1, <2>2
<1>11. LPDDR4Timing(s)[2] \subseteq Entry(cmds, bound)
  <2>1. LPDDR4Timing(s)[2] = {Renamed(e) : e \in t2} \cup {Gap("PRE", "PRE", PPD)}
    BY <1>4, <1>5 DEF LPDDR4Timing
  <2>2. PPD \in Upto(bound)
    BY <1>6 DEF Upto
  <2>3. Gap("PRE", "PRE", PPD) \in Entry(cmds, bound)
    BY <1>2, <2>2, EntriesMade
  <2> QED BY <1>7, <1>8, <2>1, <2>3
<1>12. \A i \in 1 .. 3 : i = 1 \/ i = 2 \/ i = 3
  OBVIOUS
<1> QED BY <1>1, <1>9, <1>10, <1>11, <1>12

LEMMA LPDDR4Standard ==
  ASSUME NEW s, Times(s, LPDDR4Times)
  PROVE  StandardOK(LPDDR4(s), 2)
<1>1. PICK bound \in Int :
         \A i \in 1 .. 3 : LPDDR4Timing(s)[i] \subseteq Entry(DOMAIN LPDDR4Effects, bound)
  BY LPDDR4Entries
<1>2. PICK std : std = LPDDR4(s)
  OBVIOUS
<1>3. /\ std.timing = LPDDR4Timing(s) /\ std.effects = LPDDR4Effects
      /\ std.longest = Longest(std.timing)
  BY <1>2 DEF LPDDR4
<1>4. DOMAIN std.timing = 1 .. 2 + 1
  BY <1>3 DEF LPDDR4Timing
<1>5. Gap("RD", "RD", s.nBL) \in std.timing[1] /\ s.nBL \in Nat
  BY <1>3 DEF LPDDR4Timing, LPDDR3Timing, Same, Times, LPDDR4Times, LPDDR3Times
<1>6. Gap("RD", "RD", s.nBL).val \in Nat
  BY <1>5 DEF Gap
<1>7. \A i \in DOMAIN std.timing : std.timing[i] \subseteq Entry(DOMAIN std.effects, bound)
  BY <1>1, <1>3, <1>4
<1>8. /\ std.longest \in Nat
      /\ \A i \in 1 .. 2 + 1 : \A e \in std.timing[i] : EntryOK(std, e)
  BY <1>3, <1>4, <1>5, <1>6, <1>7, StandardMade
<1>9. /\ {"RD", "WR", "REF", std.needs.closed, std.needs.otherRow, std.needs.anyOpen}
            \subseteq DOMAIN std.effects
      /\ std.scope \in [DOMAIN std.effects -> Nat]
      /\ std.scope["REF"] <= Rank /\ std.scope[std.needs.anyOpen] = Rank
      /\ std.scope[std.needs.otherRow] = 2
      /\ std.effects[std.needs.closed] = "open" /\ std.effects[std.needs.otherRow] = "close"
      /\ std.effects[std.needs.anyOpen] = "closeAll"
      /\ \A cmd \in {"RD", "WR", "REF"} : std.effects[cmd] = "none"
  BY <1>2 DEF LPDDR4, LPDDR4Needs, Needs, LPDDR4Effects, Rank
<1>10. std.readLatency \in Nat
  BY <1>2 DEF LPDDR4, Times, LPDDR4Times, LPDDR3Times
<1> QED BY <1>2, <1>4, <1>8, <1>9, <1>10 DEF StandardOK

\* Two accesses keep clear of each other when one entry spaces those of a rank and one
\* between siblings those of two ranks; two writes need no pause.
LEMMA SpacedBySibling ==
  ASSUME NEW std, NEW on \in {"RD", "WR"}, NEW cmd \in {"RD", "WR"},
         NEW from \in Nat, NEW to \in Nat, NEW length \in Nat, NEW pause \in Nat,
         NEW a \in Int, NEW b \in Int,
         std.data[on] = from, std.data[cmd] = to, std.data.length = length,
         std.data.pause = pause,
         Gap(on, cmd, a) \in std.timing[1] \cup std.timing[2],
         Sibling(on, cmd, b) \in std.timing[2],
         a >= (from + length) - to, b >= ((from + length) - to) + pause
  PROVE  Spaces(std, on, cmd)
<1>1. PICK g, h : g = Gap(on, cmd, a) /\ h = Sibling(on, cmd, b)
  OBVIOUS
<1>2. g.on = on /\ g.cmd = cmd /\ g.dist = 1 /\ g.val = a /\ g.sibling = FALSE
  BY <1>1 DEF Gap
<1>3. h.on = on /\ h.cmd = cmd /\ h.dist = 1 /\ h.val = b /\ h.sibling = TRUE
  BY <1>1 DEF Gap, Sibling
<1>4. g.val >= (std.data[on] + std.data.length) - std.data[cmd]
  BY <1>2
<1>5. h.val >= ((std.data[on] + std.data.length) - std.data[cmd])
                 + (IF "RD" \in {on, cmd} THEN std.data.pause ELSE 0)
  BY <1>3
<1> QED BY <1>1, <1>2, <1>3, <1>4, <1>5 DEF Spaces

\* LPDDR4 times accesses as LPDDR3 does.
LEMMA AccessesNotRenamed ==
  ASSUME NEW on \in {"RD", "WR"}, NEW cmd \in {"RD", "WR"}, NEW val \in Int
  PROVE  /\ Renamed(Gap(on, cmd, val)) = Gap(on, cmd, val)
         /\ Renamed(Sibling(on, cmd, val)) = Sibling(on, cmd, val)
BY DEF Renamed, Gap, Sibling

LEMMA WritesSpaced ==
  ASSUME NEW std, NEW at \in Nat, NEW length \in Nat,
         std.data.WR = at, std.data.length = length,
         Gap("WR", "WR", length) \in std.timing[1]
  PROVE  Spaces(std, "WR", "WR")
<1>1. PICK g : g = Gap("WR", "WR", length)
  OBVIOUS
<1>2. g.on = "WR" /\ g.cmd = "WR" /\ g.dist = 1 /\ g.val = length /\ g.sibling = FALSE
  BY <1>1 DEF Gap
<1>3. g.val >= (std.data["WR"] + std.data.length) - std.data["WR"]
  BY <1>2
<1>4. g.val >= ((std.data["WR"] + std.data.length) - std.data["WR"])
                 + (IF "RD" \in {"WR", "WR"} THEN std.data.pause ELSE 0)
  BY <1>2
<1> QED BY <1>1, <1>2, <1>3, <1>4 DEF Spaces

LEMMA DDR3SpacesData ==
  ASSUME NEW s, Times(s, DDR3Times), s.nBL <= s.nCCD + 2
  PROVE  SpacesData(DDR3(s))
<1>1. PICK std : std = DDR3(s)
  OBVIOUS
<1>2. PICK BL, CCD, RTRS, CL, CWL, WTR \in Nat :
         /\ s.nBL = BL /\ s.nCCD = CCD /\ s.nRTRS = RTRS /\ s.nCL = CL /\ s.nCWL = CWL
         /\ s.nWTR = WTR
  BY DEF Times, DDR3Times
<1>3. /\ std.timing = DDR3Timing(s)
      /\ std.data = [RD |-> CL, WR |-> CWL, length |-> BL, pause |-> RTRS]
  BY <1>1, <1>2 DEF DDR3, Data
<1>4. /\ std.data["RD"] = CL /\ std.data["WR"] = CWL
      /\ std.data.length = BL /\ std.data.pause = RTRS
  BY <1>3
<1>5. Spaces(std, "RD", "RD")
  <2>1. Gap("RD", "RD", BL) \in std.timing[1] \cup std.timing[2]
    BY <1>2, <1>3 DEF DDR3Timing, Same
  <2>2. PICK a \in Int, b \in Int : a = BL /\ b = BL + RTRS
    OBVIOUS
  <2>3. Sibling("RD", "RD", b) \in std.timing[2]
    BY <1>2, <1>3, <2>2 DEF DDR3Timing
  <2>4. PICK from \in Nat, to \in Nat : from = CL /\ to = CL
    OBVIOUS
  <2>5. a >= (from + BL) - to /\ b >= ((from + BL) - to) + RTRS
    BY <2>2, <2>4
  <2> QED BY <1>4, <2>1, <2>2, <2>3, <2>4, <2>5, SpacedBySibling
<1>6. Spaces(std, "RD", "WR")
  <2>1. PICK a \in Int, b \in Int : a = CL + CCD + 2 - CWL /\ b = CL + BL + RTRS - CWL
    OBVIOUS
  <2>2. Gap("RD", "WR", a) \in std.timing[2] /\ Sibling("RD", "WR", b) \in std.timing[2]
    BY <1>2, <1>3, <2>1 DEF DDR3Timing
  <2>3. PICK from \in Nat : from = CL
    OBVIOUS
  <2>4. a >= (from + BL) - CWL /\ b >= ((from + BL) - CWL) + RTRS
    BY <1>2, <2>1, <2>3
  <2> QED BY <1>4, <2>2, <2>3, <2>4, SpacedBySibling
<1>7. Spaces(std, "WR", "RD")
  <2>1. PICK a \in Int, b \in Int : a = CWL + BL + WTR /\ b = CWL + BL + RTRS - CL
    OBVIOUS
  <2>2. Gap("WR", "RD", a) \in std.timing[2] /\ Sibling("WR", "RD", b) \in std.timing[2]
    BY <1>2, <1>3, <2>1 DEF DDR3Timing
  <2>3. PICK from \in Nat : from = CL
    OBVIOUS
  <2>4. a >= (CWL + BL) - from /\ b >= ((CWL + BL) - from) + RTRS
    BY <1>2, <2>1, <2>3
  <2> QED BY <1>4, <2>2, <2>3, <2>4, SpacedBySibling
<1>8. Spaces(std, "WR", "WR")
  <2>1. Gap("WR", "WR", BL) \in std.timing[1]
    BY <1>2, <1>3 DEF DDR3Timing, Same
  <2> QED BY <1>4, <2>1, WritesSpaced
<1>9. \A cmd \in {"RD", "WR"} : std.scope[cmd] >= Rank
  BY <1>1 DEF DDR3, Rank
<1>10. std.data \in [RD : Nat, WR : Nat, length : Nat, pause : Nat]
  BY <1>3
<1> QED BY <1>1, <1>5, <1>6, <1>7, <1>8, <1>9, <1>10 DEF SpacesData

LEMMA DDR4SpacesData ==
  ASSUME NEW s, Times(s, DDR4Times), s.nBL <= s.nCCDS + 2
  PROVE  SpacesData(DDR4(s))
<1>1. PICK std : std = DDR4(s)
  OBVIOUS
<1>2. PICK BL, CCDS, RTRS, CL, CWL, WTRS \in Nat :
         /\ s.nBL = BL /\ s.nCCDS = CCDS /\ s.nRTRS = RTRS /\ s.nCL = CL /\ s.nCWL = CWL
         /\ s.nWTRS = WTRS
  BY DEF Times, DDR4Times
<1>3. /\ std.timing = DDR4Timing(s)
      /\ std.data = [RD |-> CL, WR |-> CWL, length |-> BL, pause |-> RTRS]
  BY <1>1, <1>2 DEF DDR4, Data
<1>4. /\ std.data["RD"] = CL /\ std.data["WR"] = CWL
      /\ std.data.length = BL /\ std.data.pause = RTRS
  BY <1>3
<1>5. Spaces(std, "RD", "RD")
  <2>1. Gap("RD", "RD", BL) \in std.timing[1] \cup std.timing[2]
    BY <1>2, <1>3 DEF DDR4Timing, Same
  <2>2. PICK a \in Int, b \in Int : a = BL /\ b = BL + RTRS
    OBVIOUS
  <2>3. Sibling("RD", "RD", b) \in std.timing[2]
    BY <1>2, <1>3, <2>2 DEF DDR4Timing
  <2>4. PICK from \in Nat, to \in Nat : from = CL /\ to = CL
    OBVIOUS
  <2>5. a >= (from + BL) - to /\ b >= ((from + BL) - to) + RTRS
    BY <2>2, <2>4
  <2> QED BY <1>4, <2>1, <2>2, <2>3, <2>4, <2>5, SpacedBySibling
<1>6. Spaces(std, "RD", "WR")
  <2>1. PICK a \in Int, b \in Int : a = CL + CCDS + 2 - CWL /\ b = CL + BL + RTRS - CWL
    OBVIOUS
  <2>2. Gap("RD", "WR", a) \in std.timing[2] /\ Sibling("RD", "WR", b) \in std.timing[2]
    BY <1>2, <1>3, <2>1 DEF DDR4Timing
  <2>3. PICK from \in Nat : from = CL
    OBVIOUS
  <2>4. a >= (from + BL) - CWL /\ b >= ((from + BL) - CWL) + RTRS
    BY <1>2, <2>1, <2>3
  <2> QED BY <1>4, <2>2, <2>3, <2>4, SpacedBySibling
<1>7. Spaces(std, "WR", "RD")
  <2>1. PICK a \in Int, b \in Int : a = CWL + BL + WTRS /\ b = CWL + BL + RTRS - CL
    OBVIOUS
  <2>2. Gap("WR", "RD", a) \in std.timing[2] /\ Sibling("WR", "RD", b) \in std.timing[2]
    BY <1>2, <1>3, <2>1 DEF DDR4Timing
  <2>3. PICK from \in Nat : from = CL
    OBVIOUS
  <2>4. a >= (CWL + BL) - from /\ b >= ((CWL + BL) - from) + RTRS
    BY <1>2, <2>1, <2>3
  <2> QED BY <1>4, <2>2, <2>3, <2>4, SpacedBySibling
<1>8. Spaces(std, "WR", "WR")
  <2>1. Gap("WR", "WR", BL) \in std.timing[1]
    BY <1>2, <1>3 DEF DDR4Timing, Same
  <2> QED BY <1>4, <2>1, WritesSpaced
<1>9. \A cmd \in {"RD", "WR"} : std.scope[cmd] >= Rank
  BY <1>1 DEF DDR4, Rank
<1>10. std.data \in [RD : Nat, WR : Nat, length : Nat, pause : Nat]
  BY <1>3
<1> QED BY <1>1, <1>5, <1>6, <1>7, <1>8, <1>9, <1>10 DEF SpacesData

LEMMA LPDDR3SpacesData ==
  ASSUME NEW s, Times(s, LPDDR3Times)
  PROVE  SpacesData(LPDDR3(s))
<1>1. PICK std : std = LPDDR3(s)
  OBVIOUS
<1>2. PICK BL, DQSCK, RTRS, CL, CWL, WTR \in Nat :
         /\ s.nBL = BL /\ s.nDQSCK = DQSCK /\ s.nRTRS = RTRS /\ s.nCL = CL /\ s.nCWL = CWL
         /\ s.nWTR = WTR
  BY DEF Times, LPDDR3Times
<1>3. /\ std.timing = LPDDR3Timing(s)
      /\ std.data = [RD |-> CL + DQSCK, WR |-> CWL, length |-> BL, pause |-> RTRS]
  BY <1>1, <1>2 DEF LPDDR3, Data
<1>4. /\ std.data["RD"] = CL + DQSCK /\ std.data["WR"] = CWL
      /\ std.data.length = BL /\ std.data.pause = RTRS
  BY <1>3
<1>5. Spaces(std, "RD", "RD")
  <2>1. Gap("RD", "RD", BL) \in std.timing[1] \cup std.timing[2]
    BY <1>2, <1>3 DEF LPDDR3Timing, Same
  <2>2. PICK a \in Int, b \in Int : a = BL /\ b = BL + RTRS
    OBVIOUS
  <2>3. Sibling("RD", "RD", b) \in std.timing[2]
    BY <1>2, <1>3, <2>2 DEF LPDDR3Timing
  <2>4. PICK from \in Nat, to \in Nat : from = CL + DQSCK /\ to = CL + DQSCK
    OBVIOUS
  <2>5. a >= (from + BL) - to /\ b >= ((from + BL) - to) + RTRS
    BY <2>2, <2>4
  <2> QED BY <1>4, <2>1, <2>2, <2>3, <2>4, <2>5, SpacedBySibling
<1>6. Spaces(std, "RD", "WR")
  <2>1. PICK a \in Int, b \in Int :
           a = CL + BL + DQSCK + 1 - CWL /\ b = CL + BL + DQSCK + 1 + RTRS - CWL
    OBVIOUS
  <2>2. Gap("RD", "WR", a) \in std.timing[2] /\ Sibling("RD", "WR", b) \in std.timing[2]
    BY <1>2, <1>3, <2>1 DEF LPDDR3Timing
  <2>3. PICK from \in Nat : from = CL + DQSCK
    OBVIOUS
  <2>4. a >= (from + BL) - CWL /\ b >= ((from + BL) - CWL) + RTRS
    BY <1>2, <2>1, <2>3
  <2> QED BY <1>4, <2>2, <2>3, <2>4, SpacedBySibling
<1>7. Spaces(std, "WR", "RD")
  <2>1. PICK a \in Int, b \in Int : a = CWL + BL + WTR + 1 /\ b = CWL + BL + RTRS - CL
    OBVIOUS
  <2>2. Gap("WR", "RD", a) \in std.timing[2] /\ Sibling("WR", "RD", b) \in std.timing[2]
    BY <1>2, <1>3, <2>1 DEF LPDDR3Timing
  <2>3. PICK from \in Nat : from = CL + DQSCK
    OBVIOUS
  <2>4. a >= (CWL + BL) - from /\ b >= ((CWL + BL) - from) + RTRS
    BY <1>2, <2>1, <2>3
  <2> QED BY <1>4, <2>2, <2>3, <2>4, SpacedBySibling
<1>8. Spaces(std, "WR", "WR")
  <2>1. Gap("WR", "WR", BL) \in std.timing[1]
    BY <1>2, <1>3 DEF LPDDR3Timing, Same
  <2> QED BY <1>4, <2>1, WritesSpaced
<1>9. \A cmd \in {"RD", "WR"} : std.scope[cmd] >= Rank
  BY <1>1 DEF LPDDR3, Rank
<1>10. std.data \in [RD : Nat, WR : Nat, length : Nat, pause : Nat]
  BY <1>3
<1> QED BY <1>1, <1>5, <1>6, <1>7, <1>8, <1>9, <1>10 DEF SpacesData

LEMMA LPDDR4SpacesData ==
  ASSUME NEW s, Times(s, LPDDR4Times)
  PROVE  SpacesData(LPDDR4(s))
<1>1. PICK std : std = LPDDR4(s)
  OBVIOUS
<1>2. PICK BL, DQSCK, RTRS, CL, CWL, WTR \in Nat :
         /\ s.nBL = BL /\ s.nDQSCK = DQSCK /\ s.nRTRS = RTRS /\ s.nCL = CL /\ s.nCWL = CWL
         /\ s.nWTR = WTR
  BY DEF Times, LPDDR4Times, LPDDR3Times
<1>3. /\ std.timing = LPDDR4Timing(s)
      /\ std.data = [RD |-> CL + DQSCK, WR |-> CWL, length |-> BL, pause |-> RTRS]
  BY <1>1, <1>2 DEF LPDDR4, Data
<1>4. /\ std.data["RD"] = CL + DQSCK /\ std.data["WR"] = CWL
      /\ std.data.length = BL /\ std.data.pause = RTRS
  BY <1>3
<1>5. Spaces(std, "RD", "RD")
  <2>1. Gap("RD", "RD", BL) \in std.timing[1] \cup std.timing[2]
    BY <1>2, <1>3 DEF LPDDR4Timing, LPDDR3Timing, Same
  <2>2. PICK a \in Int, b \in Int : a = BL /\ b = BL + RTRS
    OBVIOUS
  <2>3. Sibling("RD", "RD", b) \in std.timing[2]
    BY AccessesNotRenamed, <1>2, <1>3, <2>2 DEF LPDDR4Timing, LPDDR3Timing
  <2>4. PICK from \in Nat, to \in Nat : from = CL + DQSCK /\ to = CL + DQSCK
    OBVIOUS
  <2>5. a >= (from + BL) - to /\ b >= ((from + BL) - to) + RTRS
    BY <2>2, <2>4
  <2> QED BY <1>4, <2>1, <2>2, <2>3, <2>4, <2>5, SpacedBySibling
<1>6. Spaces(std, "RD", "WR")
  <2>1. PICK a \in Int, b \in Int :
           a = CL + BL + DQSCK + 1 - CWL /\ b = CL + BL + DQSCK + 1 + RTRS - CWL
    OBVIOUS
  <2>2. Gap("RD", "WR", a) \in std.timing[2] /\ Sibling("RD", "WR", b) \in std.timing[2]
    BY AccessesNotRenamed, <1>2, <1>3, <2>1 DEF LPDDR4Timing, LPDDR3Timing
  <2>3. PICK from \in Nat : from = CL + DQSCK
    OBVIOUS
  <2>4. a >= (from + BL) - CWL /\ b >= ((from + BL) - CWL) + RTRS
    BY <1>2, <2>1, <2>3
  <2> QED BY <1>4, <2>2, <2>3, <2>4, SpacedBySibling
<1>7. Spaces(std, "WR", "RD")
  <2>1. PICK a \in Int, b \in Int : a = CWL + BL + WTR + 1 /\ b = CWL + BL + RTRS - CL
    OBVIOUS
  <2>2. Gap("WR", "RD", a) \in std.timing[2] /\ Sibling("WR", "RD", b) \in std.timing[2]
    BY AccessesNotRenamed, <1>2, <1>3, <2>1 DEF LPDDR4Timing, LPDDR3Timing
  <2>3. PICK from \in Nat : from = CL + DQSCK
    OBVIOUS
  <2>4. a >= (CWL + BL) - from /\ b >= ((CWL + BL) - from) + RTRS
    BY <1>2, <2>1, <2>3
  <2> QED BY <1>4, <2>2, <2>3, <2>4, SpacedBySibling
<1>8. Spaces(std, "WR", "WR")
  <2>1. Gap("WR", "WR", BL) \in std.timing[1]
    BY <1>2, <1>3 DEF LPDDR4Timing, LPDDR3Timing, Same
  <2> QED BY <1>4, <2>1, WritesSpaced
<1>9. \A cmd \in {"RD", "WR"} : std.scope[cmd] >= Rank
  BY <1>1 DEF LPDDR4, Rank
<1>10. std.data \in [RD : Nat, WR : Nat, length : Nat, pause : Nat]
  BY <1>3
<1> QED BY <1>1, <1>5, <1>6, <1>7, <1>8, <1>9, <1>10 DEF SpacesData

\* Pasim's memory is one of the standards, at any speed.
Offered(s) ==
  \/ Standard = DDR3(s) /\ Depth = 2 /\ Times(s, DDR3Times)
  \/ Standard = DDR4(s) /\ Depth = 3 /\ Times(s, DDR4Times)
  \/ Standard = LPDDR3(s) /\ Depth = 2 /\ Times(s, LPDDR3Times)
  \/ Standard = LPDDR4(s) /\ Depth = 2 /\ Times(s, LPDDR4Times)

LEMMA OfferedIsOK ==
  ASSUME NEW s, Offered(s), GeometryOK, RequestsOK
  PROVE  MemoryOK
<1>1. StandardOK(Standard, Depth)
  BY DDR3Standard, DDR4Standard, LPDDR3Standard, LPDDR4Standard DEF Offered
<1> QED BY <1>1 DEF MemoryOK, ChannelOK

\* Whichever DRAM pasim is started with, and whatever its speed, every command keeps every
\* time of its standard to all commands before it.
THEOREM OfferedKeepTimes ==
  ASSUME NEW CONSTANT s, Offered(s), GeometryOK, RequestsOK
  PROVE  Spec => []CommandsKeepApart
BY OfferedIsOK, CommandsKeepTimes

\* And no two transfers meet on the data bus, for DDR3 and DDR4 provided that a burst takes
\* no longer than the distance of column commands and the two cycles read-to-write adds.
THEOREM OfferedNeverCollide ==
  ASSUME NEW CONSTANT s, Offered(s), GeometryOK, RequestsOK,
         Standard = DDR3(s) => s.nBL <= s.nCCD + 2,
         Standard = DDR4(s) => s.nBL <= s.nCCDS + 2
  PROVE  Spec => []DataBusFree
<1>1. SpacesData(Standard)
  BY DDR3SpacesData, DDR4SpacesData, LPDDR3SpacesData, LPDDR4SpacesData DEF Offered
<1> QED BY <1>1, OfferedIsOK, DataNeverCollides
=============================================================================
