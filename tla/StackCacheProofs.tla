-------------------------- MODULE StackCacheProofs --------------------------
(***************************************************************************)
(* Proofs about the block stack cache (block_stack_cache_t, the default of *)
(* the simulator), the lazy one (block_lazy_stack_cache_t) and the aligned *)
(* one (block_aligned_stack_cache_t), for every cache size, stack region,  *)
(* program of enabled instructions, memory latency and instruction-fetch   *)
(* latency: how much each holds, that the lazy pointer is sound, and that  *)
(* each implements the stack of ProgramStack.                              *)
(***************************************************************************)
EXTENDS StackCache, SequenceTheorems, TLAPS

(***************************************************************************)
(* The inductive invariant.  MW has "taken effect" once the instruction is *)
(* done or waits for main memory.                                          *)
(***************************************************************************)
\* Pointers between which a block stack cache can hold words.
InRange(sspill, stop) ==
  /\ stop \in Nat /\ sspill \in stop .. stop + NumBlocks
  /\ sspill <= MaxAddr

\* What prepare computed for the instruction i from the pointers of its DR.
PreparedBy(i) ==
  /\ i.op = "reserve" =>
       /\ i.exSt = i.drSt - i.size /\ i.delta \in 0 .. NumBlocks
       /\ InRange(i.exSs, i.exSt)
  /\ i.op = "free" =>
       /\ i.exSt = i.drSt + i.size /\ i.delta \in 0 .. NumBlocks
       /\ i.delta = 0 => i.exSs = Greater(i.drSs, i.exSt)
       /\ i.delta > 0 =>
            /\ Kind = "ablock" /\ i.drSs <= i.exSt
            /\ i.delta <= i.exSs /\ i.exSs <= i.exSt + i.delta
       /\ InRange(i.exSs, i.exSt)
  /\ i.op = "ensure" =>
       /\ i.exSt = i.drSt /\ i.exSs = i.drSs + i.delta
       /\ i.delta \in Nat
       /\ InRange(i.exSs, i.exSt)
  /\ i.op = "spill" =>
       /\ i.exSt = i.drSt /\ i.delta \in Nat
       /\ i.exSs = Minus(i.drSs, i.delta)
  /\ i.op \notin StackControl => i.exSt = i.drSt /\ i.exSs = i.drSs
  /\ Kind = "ablock" => i.op # "spill" /\ i.exSs % TransferWords = 0

MWInv ==
  /\ mw.op # "next" /\ mw.pred
  /\ InRange(mw.drSs, mw.drSt)
  /\ PreparedBy(mw)

EXInv ==
  /\ ex.pred /\ ~ex.done
  /\ ex.drSs = mw.exSs /\ ex.drSt = mw.exSt
  /\ ss = ex.exSs /\ st = ex.exSt
  /\ ex.op \notin StackControl => ex.exSs = ex.drSs /\ ex.exSt = ex.drSt
  /\ ex.op \in {"free", "ensure"} => ex.drSt + ex.size <= MaxAddr
  /\ Kind = "ablock" => ex.op # "spill"

\* How much the cache and the buffer hold in each phase.
ContentInv ==
  /\ phase = "IDLE" /\ mw.done =>
       Len(content) = mw.exSs - mw.exSt /\ InRange(mw.exSs, mw.exSt)
  /\ phase = "IDLE" /\ ~mw.done => Len(content) = mw.drSs - mw.drSt
  /\ phase = "SPILL" =>
       /\ ~mw.done /\ mw.op \in {"reserve", "spill"}
       /\ Len(content) = mw.exSs - mw.exSt /\ InRange(mw.exSs, mw.exSt)
  /\ phase = "FILL" =>
       /\ ~mw.done /\ mw.op \in {"ensure", "free"} /\ mw.delta > 0
       /\ mw.op = "ensure" => Len(content) = mw.drSs - mw.drSt
       /\ mw.op = "free" => content = <<>>

BufferInv == Len(buffer) <= NumBlocks

\* In the EX half of a cycle the instruction in MW has taken effect, and it is
\* finished unless the pipeline stalls.
TurnInv ==
  turn = "EX" /\ ~fault =>
    /\ phase = "IDLE" => mw.done \/ mw.op = "nop"
    /\ ~stall => phase = "IDLE"

(***************************************************************************)
(* What the later reserve relies on.  The words it evicts without spilling *)
(* them lie at or above the lazy pointer, so memory holds them too, and    *)
(* the next lazy pointer claims no more of the words that stay.  A word is *)
(* named by its distance k from the top before the reserve.                *)
(***************************************************************************)
EvictsCoherent(i) ==
  LET len == i.drSs - i.drSt
  IN  /\ evict \in 0 .. len
      /\ i.exSs = i.drSs - i.delta - evict
      /\ \A k \in len - evict .. len - 1 : k >= lazyPtr
      /\ \A k \in 0 .. len - evict - i.delta - 1 :
           k + i.size >= nextLazy => k >= lazyPtr

\* The reserve in MW has not yet taken effect.
ReservePending == mw.op = "reserve" /\ ~mw.done /\ phase = "IDLE"

\* EX leaves Next_Lazy_pointer and Num_blocks_to_evict behind, and the MW stage
\* of the same instruction takes them up, cycles later.
HandOver ==
  /\ evict # 0 =>
       \/ /\ ex.op = "reserve"
          /\ evict = LazyBlocksToEvict(ex.size, ex.drSs, ex.drSt, lazyPtr, 0)
       \/ ReservePending
  /\ ex.op \in StackControl =>
       mw.op \notin StackControl /\ (mw.done \/ mw.op = "nop")
  /\ mw.op = "reserve" /\ ~mw.done /\ phase = "SPILL" => lazyPtr = nextLazy
  /\ mw.op = "free" /\ ~mw.done =>
       nextLazy = LazyNextAfterFree(mw.size, mw.drSt, lazyPtr)

LazyInv ==
  /\ lazyPtr \in Nat /\ nextLazy \in Nat
  /\ ReservePending => EvictsCoherent(mw)
  /\ Kind # "lblock" => lazyPtr = 0 /\ nextLazy = 0 /\ evict = 0
  /\ Kind = "lblock" => HandOver

IInv == TypeOK /\ MWInv /\ EXInv /\ ContentInv /\ BufferInv /\ TurnInv

-----------------------------------------------------------------------------
(***************************************************************************)
(* Multiples of the transfer block.                                        *)
(***************************************************************************)
LEMMA RoundedDown == \A n \in Int, m \in Nat \ {0} : (n - (n % m)) % m = 0
  OBVIOUS

LEMMA RoundedUp == \A n \in Int, m \in Nat \ {0} : (n + (m - (n % m))) % m = 0
  OBVIOUS

LEMMA RemainderRange == \A n \in Int, m \in Nat \ {0} : n % m \in 0 .. m - 1
  OBVIOUS

LEMMA QuotientTimes ==
  \A n \in Nat, m \in Nat \ {0} : n \div m \in Nat /\ n = (n \div m) * m + (n % m)
  OBVIOUS

\* Multiples of m are at least m apart.
LEMMA MultiplesApart ==
  ASSUME NEW m \in Nat \ {0}, NEW a \in Nat, NEW b \in Nat,
         a % m = 0, b % m = 0, a < b
  PROVE  a + m <= b
<1> DEFINE p == a \div m
           q == b \div m
<1>1. p \in Nat /\ q \in Nat /\ a = p * m + (a % m) /\ b = q * m + (b % m)
  BY QuotientTimes
<1> HIDE DEF p, q
<1>2. p * m \in Nat /\ q * m \in Nat /\ a = p * m /\ b = q * m
  BY <1>1
<1>3. p < q
  <2> SUFFICES ASSUME q <= p PROVE FALSE
    BY <1>1
  <2>1. \A x, y, z \in Nat : x <= y => x * z <= y * z
    OBVIOUS
  <2>2. q * m <= p * m
    BY <1>1, <2>1
  <2> QED BY <1>2, <2>2
<1>4. p * m + m <= q * m
  <2>1. \A x, y, z \in Nat : x < y => x * z + z <= y * z
    OBVIOUS
  <2> QED BY <1>1, <1>3, <2>1
<1> QED BY <1>2, <1>4

-----------------------------------------------------------------------------
(***************************************************************************)
(* The operations on the words of the cache.                               *)
(***************************************************************************)
\* A function on 1 .. n is a sequence of n elements.
LEMMA FunctionIsSeq ==
  ASSUME NEW S, NEW n \in Nat, NEW f \in [1 .. n -> S]
  PROVE  f \in Seq(S) /\ Len(f) = n
  OBVIOUS

\* Content.resize(n) leaves n words.
LEMMA ResizedType ==
  ASSUME NEW c \in Seq(Val), NEW n \in Nat
  PROVE  Resized(c, n) \in Seq(Val) /\ Len(Resized(c, n)) = n
<1>1. \A k \in 1 .. n : k <= Len(c) => c[k] \in Val
  BY LenProperties, ElementOfSeq
<1>2. Resized(c, n) \in [1 .. n -> Val]
  BY <1>1, StackProgram DEF Resized
<1> QED BY <1>2, FunctionIsSeq

\* Inserting n words at the deep end makes the content n words longer.
LEMMA DeepenedType ==
  ASSUME NEW c \in Seq(Val), NEW n \in Nat
  PROVE  Deepened(c, n) \in Seq(Val) /\ Len(Deepened(c, n)) = n + Len(c)
<1>1. [k \in 1 .. n |-> Zero] \in [1 .. n -> Val]
  BY StackProgram
<1>2. /\ [k \in 1 .. n |-> Zero] \in Seq(Val)
      /\ Len([k \in 1 .. n |-> Zero]) = n
  BY <1>1, FunctionIsSeq
<1> QED BY <1>2, ConcatProperties DEF Deepened

\* Erasing the n deepest words leaves the others.
LEMMA WithoutType ==
  ASSUME NEW c \in Seq(Val), NEW n \in 0 .. Len(c)
  PROVE  Without(c, n) \in Seq(Val) /\ Len(Without(c, n)) = Len(c) - n
<1>1. \A i \in n + 1 .. Len(c) : c[i] \in Val
  BY LenProperties, ElementOfSeq
<1>2. Len(c) \in Nat
  BY LenProperties
<1> QED BY <1>1, <1>2, SubSeqProperties DEF Without

\* What is put into Buffer has as many words as are spilled.
LEMMA DeepestReversedType ==
  ASSUME NEW c \in Seq(Val), NEW n \in 0 .. Len(c)
  PROVE  /\ DeepestReversed(c, n) \in Seq(Val)
         /\ Len(DeepestReversed(c, n)) = n
<1>1. Len(c) \in Nat /\ n \in Nat
  BY LenProperties
<1>2. \A j \in 1 .. n : c[n + 1 - j] \in Val
  BY <1>1, ElementOfSeq
<1>3. DeepestReversed(c, n) \in [1 .. n -> Val]
  BY <1>2 DEF DeepestReversed
<1> QED BY <1>1, <1>3, FunctionIsSeq

\* Filling replaces words and leaves their number alone.
LEMMA FilledFromType ==
  ASSUME NEW c \in Seq(Val), mem \in [Addr -> Val], mw \in Decodings,
         mw.exSs - mw.delta \in Addr, mw.exSs \in Addr
  PROVE  FilledFrom(c) \in Seq(Val) /\ Len(FilledFrom(c)) = Len(c)
<1>1. Len(c) \in Nat /\ \A k \in 1 .. Len(c) : c[k] \in Val
  BY LenProperties, ElementOfSeq
<1>2. mw.exSs \in Int /\ mw.delta \in Int
  BY DEF Decodings
<1>3. \A k \in 1 .. Len(c) : k <= mw.delta => mw.exSs - k \in Addr
  BY <1>1, <1>2, StackProgram DEF Addr
<1>4. FilledFrom(c) \in [1 .. Len(c) -> Val]
  BY <1>1, <1>3 DEF FilledFrom
<1> QED BY <1>1, <1>4, FunctionIsSeq

\* A spill writes words of the stack into main memory.
LEMMA MemoryAfterSpillType ==
  ASSUME NEW buf \in Seq(Val), mem \in [Addr -> Val], mw.exSs \in Int
  PROVE  MemoryAfterSpill(buf) \in [Addr -> Val]
<1>1. Len(buf) \in Nat /\ \A k \in 1 .. Len(buf) : buf[k] \in Val
  BY LenProperties, ElementOfSeq
<1>2. \A a \in mw.exSs .. mw.exSs + Len(buf) - 1 : a - mw.exSs + 1 \in 1 .. Len(buf)
  BY <1>1
<1> QED BY <1>1, <1>2 DEF MemoryAfterSpill

-----------------------------------------------------------------------------
(***************************************************************************)
(* The initial states, and facts about the steps that actions share.       *)
(***************************************************************************)
\* The program is made of enabled instructions, and the cache is block_stack_cache_t.
BlockProgram == Kind = "block" /\ Predicated = FALSE

\* The cache is block_lazy_stack_cache_t, and no stack control instruction
\* directly follows another.
LazyProgram == Kind = "lblock" /\ Predicated = FALSE /\ Adjacent = FALSE

\* The cache is block_aligned_stack_cache_t, whose transfers begin at multiples
\* of the transfer block.  The program has no sspill, which is not aligned; and
\* its sizes leave room for the words that alignment adds to a transfer.
AlignedProgram ==
  /\ Kind = "ablock" /\ Predicated = FALSE /\ "spill" \notin Ops
  /\ MaxSize + TransferWords <= NumBlocks + 1
  /\ StackBase % TransferWords = 0 /\ MaxAddr % TransferWords = 0

BlockCache == BlockProgram \/ LazyProgram \/ AlignedProgram

LEMMA KindOfCache ==
  ASSUME BlockCache
  PROVE  /\ Kind \in {"block", "ablock", "lblock"} /\ Predicated = FALSE
         /\ Kind = "lblock" => Adjacent = FALSE
         /\ Kind = "ablock" => AlignedProgram
  BY DEF BlockCache, BlockProgram, LazyProgram, AlignedProgram

LEMMA InitTypes ==
  ASSUME Init
  PROVE  TypeOK
<1> USE DEF Decoded, Idle, Upcoming, Init
<1>1. mw \in Decodings /\ ex \in Decodings
  BY StackProgram DEF Decodings, Sizes
<1> HIDE DEF Decoded, Idle, Upcoming
<1>2. /\ turn \in {"MW", "EX"} /\ stall \in BOOLEAN /\ fault \in BOOLEAN
      /\ phase \in {"IDLE", "SPILL", "FILL"}
      /\ wait \in {NoRequest} \cup 0 .. MaxLatency
      /\ loaded \in Val \cup {Undef} /\ written \subseteq Addr
  OBVIOUS
<1>3. /\ ifWait \in 0 .. MaxFetch /\ ss \in Int /\ st \in Int
      /\ lazyPtr \in Int /\ nextLazy \in Int /\ evict \in Int /\ proxyTop \in Int
  BY StackProgram DEF Addr
<1>4. content \in Seq(Val) /\ buffer \in Seq(Val)
  BY EmptySeq
<1>5. mem \in [Addr -> Val]
  BY StackProgram
<1> QED BY <1>1, <1>2, <1>3, <1>4, <1>5 DEF TypeOK

LEMMA InitInv ==
  ASSUME BlockCache, Init
  PROVE  IInv
<1>1. TypeOK
  BY InitTypes
<1> USE DEF Decoded, Idle, Upcoming, Init
<1>2. InRange(StackBase, StackBase)
  BY StackProgram, StackSizes DEF InRange
<1>3. MWInv
  BY <1>2, KindOfCache DEF MWInv, PreparedBy, StackControl, AlignedProgram
<1>4. EXInv
  BY DEF EXInv, StackControl
<1>5. ContentInv /\ BufferInv /\ TurnInv
  BY StackProgram, StackSizes DEF ContentInv, BufferInv, TurnInv
<1> QED BY <1>1, <1>3, <1>4, <1>5 DEF IInv

\* The operands are integers.
LEMMA OperandTypes ==
  ASSUME mw \in Decodings
  PROVE  /\ mw.drSs \in Int /\ mw.drSt \in Int /\ mw.exSs \in Int /\ mw.exSt \in Int
         /\ mw.delta \in Int /\ mw.size \in Nat /\ mw.addr \in Nat /\ mw.val \in Val
         /\ mw.done \in BOOLEAN /\ mw.pred \in BOOLEAN
  BY StackProgram DEF Decodings, Sizes

\* Finishing sets MW_Discard and nothing else of the instruction.
LEMMA FinishFields ==
  ASSUME mw \in Decodings, Finish
  PROVE  /\ mw' \in Decodings /\ mw'.done /\ stall' \in BOOLEAN
         /\ mw'.op = mw.op /\ mw'.size = mw.size /\ mw'.pred = mw.pred
         /\ mw'.drSs = mw.drSs /\ mw'.drSt = mw.drSt
         /\ mw'.exSs = mw.exSs /\ mw'.exSt = mw.exSt /\ mw'.delta = mw.delta
<1>1. mw' = [mw EXCEPT !.done = TRUE]
  BY DEF Finish
<1>2. mw' \in Decodings
  BY <1>1 DEF Decodings
<1> QED BY <1>1, <1>2 DEF Finish, Decodings

\* While an instruction is in MW nothing but MW_Discard changes, so what its
\* EX stage prepared, and the operands of the next instruction, stay valid.
LEMMA MWKeepsOperands ==
  ASSUME TypeOK, MWInv, EXInv, Finish \/ Repeat, UNCHANGED <<ex, ss, st>>
  PROVE  MWInv' /\ EXInv' /\ mw' \in Decodings
<1>1. CASE Repeat
  BY <1>1 DEF Repeat, MWInv, EXInv, TypeOK, PreparedBy, InRange
<1>2. CASE Finish
  <2>1. mw \in Decodings
    BY DEF TypeOK
  <2> QED BY <1>2, <2>1, FinishFields DEF MWInv, EXInv, PreparedBy, InRange
<1> QED BY <1>1, <1>2

\* Answer leaves the number of ticks in its range.
LEMMA AnswerType ==
  ASSUME TypeOK, NEW ready \in BOOLEAN, Answer(ready)
  PROVE  wait' \in {NoRequest} \cup 0 .. MaxLatency
  BY StackProgram DEF TypeOK, Answer, NoRequest

\* A call that spills buf either finishes or keeps buf in Buffer and stalls.
LEMMA SpillCallOutcome ==
  ASSUME TypeOK, NEW buf \in Seq(Val), SpillCall(buf)
  PROVE  /\ mem' \in [Addr -> Val]
         /\ wait' \in {NoRequest} \cup 0 .. MaxLatency
         /\ \/ phase' = "IDLE" /\ buffer' = <<>> /\ Finish
            \/ phase' = "SPILL" /\ buffer' = buf /\ Repeat
<1>1. PICK ready \in BOOLEAN :
        /\ Answer(ready)
        /\ IF ready
           THEN mem' = MemoryAfterSpill(buf) /\ phase' = "IDLE" /\ buffer' = <<>> /\ Finish
           ELSE mem' = mem /\ phase' = "SPILL" /\ buffer' = buf /\ Repeat
  BY DEF SpillCall
<1>2. mw.exSs \in Int
  BY DEF TypeOK, Decodings
<1>3. MemoryAfterSpill(buf) \in [Addr -> Val]
  BY <1>2, MemoryAfterSpillType DEF TypeOK
<1> QED BY <1>1, <1>3, AnswerType DEF TypeOK

\* An instruction that finishes with the words its pointers enclose in the cache.
LEMMA EffectFinished ==
  ASSUME mw \in Decodings, NumBlocks \in Nat,
         Finish, phase' = "IDLE", Len(buffer') <= NumBlocks,
         Len(content') = mw.exSs - mw.exSt, InRange(mw.exSs, mw.exSt)
  PROVE  ContentInv' /\ BufferInv' /\ TurnInv'
<1>1. /\ mw'.done /\ mw'.op = mw.op
      /\ mw'.exSs = mw.exSs /\ mw'.exSt = mw.exSt
  BY FinishFields
<1>2. InRange(mw.exSs, mw.exSt)'
  BY <1>1 DEF InRange
<1> QED BY <1>1, <1>2 DEF ContentInv, BufferInv, TurnInv

\* An instruction whose spill waits for main memory.
LEMMA EffectSpilling ==
  ASSUME mw \in Decodings, mw.op \in {"reserve", "spill"}, ~mw.done,
         Repeat, phase' = "SPILL", Len(buffer') <= NumBlocks,
         Len(content') = mw.exSs - mw.exSt, InRange(mw.exSs, mw.exSt)
  PROVE  ContentInv' /\ BufferInv' /\ TurnInv'
<1>1. mw' = mw /\ stall'
  BY DEF Repeat
<1>2. InRange(mw.exSs, mw.exSt)'
  BY <1>1 DEF InRange
<1> QED BY <1>1, <1>2 DEF ContentInv, BufferInv, TurnInv

\* The variables an MW action of these caches never changes.
MWFrame == UNCHANGED <<ex, ss, st, ifWait, nextLazy, proxyTop, fault>>

\* The values an MW action gives to the others.
MWTypes ==
  /\ turn' = "EX"
  /\ content' \in Seq(Val) /\ buffer' \in Seq(Val)
  /\ lazyPtr' \in Int /\ evict' \in Int
  /\ mem' \in [Addr -> Val]
  /\ wait' \in {NoRequest} \cup 0 .. MaxLatency
  /\ loaded' \in Val \cup {Undef}
  /\ written' \subseteq Addr
  /\ Len(buffer') <= NumBlocks

LEMMA MWTypeOK ==
  ASSUME TypeOK, MWFrame, MWTypes, mw' \in Decodings, stall' \in BOOLEAN,
         phase' \in {"IDLE", "SPILL", "FILL"}
  PROVE  TypeOK'
  BY DEF TypeOK, MWFrame, MWTypes

\* An MW action that finishes the instruction preserves the invariant when it
\* leaves in the cache the words between the pointers EX computed.
LEMMA FinishingStep ==
  ASSUME IInv, MWFrame, MWTypes, Finish, phase' = "IDLE",
         Len(content') = mw.exSs - mw.exSt, InRange(mw.exSs, mw.exSt)
  PROVE  IInv'
<1>1. /\ TypeOK /\ MWInv /\ EXInv /\ mw \in Decodings /\ UNCHANGED <<ex, ss, st>>
      /\ Len(buffer') <= NumBlocks
  BY DEF IInv, TypeOK, MWFrame, MWTypes
<1>2. MWInv' /\ EXInv' /\ mw' \in Decodings
  BY <1>1, MWKeepsOperands
<1>3. TypeOK'
  BY <1>1, <1>2, MWTypeOK, FinishFields
<1>4. ContentInv' /\ BufferInv' /\ TurnInv'
  BY <1>1, EffectFinished, StackSizes
<1> QED BY <1>2, <1>3, <1>4 DEF IInv

\* An MW action that spills buf preserves the invariant when what remains in
\* the cache are the words between the pointers EX computed.
LEMMA SpillingStep ==
  ASSUME IInv, MWFrame, NEW buf \in Seq(Val), Len(buf) <= NumBlocks, SpillCall(buf),
         mw.op \in {"reserve", "spill"}, ~mw.done, turn' = "EX",
         content' \in Seq(Val), Len(content') = mw.exSs - mw.exSt,
         InRange(mw.exSs, mw.exSt),
         lazyPtr' \in Int, evict' \in Int, UNCHANGED <<loaded, written>>
  PROVE  IInv'
<1>1. TypeOK /\ MWInv /\ EXInv /\ mw \in Decodings /\ UNCHANGED <<ex, ss, st>>
  BY DEF IInv, TypeOK, MWFrame
<1>2. /\ mem' \in [Addr -> Val] /\ wait' \in {NoRequest} \cup 0 .. MaxLatency
      /\ \/ phase' = "IDLE" /\ buffer' = <<>> /\ Finish
         \/ phase' = "SPILL" /\ buffer' = buf /\ Repeat
  BY <1>1, SpillCallOutcome
<1>3. buffer' \in Seq(Val) /\ Len(buffer') <= NumBlocks
  <2>1. <<>> \in Seq(Val) /\ Len(<<>>) = 0
    BY EmptySeq
  <2>2. CASE buffer' = <<>>
    <3>1. buffer' \in Seq(Val) /\ Len(buffer') = 0
      BY <2>1, <2>2, Zenon
    <3> QED BY <3>1, StackSizes
  <2>3. CASE buffer' = buf
    BY <2>3
  <2> QED BY <1>2, <2>2, <2>3
<1>4. MWTypes
  BY <1>1, <1>2, <1>3 DEF MWTypes, TypeOK
<1>5. CASE Finish /\ phase' = "IDLE"
  BY <1>4, <1>5, FinishingStep
<1>6. CASE Repeat /\ phase' = "SPILL"
  <2>1. MWInv' /\ EXInv' /\ mw' \in Decodings
    BY <1>1, <1>6, MWKeepsOperands
  <2>2. stall' \in BOOLEAN
    BY <1>6 DEF Repeat
  <2>3. TypeOK'
    BY <1>1, <1>4, <1>6, <2>1, <2>2, MWTypeOK
  <2>4. ContentInv' /\ BufferInv' /\ TurnInv'
    BY <1>1, <1>3, <1>6, EffectSpilling
  <2> QED BY <2>1, <2>3, <2>4 DEF IInv
<1> QED BY <1>2, <1>5, <1>6

-----------------------------------------------------------------------------
(***************************************************************************)
(* Every MW action of the three block caches preserves the invariant.      *)
(***************************************************************************)
\* What block_lazy_stack_cache_t::reserve leaves of the content before the block
\* cache's reserve runs.
LEMMA EvictedWords ==
  ASSUME BlockCache, LazyInv, content \in Seq(Val), evict \in 0 .. Len(content)
  PROVE  Evicted \in Seq(Val) /\ Len(Evicted) = Len(content) - evict
<1>1. CASE Kind = "lblock"
  BY <1>1, WithoutType DEF Evicted
<1>2. CASE Kind # "lblock"
  <2>1. Evicted = content /\ evict = 0
    BY <1>2 DEF Evicted, LazyInv
  <2>2. Len(content) \in Nat
    BY LenProperties
  <2> QED BY <2>1, <2>2
<1> QED BY <1>1, <1>2, KindOfCache

\* Nothing is evicted in the calls repeated while the spill waits.
LEMMA SpillingEvictsNothing ==
  ASSUME BlockCache, IInv, LazyInv, ReserveSpilling
  PROVE  content' = content
<1>1. content' = Evicted /\ mw.op = "reserve" /\ ~mw.done /\ phase = "SPILL"
  BY DEF ReserveSpilling, Executing
<1>2. CASE Kind # "lblock"
  BY <1>1, <1>2 DEF Evicted
<1>3. CASE Kind = "lblock"
  <2>1. evict = 0
    BY <1>1, <1>3 DEF LazyInv, HandOver, ReservePending, StackControl
  <2>2. content' = SubSeq(content, 1, Len(content)) /\ content \in Seq(Val)
    BY <1>1, <1>3, <2>1 DEF Evicted, Without, IInv, TypeOK
  <2> QED BY <2>2
<1> QED BY <1>2, <1>3, KindOfCache

LEMMA ReserveIdleInv ==
  ASSUME BlockCache, IInv, LazyInv, ReserveIdle
  PROVE  IInv'
<1> DEFINE kept  == Evicted
           grown == Resized(kept, Len(kept) + mw.size)
<1>1. /\ TypeOK /\ mw \in Decodings /\ content \in Seq(Val)
      /\ Len(content) \in Nat /\ mw.size \in Nat
  <2>1. TypeOK /\ mw \in Decodings /\ content \in Seq(Val)
    BY DEF IInv, TypeOK
  <2>2. Len(content) \in Nat
    BY <2>1, LenProperties
  <2>3. mw.size \in Nat
    BY <2>1, OperandTypes
  <2> QED BY <2>1, <2>2, <2>3
<1>2. /\ mw.op = "reserve" /\ ~mw.done /\ turn' = "EX" /\ phase = "IDLE"
      /\ MWFrame /\ UNCHANGED <<loaded, written>>
      /\ lazyPtr' \in {lazyPtr, nextLazy} /\ evict' \in {0, evict}
  BY KindOfCache DEF ReserveIdle, Executing, LazyCommit, ReserveSetsTop, MWFrame
<1>0. lazyPtr' \in Int /\ evict' \in Int
  BY <1>2 DEF IInv, TypeOK
<1>4. /\ Len(content) = mw.drSs - mw.drSt /\ mw.delta \in 0 .. NumBlocks
      /\ mw.exSt = mw.drSt - mw.size /\ mw.exSs = mw.drSs - mw.delta - evict
      /\ InRange(mw.exSs, mw.exSt) /\ evict \in 0 .. Len(content)
  BY <1>2 DEF IInv, ContentInv, MWInv, PreparedBy, LazyInv, ReservePending, EvictsCoherent
<1>3. grown \in Seq(Val) /\ Len(grown) = Len(content) - evict + mw.size
  <2>1. kept \in Seq(Val) /\ Len(kept) = Len(content) - evict
    BY <1>1, <1>4, EvictedWords
  <2> HIDE DEF kept
  <2>2. Len(kept) + mw.size \in Nat
    BY <1>1, <1>4, <2>1
  <2> QED BY <2>1, <2>2, ResizedType
<1> HIDE DEF grown
<1>5. /\ Len(grown) - mw.delta = mw.exSs - mw.exSt
  <2>1. /\ mw.drSs \in Int /\ mw.drSt \in Int /\ mw.exSs \in Int /\ mw.exSt \in Int
        /\ mw.delta \in Int
    BY <1>1, OperandTypes
  <2>2. Len(grown) - mw.delta = (mw.drSs - mw.drSt - evict + mw.size) - mw.delta
    BY <1>3, <1>4
  <2>3. mw.exSs - mw.exSt = (mw.drSs - mw.delta - evict) - (mw.drSt - mw.size)
    BY <1>4
  <2>4. evict \in Int
    BY <1>4
  <2> QED BY <1>1, <2>1, <2>2, <2>3, <2>4
<1>6. CASE mw.delta = 0
  <2>1. content' = grown /\ NoTransfer
    BY <1>6, KindOfCache DEF ReserveIdle, grown
  <2>2. phase' = "IDLE" /\ Finish /\ UNCHANGED <<buffer, mem, wait>>
    BY <1>2, <2>1 DEF NoTransfer
  <2>3. MWTypes
    BY <1>0, <1>1, <1>2, <1>3, <2>1, <2>2 DEF MWTypes, TypeOK, IInv, BufferInv
  <2>4. Len(content') = mw.exSs - mw.exSt
    <3>1. Len(grown) \in Int
      BY <1>3, LenProperties
    <3> QED BY <1>5, <1>6, <2>1, <3>1
  <2> QED BY <1>2, <1>4, <2>2, <2>3, <2>4, FinishingStep
<1>7. CASE mw.delta # 0
  <2>1. /\ content' = Without(grown, mw.delta)
        /\ SpillCall(DeepestReversed(grown, mw.delta))
        /\ mw.delta \in 0 .. Len(grown)
    BY <1>3, <1>4, <1>7, KindOfCache DEF ReserveIdle, grown
  <2>2. content' \in Seq(Val) /\ Len(content') = mw.exSs - mw.exSt
    BY <1>3, <1>5, <2>1, WithoutType
  <2>3. /\ DeepestReversed(grown, mw.delta) \in Seq(Val)
        /\ Len(DeepestReversed(grown, mw.delta)) <= NumBlocks
    BY <1>3, <1>4, <2>1, DeepestReversedType, StackSizes
  <2> QED BY <1>0, <1>2, <1>4, <2>1, <2>2, <2>3, SpillingStep
<1> QED BY <1>6, <1>7

LEMMA ReserveSpillingInv ==
  ASSUME BlockCache, IInv, LazyInv, ReserveSpilling
  PROVE  IInv'
<1>1. /\ mw.op = "reserve" /\ ~mw.done /\ turn' = "EX" /\ phase = "SPILL"
      /\ MWFrame /\ SpillCall(buffer) /\ UNCHANGED <<loaded, written>>
      /\ lazyPtr' \in {lazyPtr, nextLazy} /\ evict' \in {0, evict}
  BY KindOfCache DEF ReserveSpilling, Executing, LazyCommit, MWFrame
<1>3. content' = content
  BY SpillingEvictsNothing
<1>4. lazyPtr' \in Int /\ evict' \in Int
  BY <1>1 DEF IInv, TypeOK
<1>2. /\ Len(content) = mw.exSs - mw.exSt /\ InRange(mw.exSs, mw.exSt)
      /\ Len(buffer) <= NumBlocks
      /\ content \in Seq(Val) /\ buffer \in Seq(Val)
  BY <1>1 DEF IInv, ContentInv, BufferInv, TypeOK
<1> QED BY <1>1, <1>2, <1>3, <1>4, SpillingStep

LEMMA BlockSpillInv ==
  ASSUME BlockCache, IInv, BlockSpill
  PROVE  IInv'
<1>1. /\ mw.op = "spill" /\ ~mw.done /\ turn' = "EX" /\ MWFrame
      /\ UNCHANGED <<lazyPtr, evict, loaded, written>>
  BY DEF BlockSpill, Executing, lazyVars, MWFrame
<1>2. /\ TypeOK /\ mw \in Decodings /\ content \in Seq(Val) /\ buffer \in Seq(Val)
      /\ Len(content) \in Nat /\ Len(buffer) <= NumBlocks
      /\ lazyPtr' \in Int /\ evict' \in Int
  BY <1>1, LenProperties DEF IInv, TypeOK, BufferInv
<1>3. /\ InRange(mw.drSs, mw.drSt) /\ mw.exSt = mw.drSt
      /\ mw.exSs = Minus(mw.drSs, mw.delta) /\ mw.delta \in Nat
  BY <1>1 DEF IInv, MWInv, PreparedBy
<1>4. CASE phase = "SPILL" /\ content' = content /\ SpillCall(buffer)
  <2>1. Len(content) = mw.exSs - mw.exSt /\ InRange(mw.exSs, mw.exSt)
    BY <1>4 DEF IInv, ContentInv
  <2> QED BY <1>1, <1>2, <1>4, <2>1, SpillingStep
<1>5. CASE /\ phase = "IDLE" /\ mw.delta \in 0 .. Len(content)
  <2>1. Len(content) = mw.drSs - mw.drSt
    BY <1>1, <1>5 DEF IInv, ContentInv
  <2>2. mw.drSs \in Nat /\ mw.drSt \in Nat /\ mw.drSs - mw.drSt \in 0 .. NumBlocks
    BY <1>3, StackSizes DEF InRange
  <2>3. mw.delta <= mw.drSs /\ mw.exSs = mw.drSs - mw.delta
    BY <1>3, <1>5, <2>1, <2>2 DEF Minus
  <2>4. /\ Len(content) - mw.delta = mw.exSs - mw.exSt
        /\ InRange(mw.exSs, mw.exSt) /\ mw.delta <= NumBlocks
    BY <1>3, <1>5, <2>1, <2>2, <2>3, StackSizes, StackProgram DEF InRange
  <2>5. CASE mw.delta = 0 /\ content' = content /\ NoTransfer
    <3>1. phase' = "IDLE" /\ Finish /\ UNCHANGED <<buffer, mem, wait>>
      BY <1>5, <2>5 DEF NoTransfer
    <3>2. MWTypes
      BY <1>1, <1>2, <2>5, <3>1 DEF MWTypes, TypeOK
    <3>3. Len(content') = mw.exSs - mw.exSt
      BY <1>2, <2>4, <2>5
    <3> QED BY <1>1, <2>4, <3>1, <3>2, <3>3, FinishingStep
  <2>6. CASE /\ content' = Without(content, mw.delta)
             /\ SpillCall(DeepestReversed(content, mw.delta))
    <3>1. content' \in Seq(Val) /\ Len(content') = mw.exSs - mw.exSt
      BY <1>2, <1>5, <2>4, <2>6, WithoutType
    <3>2. /\ DeepestReversed(content, mw.delta) \in Seq(Val)
          /\ Len(DeepestReversed(content, mw.delta)) <= NumBlocks
      BY <1>2, <1>5, <2>4, DeepestReversedType
    <3> QED BY <1>1, <1>2, <2>4, <2>6, <3>1, <3>2, SpillingStep
  <2> QED BY <1>5, <2>5, <2>6 DEF BlockSpill
<1> QED BY <1>2, <1>4, <1>5 DEF BlockSpill

LEMMA BlockEnsureInv ==
  ASSUME BlockCache, IInv, BlockEnsure
  PROVE  IInv'
<1>1. /\ mw.op = "ensure" /\ ~mw.done /\ turn' = "EX" /\ MWFrame
      /\ UNCHANGED <<lazyPtr, evict, loaded, written>>
  BY DEF BlockEnsure, Executing, lazyVars, MWFrame
<1>2. /\ TypeOK /\ MWInv /\ EXInv /\ mw \in Decodings /\ UNCHANGED <<ex, ss, st>>
      /\ content \in Seq(Val) /\ buffer \in Seq(Val)
      /\ Len(content) \in Nat /\ Len(buffer) <= NumBlocks
      /\ mem \in [Addr -> Val]
  BY <1>1, LenProperties DEF IInv, TypeOK, BufferInv, MWFrame
<1>3. /\ InRange(mw.drSs, mw.drSt) /\ InRange(mw.exSs, mw.exSt)
      /\ mw.exSt = mw.drSt /\ mw.exSs = mw.drSs + mw.delta /\ mw.delta \in Nat
  BY <1>1 DEF IInv, MWInv, PreparedBy
<1>4. /\ phase \in {"IDLE", "FILL"} /\ Len(content) = mw.drSs - mw.drSt
  BY <1>1, <1>2 DEF IInv, ContentInv, TypeOK
<1>5. /\ mw.drSs \in Nat /\ mw.drSt \in Nat /\ mw.drSt <= mw.drSs
      /\ mw.exSs \in Nat /\ mw.exSt \in Nat /\ mw.exSs <= MaxAddr
  BY <1>3, StackSizes DEF InRange
<1>6. CASE mw.delta = 0
  <2>1. content' = content /\ NoTransfer
    BY <1>6 DEF BlockEnsure
  <2>2. phase' = "IDLE"
    BY <1>4, <1>6, <2>1 DEF NoTransfer, IInv, ContentInv
  <2>3. MWTypes /\ Finish
    BY <1>1, <1>2, <2>1 DEF NoTransfer, MWTypes, TypeOK
  <2>4. Len(content') = mw.exSs - mw.exSt
    BY <1>3, <1>4, <1>5, <1>6, <2>1
  <2> QED BY <1>1, <1>3, <2>2, <2>3, <2>4, FinishingStep
<1>7. CASE mw.delta # 0
  <2> DEFINE newSize == IF mw.exSs > mw.exSt THEN mw.exSs - mw.exSt ELSE 0
             missing == IF newSize > Len(content) THEN newSize - Len(content) ELSE 0
             deeper  == Deepened(content, missing)
  <2>1. missing \in Nat /\ missing + Len(content) = mw.exSs - mw.exSt
    BY <1>2, <1>3, <1>4, <1>5, <1>7
  <2>2. deeper \in Seq(Val) /\ Len(deeper) = mw.exSs - mw.exSt
    BY <1>2, <2>1, DeepenedType
  <2> HIDE DEF missing
  <2>3. PICK ready \in BOOLEAN :
          /\ Answer(ready)
          /\ IF ready
             THEN /\ content' = FilledFrom(deeper)
                  /\ phase' = "IDLE" /\ Finish
             ELSE content' = content /\ phase' = "FILL" /\ Repeat
          /\ UNCHANGED <<buffer, mem>>
    BY <1>7 DEF BlockEnsure, missing
  <2> HIDE DEF deeper
  <2>4. wait' \in {NoRequest} \cup 0 .. MaxLatency
    BY <1>2, <2>3, AnswerType
  <2>5. CASE ready
    <3>1. mw.exSs - mw.delta \in Addr /\ mw.exSs \in Addr
      BY <1>3, <1>5, StackProgram DEF Addr
    <3>2. /\ content' = FilledFrom(deeper) /\ phase' = "IDLE" /\ Finish
      BY <2>3, <2>5
    <3>3. content' \in Seq(Val) /\ Len(content') = mw.exSs - mw.exSt
      BY <1>2, <2>2, <3>1, <3>2, FilledFromType
    <3>4. MWTypes
      BY <1>1, <1>2, <2>3, <2>4, <3>3 DEF MWTypes, TypeOK
    <3> QED BY <1>1, <1>3, <3>2, <3>3, <3>4, FinishingStep
  <2>6. CASE ~ready
    <3>1. content' = content /\ phase' = "FILL" /\ Repeat /\ mw' = mw
      BY <2>3, <2>6 DEF Repeat
    <3>2. MWInv' /\ EXInv' /\ mw' \in Decodings
      BY <1>2, <3>1, MWKeepsOperands
    <3>3. TypeOK'
      <4>1. MWTypes
        BY <1>1, <1>2, <2>3, <2>4, <3>1 DEF MWTypes, TypeOK
      <4>2. stall' \in BOOLEAN
        BY <3>1 DEF Repeat
      <4> QED BY <1>1, <1>2, <3>1, <3>2, <4>1, <4>2, MWTypeOK
    <3>4. ContentInv'
      BY <1>1, <1>3, <1>4, <1>7, <3>1 DEF ContentInv
    <3>5. BufferInv' /\ TurnInv'
      BY <1>2, <2>3, <3>1 DEF BufferInv, TurnInv, Repeat
    <3> QED BY <3>2, <3>3, <3>4, <3>5 DEF IInv
  <2> QED BY <2>5, <2>6
<1> QED BY <1>6, <1>7

LEMMA FreeWithoutFillInv ==
  ASSUME BlockCache, IInv, FreeWithoutFill
  PROVE  IInv'
<1>1. /\ mw.op = "free" /\ ~mw.done /\ mw.delta = 0 /\ turn' = "EX" /\ MWFrame /\ NoTransfer
      /\ content' = IF Len(content) <= mw.size THEN <<>>
                    ELSE Resized(content, Len(content) - mw.size)
      /\ lazyPtr' \in {lazyPtr, nextLazy} /\ UNCHANGED <<evict, loaded>>
  BY KindOfCache DEF FreeWithoutFill, Executing, LazyCommit, MWFrame
<1>2. /\ mw \in Decodings /\ content \in Seq(Val) /\ Len(content) \in Nat
      /\ Len(buffer) <= NumBlocks /\ written' \subseteq Addr
  BY LenProperties DEF IInv, TypeOK, BufferInv, FreeWithoutFill, StillPromised
<1>3. /\ InRange(mw.drSs, mw.drSt) /\ InRange(mw.exSs, mw.exSt)
      /\ mw.exSt = mw.drSt + mw.size /\ mw.exSs = Greater(mw.drSs, mw.exSt)
  BY <1>1 DEF IInv, MWInv, PreparedBy
<1>4. phase = "IDLE" /\ Len(content) = mw.drSs - mw.drSt
  BY <1>1 DEF IInv, ContentInv, TypeOK
<1>5. /\ mw.drSs \in Nat /\ mw.drSt \in Nat /\ mw.exSs \in Int /\ mw.exSt \in Int
      /\ mw.size \in Nat
  BY <1>2, <1>3, OperandTypes, StackSizes DEF InRange
<1>6. content' \in Seq(Val) /\ Len(content') = mw.exSs - mw.exSt
  <2>1. CASE Len(content) <= mw.size
    <3>1. mw.exSs - mw.exSt = 0
      BY <1>3, <1>4, <1>5, <2>1 DEF Greater
    <3>2. content' = <<>>
      BY <1>1, <2>1
    <3>3. <<>> \in Seq(Val) /\ Len(<<>>) = 0
      BY EmptySeq
    <3> QED BY <3>1, <3>2, <3>3
  <2>2. CASE ~(Len(content) <= mw.size)
    <3>1. Len(content) - mw.size \in Nat
      BY <1>2, <1>5, <2>2
    <3>2. mw.exSs - mw.exSt = Len(content) - mw.size
      BY <1>3, <1>4, <1>5, <2>2 DEF Greater
    <3>3. content' = Resized(content, Len(content) - mw.size)
      BY <1>1, <2>2
    <3> QED BY <1>2, <3>1, <3>2, <3>3, ResizedType
  <2> QED BY <2>1, <2>2
<1>7. MWTypes /\ Finish /\ phase' = "IDLE"
  BY <1>1, <1>2, <1>4, <1>6 DEF MWTypes, NoTransfer, IInv, TypeOK
<1> QED BY <1>1, <1>3, <1>6, <1>7, FinishingStep

\* The words block_aligned_stack_cache_t::free leaves after its fill: those of
\* memory below the new spill pointer, down to the new top.
LEMMA FillOfFree ==
  ASSUME mw \in Decodings, mem \in [Addr -> Val],
         mw.exSs - mw.delta \in Addr, mw.exSs \in Addr, mw.delta \in Nat, NEW n \in 0 .. mw.delta
  PROVE  LET c == Resized(FilledFrom(Deepened(<<>>, mw.delta)), n)
         IN  /\ c \in Seq(Val) /\ Len(c) = n
             /\ \A k \in 1 .. n : c[k] = mem[mw.exSs - k]
<1> DEFINE zeros == Deepened(<<>>, mw.delta)
           block == FilledFrom(zeros)
<1>1. zeros \in Seq(Val) /\ Len(zeros) = mw.delta
  <2>1. <<>> \in Seq(Val) /\ Len(<<>>) = 0
    BY EmptySeq
  <2>2. zeros \in Seq(Val) /\ Len(zeros) = mw.delta + 0
    BY <2>1, DeepenedType
  <2> QED BY <2>2
<1> HIDE DEF zeros
<1>2. block \in Seq(Val) /\ Len(block) = mw.delta
  BY <1>1, FilledFromType
<1>3. \A k \in 1 .. mw.delta : block[k] = mem[mw.exSs - k]
  BY <1>1 DEF FilledFrom
<1> HIDE DEF block
<1>4. n \in Nat /\ \A k \in 1 .. n : k \in 1 .. mw.delta /\ k <= Len(block)
  BY <1>2
<1>5. Resized(block, n) \in Seq(Val) /\ Len(Resized(block, n)) = n
  BY <1>2, <1>4, ResizedType
<1>6. \A k \in 1 .. n : Resized(block, n)[k] = mem[mw.exSs - k]
  BY <1>3, <1>4 DEF Resized
<1> QED BY <1>5, <1>6 DEF block, zeros

\* The operands of a free that fills one transfer block.
LEMMA FillingFree ==
  ASSUME IInv, FreeWithFill
  PROVE  /\ mw.op = "free" /\ ~mw.done /\ mw.delta \in Nat /\ mw.delta > 0
         /\ mw.exSt = mw.drSt + mw.size /\ mw.drSs <= mw.exSt
         /\ mw.exSs \in Nat /\ mw.exSt \in Nat /\ mw.exSt <= mw.exSs
         /\ InRange(mw.exSs, mw.exSt)
         /\ ReservedBlocks(mw.exSs, mw.exSt) = mw.exSs - mw.exSt
         /\ mw.exSs - mw.exSt \in 0 .. mw.delta
         /\ mw.exSs - mw.delta \in Addr /\ mw.exSs \in Addr
<1>1. mw.op = "free" /\ ~mw.done /\ mw.delta > 0
  BY DEF FreeWithFill, Executing
<1>2. /\ mw.exSt = mw.drSt + mw.size /\ mw.delta \in 0 .. NumBlocks
      /\ mw.drSs <= mw.exSt /\ mw.delta <= mw.exSs /\ mw.exSs <= mw.exSt + mw.delta
      /\ InRange(mw.exSs, mw.exSt)
  BY <1>1 DEF IInv, MWInv, PreparedBy
<1>3. /\ mw.exSs \in Nat /\ mw.exSt \in Nat /\ mw.exSt <= mw.exSs /\ mw.exSs <= MaxAddr
      /\ mw.delta \in Nat /\ MaxAddr \in Nat
  BY <1>2, StackSizes, StackProgram DEF InRange
<1>4. ReservedBlocks(mw.exSs, mw.exSt) = mw.exSs - mw.exSt
  BY <1>3 DEF ReservedBlocks, Minus
<1>5. /\ mw.exSs - mw.exSt \in 0 .. mw.delta
      /\ mw.exSs - mw.delta \in Addr /\ mw.exSs \in Addr
  BY <1>2, <1>3 DEF Addr
<1> QED BY <1>1, <1>2, <1>3, <1>4, <1>5

\* sfree of the aligned cache, when it reads a block from memory.
LEMMA FreeWithFillInv ==
  ASSUME BlockCache, IInv, FreeWithFill
  PROVE  IInv'
<1>1. /\ turn' = "EX" /\ MWFrame /\ UNCHANGED <<lazyPtr, evict, buffer, mem, loaded>>
      /\ UNCHANGED <<ex, ss, st>>
  BY DEF FreeWithFill, Executing, lazyVars, MWFrame
<1>2. /\ TypeOK /\ MWInv /\ EXInv /\ mw \in Decodings /\ mem \in [Addr -> Val]
      /\ Len(buffer) <= NumBlocks /\ written' \subseteq Addr
  BY DEF IInv, TypeOK, BufferInv, FreeWithFill, StillPromised
<1>3. /\ mw.op = "free" /\ ~mw.done /\ mw.delta \in Nat /\ mw.delta > 0
      /\ InRange(mw.exSs, mw.exSt)
      /\ ReservedBlocks(mw.exSs, mw.exSt) = mw.exSs - mw.exSt
      /\ mw.exSs - mw.exSt \in 0 .. mw.delta
      /\ mw.exSs - mw.delta \in Addr /\ mw.exSs \in Addr
  BY FillingFree
<1> DEFINE filled == Resized(FilledFrom(Deepened(<<>>, mw.delta)), mw.exSs - mw.exSt)
<1>4. PICK ready \in BOOLEAN :
        /\ Answer(ready)
        /\ IF ready THEN content' = filled /\ phase' = "IDLE" /\ Finish
                    ELSE content' = <<>> /\ phase' = "FILL" /\ Repeat
  BY <1>3 DEF FreeWithFill
<1>5. filled \in Seq(Val) /\ Len(filled) = mw.exSs - mw.exSt
  BY <1>2, <1>3, FillOfFree
<1> HIDE DEF filled
<1>6. wait' \in {NoRequest} \cup 0 .. MaxLatency
  BY <1>2, <1>4, AnswerType
<1>7. content' \in Seq(Val)
  BY <1>4, <1>5, EmptySeq
<1>8. MWTypes
  BY <1>1, <1>2, <1>6, <1>7 DEF MWTypes, TypeOK
<1>9. CASE ready
  <2>1. Len(content') = mw.exSs - mw.exSt /\ phase' = "IDLE" /\ Finish
    BY <1>4, <1>5, <1>9
  <2> QED BY <1>1, <1>3, <1>8, <2>1, FinishingStep
<1>10. CASE ~ready
  <2>1. content' = <<>> /\ phase' = "FILL" /\ Repeat /\ mw' = mw
    BY <1>4, <1>10 DEF Repeat
  <2>2. MWInv' /\ EXInv' /\ mw' \in Decodings
    BY <1>1, <1>2, <2>1, MWKeepsOperands
  <2>3. TypeOK'
    <3>1. stall' \in BOOLEAN
      BY <2>1 DEF Repeat
    <3> QED BY <1>1, <1>2, <1>8, <2>1, <2>2, <3>1, MWTypeOK
  <2>4. ContentInv'
    BY <1>3, <2>1 DEF ContentInv
  <2>5. BufferInv' /\ TurnInv'
    BY <1>1, <1>2, <2>1 DEF BufferInv, TurnInv, Repeat
  <2> QED BY <2>2, <2>3, <2>4, <2>5 DEF IInv
<1> QED BY <1>9, <1>10

\* Loads and stores leave the number of words in the cache alone.
LEMMA AccessInv ==
  ASSUME BlockCache, IInv, Load \/ Store
  PROVE  IInv'
<1>1. /\ mw.op \notin StackControl /\ ~mw.done /\ turn' = "EX" /\ MWFrame
      /\ NoTransfer /\ evict' = evict /\ mw.addr < Len(content)
      /\ lazyPtr' \in {lazyPtr, Greater(lazyPtr, mw.addr + 1)}
  BY KindOfCache DEF Load, Store, Executing, MWFrame, lazyVars, StackControl
<1>2. /\ TypeOK /\ mw \in Decodings /\ content \in Seq(Val) /\ Len(content) \in Nat
      /\ Len(buffer) <= NumBlocks /\ mw.addr \in Nat /\ mw.val \in Val
  BY LenProperties, OperandTypes DEF IInv, TypeOK, BufferInv
<1>3. /\ InRange(mw.drSs, mw.drSt) /\ mw.exSs = mw.drSs /\ mw.exSt = mw.drSt
  BY <1>1 DEF IInv, MWInv, PreparedBy
<1>4. phase = "IDLE" /\ Len(content) = mw.drSs - mw.drSt
  BY <1>1, <1>2 DEF IInv, ContentInv, TypeOK, StackControl
<1>5. /\ content' \in Seq(Val) /\ Len(content') = Len(content)
      /\ loaded' \in Val \cup {Undef} /\ written' \subseteq Addr
  <2>1. Len(content) - mw.addr \in 1 .. Len(content)
    BY <1>1, <1>2
  <2>2. CASE Load
    BY <1>2, <2>1, <2>2, ElementOfSeq DEF Load, TypeOK
  <2>3. CASE Store
    <3>1. mw.exSt + mw.addr \in Addr
      BY <1>1, <1>2, <1>3, <1>4, StackSizes, StackProgram DEF InRange, Addr
    <3>2. /\ content' \in Seq(Val) /\ Len(content') = Len(content)
      BY <1>2, <2>1, <2>3, ExceptSeq DEF Store
    <3> QED BY <1>2, <2>3, <3>1, <3>2 DEF Store, TypeOK
  <2> QED BY <2>2, <2>3
<1>0. lazyPtr' \in Int
  BY <1>1, <1>2 DEF Greater, TypeOK
<1>6. MWTypes /\ Finish /\ phase' = "IDLE"
  BY <1>0, <1>1, <1>2, <1>4, <1>5 DEF MWTypes, NoTransfer, TypeOK
<1>7. Len(content') = mw.exSs - mw.exSt /\ InRange(mw.exSs, mw.exSt)
  BY <1>3, <1>4, <1>5
<1> QED BY <1>1, <1>6, <1>7, FinishingStep

\* A simulation exception in MW ends the run and changes nothing else.
LEMMA ThrowingInv ==
  ASSUME BlockCache, IInv, ReserveUnderflows \/ SpillExceeds \/ AccessExceeds
  PROVE  IInv'
<1>1. /\ fault' /\ turn' = "EX" /\ fault' \in BOOLEAN
      /\ UNCHANGED <<mw, stall, ex, ss, st, ifWait, content, phase, buffer, lazyPtr,
                     nextLazy, evict, proxyTop, mem, wait, loaded, written>>
  BY DEF ReserveUnderflows, SpillExceeds, AccessExceeds, Executing, Throw, cacheVars
<1>2. TypeOK'
  BY <1>1 DEF IInv, TypeOK
<1>3. MWInv' /\ EXInv'
  BY <1>1 DEF IInv, MWInv, EXInv, PreparedBy, InRange
<1>4. ContentInv' /\ BufferInv' /\ TurnInv'
  BY <1>1 DEF IInv, ContentInv, BufferInv, TurnInv, InRange
<1> QED BY <1>2, <1>3, <1>4 DEF IInv

LEMMA NothingToDoInMWInv ==
  ASSUME BlockCache, IInv, NothingToDoInMW
  PROVE  IInv'
<1>1. /\ turn' = "EX" /\ stall' = (ifWait > 0)
      /\ UNCHANGED <<mw, fault, ex, ss, st, ifWait, content, phase, buffer, lazyPtr,
                     nextLazy, evict, proxyTop, mem, wait, loaded, written>>
  BY DEF NothingToDoInMW, cacheVars
<1>2. TypeOK'
  BY <1>1 DEF IInv, TypeOK
<1>3. MWInv' /\ EXInv'
  BY <1>1 DEF IInv, MWInv, EXInv, PreparedBy, InRange
<1>4. ContentInv' /\ BufferInv'
  BY <1>1 DEF IInv, ContentInv, BufferInv, InRange
<1>5. TurnInv'
  <2>1. mw.op = "nop" \/ mw.done
    BY DEF NothingToDoInMW, IInv, MWInv
  <2>2. phase = "IDLE"
    BY <2>1 DEF IInv, ContentInv, TypeOK
  <2> QED BY <1>1, <2>1, <2>2 DEF TurnInv
<1> QED BY <1>2, <1>3, <1>4, <1>5 DEF IInv

-----------------------------------------------------------------------------
(***************************************************************************)
(* What the prepare functions of block_stack_cache_t compute from pointers *)
(* between which a block cache can hold words.                             *)
(***************************************************************************)
LEMMA PrepareReserveResult ==
  ASSUME NEW size \in Nat, NEW sspill, NEW stop, InRange(sspill, stop),
         BlockPrepareReserve(size, sspill, stop).ok,
         NEW transfer,
         transfer = IF sspill - stop + size > NumBlocks
                    THEN sspill - stop + size - NumBlocks ELSE 0
  PROVE  /\ BlockPrepareReserve(size, sspill, stop) =
              [ok |-> TRUE, ss |-> sspill - transfer, st |-> stop - size,
               delta |-> transfer]
         /\ size <= NumBlocks /\ size <= stop /\ transfer \in 0 .. NumBlocks
<1> DEFINE top == stop - size
<1>1. sspill \in Nat /\ stop \in Nat /\ stop <= sspill /\ sspill - stop <= NumBlocks
  BY StackSizes DEF InRange
<1>2. size <= NumBlocks /\ size <= stop
  BY <1>1, StackSizes DEF BlockPrepareReserve, Exceeded
<1>3. /\ top \in Nat /\ ReservedBlocks(sspill, top) = sspill - top
      /\ transfer = IF sspill - top > NumBlocks THEN sspill - top - NumBlocks ELSE 0
  BY <1>1, <1>2, StackSizes DEF ReservedBlocks, Minus
<1>4. transfer \in 0 .. NumBlocks /\ Minus(sspill, transfer) = sspill - transfer
  BY <1>1, <1>2, StackSizes DEF Minus
<1>5. ~(size > NumBlocks \/ stop < size)
  BY <1>1, <1>2, StackSizes
<1>6. BlockPrepareReserve(size, sspill, stop)
        = Prepared(Minus(sspill, transfer), top, transfer)
  BY <1>3, <1>5 DEF BlockPrepareReserve
<1> QED BY <1>2, <1>4, <1>6 DEF Prepared

LEMMA PrepareReserveRange ==
  ASSUME NEW size \in Nat, NEW sspill, NEW stop, InRange(sspill, stop),
         BlockPrepareReserve(size, sspill, stop).ok
  PROVE  LET p == BlockPrepareReserve(size, sspill, stop)
         IN  /\ p.st = stop - size /\ p.ss = sspill - p.delta
             /\ p.delta \in 0 .. NumBlocks
             /\ InRange(p.ss, p.st)
<1>1. PICK transfer :
        transfer = IF sspill - stop + size > NumBlocks
                   THEN sspill - stop + size - NumBlocks ELSE 0
  OBVIOUS
<1>2. /\ BlockPrepareReserve(size, sspill, stop) =
           [ok |-> TRUE, ss |-> sspill - transfer, st |-> stop - size,
            delta |-> transfer]
      /\ size <= NumBlocks /\ size <= stop /\ transfer \in 0 .. NumBlocks
  BY <1>1, PrepareReserveResult
<1>3. InRange(sspill - transfer, stop - size)
  BY <1>1, <1>2, StackSizes, StackProgram DEF InRange
<1> QED BY <1>2, <1>3

\* The arithmetic of prepare_reserve in block_lazy_stack_cache_t: len words are in
\* the cache, the lazy pointer covers dirty of them, transfer of those are spilled.
LEMMA LazyArithmetic ==
  ASSUME NEW capacity \in Nat, NEW size \in Nat, size <= capacity,
         NEW lazy \in Nat, NEW len \in Nat, len <= capacity,
         NEW dirty, dirty = IF lazy <= len THEN lazy ELSE len,
         NEW transfer,
         transfer = IF dirty + size > capacity THEN dirty + size - capacity ELSE 0,
         NEW gone,
         gone = IF len + size > capacity THEN len + size - capacity - transfer ELSE 0,
         NEW next,
         next = IF dirty = 0 \/ size = capacity THEN 0 ELSE dirty + size - transfer
  PROVE  /\ next \in Nat /\ gone \in 0 .. len
         /\ len + size > capacity => transfer + gone = len + size - capacity
         /\ len + size <= capacity => transfer = 0 /\ gone = 0
         /\ \A k \in len - gone .. len - 1 : k >= lazy
         /\ \A k \in 0 .. len - gone - transfer - 1 : k + size >= next => k >= lazy
<1>1. dirty \in Nat /\ dirty <= len /\ dirty <= lazy /\ (dirty < len => dirty = lazy)
  OBVIOUS
<1>2. CASE dirty + size > capacity
  <2>1. transfer = dirty + size - capacity /\ gone = len - dirty
    BY <1>1, <1>2
  <2>2. next \in Nat
    BY <1>1, <2>1
  <2>3. \A k \in len - gone .. len - 1 : k >= lazy
    BY <1>1, <2>1
  <2>4. \A k \in 0 .. len - gone - transfer - 1 : k + size >= next => k >= lazy
    BY <1>1, <2>1
  <2> QED BY <1>1, <1>2, <2>1, <2>2, <2>3, <2>4
<1>3. CASE ~(dirty + size > capacity)
  <2>1. transfer = 0 /\ gone = IF len + size > capacity THEN len + size - capacity ELSE 0
    BY <1>1, <1>3
  <2>2. gone \in 0 .. len
    BY <1>1, <2>1
  <2>3. \A k \in len - gone .. len - 1 : k >= lazy
    BY <1>1, <1>3, <2>1
  <2>4. \A k \in 0 .. len - gone - transfer - 1 : k + size >= next => k >= lazy
    BY <1>1, <1>3, <2>1
  <2> QED BY <1>1, <1>3, <2>1, <2>2, <2>3, <2>4
<1> QED BY <1>2, <1>3

\* prepare_reserve of block_lazy_stack_cache_t: where the pointers go, and that
\* the words to be evicted are those memory holds already.
LEMMA LazyReserveResult ==
  ASSUME NEW size \in Nat, NEW lazy \in Nat, NEW sspill, NEW stop, InRange(sspill, stop),
         LazyPrepareReserve(size, sspill, stop, lazy).ok
  PROVE  LET p    == LazyPrepareReserve(size, sspill, stop, lazy)
             gone == LazyBlocksToEvict(size, sspill, stop, lazy, 0)
             next == LazyNextAfterReserve(size, sspill, stop, lazy)
             len  == sspill - stop
         IN  /\ p.st = stop - size /\ p.delta \in 0 .. NumBlocks /\ InRange(p.ss, p.st)
             /\ next \in Nat /\ gone \in 0 .. len /\ p.ss = sspill - p.delta - gone
             /\ \A k \in len - gone .. len - 1 : k >= lazy
             /\ \A k \in 0 .. len - gone - p.delta - 1 : k + size >= next => k >= lazy
<1>1. PICK len : len = sspill - stop
  OBVIOUS
<1>2. PICK dirty : dirty = IF lazy <= len THEN lazy ELSE len
  OBVIOUS
<1>3. PICK transfer :
        transfer = IF dirty + size > NumBlocks THEN dirty + size - NumBlocks ELSE 0
  OBVIOUS
<1>4. PICK gone :
        gone = IF len + size > NumBlocks THEN len + size - NumBlocks - transfer ELSE 0
  OBVIOUS
<1>5. PICK next :
        next = IF dirty = 0 \/ size = NumBlocks THEN 0 ELSE dirty + size - transfer
  OBVIOUS
<1>6. /\ sspill \in Nat /\ stop \in Nat /\ len \in Nat /\ len <= NumBlocks
      /\ dirty \in Nat /\ dirty <= len /\ NumBlocks \in Nat /\ stop <= sspill
      /\ sspill <= MaxAddr /\ sspill = stop + len
  BY <1>1, <1>2, StackSizes DEF InRange
<1>7. Lesser(lazy, Minus(sspill, stop)) = dirty
  BY <1>1, <1>2, <1>6 DEF Lesser, Minus
<1> DEFINE base == LazyReserveBase(size, sspill, stop, lazy)
<1>8. base = BlockPrepareReserve(size, stop + dirty, stop)
  BY <1>7 DEF LazyReserveBase
<1>9. base.ok
  BY DEF LazyPrepareReserve
<1> HIDE DEF base
<1>19. PICK clean : clean = stop + dirty
  OBVIOUS
<1>10. /\ base = [ok |-> TRUE, ss |-> clean - transfer, st |-> stop - size,
                  delta |-> transfer]
       /\ size <= NumBlocks /\ size <= stop /\ transfer \in 0 .. NumBlocks
  <2>2. InRange(clean, stop) /\ clean - stop = dirty
    BY <1>6, <1>19, StackProgram DEF InRange
  <2>3. base = BlockPrepareReserve(size, clean, stop)
    BY <1>8, <1>19
  <2>4. BlockPrepareReserve(size, clean, stop).ok
    BY <1>9, <2>3
  <2>5. transfer = IF clean - stop + size > NumBlocks
                   THEN clean - stop + size - NumBlocks ELSE 0
    BY <1>3, <2>2
  <2>6. /\ BlockPrepareReserve(size, clean, stop) =
             [ok |-> TRUE, ss |-> clean - transfer, st |-> stop - size,
              delta |-> transfer]
        /\ size <= NumBlocks /\ size <= stop /\ transfer \in 0 .. NumBlocks
    BY <2>2, <2>4, <2>5, PrepareReserveResult
  <2> QED BY <2>3, <2>6, Zenon
<1>11. /\ base.ok /\ base.ss = clean - transfer /\ base.st = stop - size
       /\ base.delta = transfer
  BY <1>10
<1>17. PICK low : low = IF len + size > NumBlocks THEN stop - size + NumBlocks ELSE sspill
  OBVIOUS
<1>12. Minus(sspill, base.st) = len + size
  BY <1>6, <1>10, <1>11 DEF Minus
<1>13. LazyPrepareReserve(size, sspill, stop, lazy) =
         [ok |-> TRUE, ss |-> low, st |-> stop - size, delta |-> transfer]
  <2> DEFINE from == IF Minus(sspill, base.st) > NumBlocks
                     THEN base.st + NumBlocks ELSE sspill
  <2>1. LazyPrepareReserve(size, sspill, stop, lazy) = Prepared(from, base.st, base.delta)
    BY <1>11 DEF LazyPrepareReserve, base
  <2>2. from = low
    BY <1>11, <1>12, <1>17
  <2> HIDE DEF from
  <2>3. LazyPrepareReserve(size, sspill, stop, lazy) = Prepared(low, stop - size, transfer)
    BY <1>11, <2>1, <2>2, Zenon
  <2> QED BY <2>3, Zenon DEF Prepared
<1>14. LazyBlocksToEvict(size, sspill, stop, lazy, 0) = gone
  <2>1. LazyBlocksToEvict(size, sspill, stop, lazy, 0) =
          IF Minus(sspill, base.st) > NumBlocks
          THEN Minus(sspill, base.st) - NumBlocks - base.delta ELSE 0
    BY DEF LazyBlocksToEvict, base
  <2> QED BY <1>4, <1>6, <1>10, <1>11, <1>12, <2>1
<1>15. LazyNextAfterReserve(size, sspill, stop, lazy) = next
  <2>1. base.ss - base.st = dirty + size - transfer
    BY <1>6, <1>10, <1>11, <1>19
  <2>2. LazyNextAfterReserve(size, sspill, stop, lazy) =
          IF Lesser(lazy, Minus(sspill, stop)) = 0 \/ size = NumBlocks
          THEN 0 ELSE base.ss - base.st
    BY DEF LazyNextAfterReserve, base
  <2> QED BY <1>5, <1>7, <2>1, <2>2
<1>16. /\ next \in Nat /\ gone \in 0 .. len
       /\ len + size > NumBlocks => transfer + gone = len + size - NumBlocks
       /\ len + size <= NumBlocks => transfer = 0 /\ gone = 0
       /\ \A k \in len - gone .. len - 1 : k >= lazy
       /\ \A k \in 0 .. len - gone - transfer - 1 : k + size >= next => k >= lazy
  BY <1>2, <1>3, <1>4, <1>5, <1>6, <1>10, LazyArithmetic
<1>18. low = sspill - transfer - gone /\ InRange(low, stop - size)
  BY <1>6, <1>10, <1>16, <1>17, StackProgram DEF InRange
<1> QED BY <1>1, <1>10, <1>13, <1>14, <1>15, <1>16, <1>17, <1>18

LEMMA PrepareFreeRange ==
  ASSUME NEW size \in Nat, NEW sspill, NEW stop, InRange(sspill, stop),
         stop + size <= MaxAddr, BlockPrepareFree(size, sspill, stop).ok
  PROVE  LET p == BlockPrepareFree(size, sspill, stop)
         IN  /\ p.st = stop + size /\ p.ss = Greater(sspill, p.st)
             /\ p.delta = 0
             /\ InRange(p.ss, p.st)
<1>1. sspill \in Nat /\ stop \in Nat /\ stop <= sspill /\ sspill - stop <= NumBlocks
  BY StackSizes DEF InRange
<1>2. ReservedBlocks(sspill, stop) = sspill - stop
  BY <1>1 DEF ReservedBlocks, Minus
<1>3. BlockPrepareFree(size, sspill, stop)
        = [ok |-> TRUE, ss |-> Greater(sspill, stop + size), st |-> stop + size, delta |-> 0]
  <2> DEFINE freedSpilled == IF size <= sspill - stop THEN 0 ELSE size - (sspill - stop)
  <2>1. ~(size > NumBlocks)
    BY DEF BlockPrepareFree, Exceeded
  <2>2. sspill + freedSpilled = Greater(sspill, stop + size)
    BY <1>1 DEF Greater
  <2>3. BlockPrepareFree(size, sspill, stop)
          = Prepared(sspill + freedSpilled, stop + size, 0)
    BY <1>2, <2>1 DEF BlockPrepareFree
  <2> QED BY <2>2, <2>3 DEF Prepared
<1>4. InRange(Greater(sspill, stop + size), stop + size)
  BY <1>1, StackSizes, StackProgram DEF InRange, Greater
<1> QED BY <1>3, <1>4

LEMMA PrepareEnsureRange ==
  ASSUME NEW size \in Nat, NEW ragged \in BOOLEAN, NEW sspill, NEW stop,
         InRange(sspill, stop), stop + size <= MaxAddr,
         BlockPrepareEnsure(size, ragged, sspill, stop).ok
  PROVE  LET p == BlockPrepareEnsure(size, ragged, sspill, stop)
         IN  /\ p.st = stop /\ p.ss = sspill + p.delta
             /\ p.delta \in Nat
             /\ InRange(p.ss, p.st)
<1> DEFINE transfer == IF sspill - stop < size THEN size - (sspill - stop) ELSE 0
<1>1. sspill \in Nat /\ stop \in Nat /\ stop <= sspill /\ sspill - stop <= NumBlocks
  BY StackSizes DEF InRange
<1>2. ReservedBlocks(sspill, stop) = sspill - stop
  BY <1>1 DEF ReservedBlocks, Minus
<1>3. size <= NumBlocks
  BY StackSizes DEF BlockPrepareEnsure, Exceeded
<1>4. BlockPrepareEnsure(size, ragged, sspill, stop)
        = [ok |-> TRUE, ss |-> sspill + transfer, st |-> stop, delta |-> transfer]
  BY <1>1, <1>2 DEF BlockPrepareEnsure, Prepared, Exceeded
<1>5. transfer \in Nat /\ InRange(sspill + transfer, stop)
  BY <1>1, <1>3, StackSizes, StackProgram DEF InRange
<1> QED BY <1>4, <1>5

\* The same of block_aligned_stack_cache_t, from a spill pointer that is aligned:
\* aligning a transfer stays within the cache and within the stack region.
LEMMA AlignedReserveRange ==
  ASSUME AlignedProgram, NEW size \in Sizes, NEW sspill, NEW stop,
         InRange(sspill, stop), sspill % TransferWords = 0,
         AlignedPrepareReserve(size, sspill, stop).ok
  PROVE  LET p == AlignedPrepareReserve(size, sspill, stop)
         IN  /\ p.st = stop - size /\ p.ss = sspill - p.delta
             /\ p.delta \in 0 .. NumBlocks
             /\ InRange(p.ss, p.st) /\ p.ss % TransferWords = 0
<1>1. PICK transfer :
        transfer = IF sspill - stop + size > NumBlocks
                   THEN sspill - stop + size - NumBlocks ELSE 0
  OBVIOUS
<1>2. size \in Nat /\ size <= MaxSize /\ MaxSize \in Nat
  BY StackProgram DEF Sizes
<1>3. BlockPrepareReserve(size, sspill, stop).ok
  BY DEF AlignedPrepareReserve
<1>4. /\ BlockPrepareReserve(size, sspill, stop) =
           [ok |-> TRUE, ss |-> sspill - transfer, st |-> stop - size,
            delta |-> transfer]
      /\ size <= stop /\ transfer \in 0 .. NumBlocks
  BY <1>1, <1>2, <1>3, PrepareReserveResult
<1>5. PICK low, fixup : low = sspill - transfer /\ fixup = low % TransferWords
  OBVIOUS
<1>6. AlignedPrepareReserve(size, sspill, stop) =
        [ok |-> TRUE, ss |-> low - fixup, st |-> stop - size, delta |-> transfer + fixup]
  BY <1>4, <1>5 DEF AlignedPrepareReserve, Prepared
<1>7. /\ sspill \in Nat /\ stop \in Nat /\ stop <= sspill /\ sspill - stop <= NumBlocks
      /\ sspill <= MaxAddr /\ MaxAddr \in Nat
      /\ TransferWords \in Nat \ {0} /\ TransferWords <= NumBlocks /\ NumBlocks \in Nat
      /\ MaxSize + TransferWords <= NumBlocks + 1
  BY StackSizes, StackProgram DEF InRange, AlignedProgram
<1>8. low \in Int /\ fixup \in 0 .. TransferWords - 1 /\ (low - fixup) % TransferWords = 0
  <2>1. low \in Int
    BY <1>4, <1>5, <1>7
  <2>2. fixup \in 0 .. TransferWords - 1
    BY <1>5, <1>7, <2>1, RemainderRange
  <2>3. (low - fixup) % TransferWords = 0
    BY <1>5, <1>7, <2>1, RoundedDown, Zenon
  <2> QED BY <2>1, <2>2, <2>3
<1>9. ASSUME transfer = 0 PROVE fixup = 0
  <2>1. low = sspill
    BY <1>5, <1>7, <1>9
  <2> QED BY <1>5, <2>1
<1>10. transfer > 0 => transfer <= size /\ low - (stop - size) = NumBlocks
  <2> SUFFICES ASSUME transfer > 0
               PROVE  transfer <= size /\ low - (stop - size) = NumBlocks
    OBVIOUS
  <2>1. transfer = sspill - stop + size - NumBlocks
    BY <1>1
  <2> QED BY <1>2, <1>5, <1>7, <2>1
<1>11. /\ transfer + fixup \in 0 .. NumBlocks /\ low - fixup = sspill - (transfer + fixup)
       /\ stop - size \in Nat /\ low - fixup >= stop - size
       /\ low - fixup <= stop - size + NumBlocks /\ low - fixup <= MaxAddr
  <2>1. CASE transfer = 0
    BY <1>1, <1>2, <1>4, <1>5, <1>7, <1>9, <2>1
  <2>2. CASE transfer > 0
    BY <1>2, <1>4, <1>5, <1>7, <1>8, <1>10, <2>2
  <2> QED BY <1>4, <2>1, <2>2
<1>12. InRange(low - fixup, stop - size)
  BY <1>7, <1>8, <1>11 DEF InRange
<1> QED BY <1>6, <1>8, <1>11, <1>12

\* Rounding up stays within a region that ends at a multiple of the transfer block.
LEMMA GapRange ==
  ASSUME AlignedProgram, NEW n \in Nat, n <= MaxAddr
  PROVE  /\ RoundUpGap(n) \in 0 .. TransferWords - 1
         /\ (n + RoundUpGap(n)) % TransferWords = 0
         /\ n + RoundUpGap(n) <= MaxAddr
         /\ n % TransferWords = 0 <=> RoundUpGap(n) = 0
<1>1. /\ TransferWords \in Nat \ {0} /\ MaxAddr \in Nat /\ MaxAddr % TransferWords = 0
      /\ n \in Int
  BY StackSizes, StackProgram DEF AlignedProgram
<1>2. PICK r : r = n % TransferWords
  OBVIOUS
<1>3. /\ r \in 0 .. TransferWords - 1 /\ (n - r) % TransferWords = 0
      /\ (n + (TransferWords - r)) % TransferWords = 0
  BY <1>1, <1>2, RemainderRange, RoundedDown, RoundedUp
<1>4. CASE r = 0
  BY <1>1, <1>2, <1>4 DEF RoundUpGap
<1>5. CASE r # 0
  <2>1. RoundUpGap(n) = TransferWords - r
    BY <1>2, <1>5 DEF RoundUpGap
  <2>2. n - r \in Nat
    <3>1. \A x \in Nat, m \in Nat \ {0} : x % m <= x
      OBVIOUS
    <3> QED BY <1>1, <1>2, <1>3, <3>1
  <2>3. n - r < MaxAddr
    BY <1>1, <1>3, <1>5
  <2>4. n - r + TransferWords <= MaxAddr
    BY <1>1, <1>3, <2>2, <2>3, MultiplesApart
  <2> QED BY <1>1, <1>2, <1>3, <1>5, <2>1, <2>4
<1> QED BY <1>4, <1>5

LEMMA AlignedFreeRange ==
  ASSUME AlignedProgram, NEW size \in Nat, NEW sspill, NEW stop,
         InRange(sspill, stop), sspill % TransferWords = 0, stop + size <= MaxAddr,
         AlignedPrepareFree(size, sspill, stop).ok
  PROVE  LET p == AlignedPrepareFree(size, sspill, stop)
         IN  /\ p.st = stop + size /\ p.delta \in 0 .. NumBlocks
             /\ p.delta = 0 => p.ss = Greater(sspill, p.st)
             /\ p.delta > 0 =>
                  sspill <= p.st /\ p.delta <= p.ss /\ p.ss <= p.st + p.delta
             /\ InRange(p.ss, p.st) /\ p.ss % TransferWords = 0
<1>1. BlockPrepareFree(size, sspill, stop).ok
  BY DEF AlignedPrepareFree
<1>2. LET b == BlockPrepareFree(size, sspill, stop)
      IN  /\ b.st = stop + size /\ b.ss = Greater(sspill, stop + size) /\ b.delta = 0
          /\ InRange(b.ss, b.st)
  BY <1>1, PrepareFreeRange
<1>3. PICK x, gap : x = Greater(sspill, stop + size) /\ gap = RoundUpGap(x)
  OBVIOUS
<1>4. AlignedPrepareFree(size, sspill, stop) =
        IF gap = 0 THEN BlockPrepareFree(size, sspill, stop)
                   ELSE Prepared(x + gap, stop + size, TransferWords)
  BY <1>1, <1>2, <1>3 DEF AlignedPrepareFree
<1>5. /\ sspill \in Nat /\ stop \in Nat /\ sspill <= MaxAddr /\ MaxAddr \in Nat
      /\ TransferWords \in Nat \ {0} /\ TransferWords <= NumBlocks /\ NumBlocks \in Nat
  BY StackSizes, StackProgram DEF InRange
<1>6. x \in Nat /\ x <= MaxAddr
  BY <1>3, <1>5 DEF Greater
<1>7. /\ gap \in 0 .. TransferWords - 1 /\ (x + gap) % TransferWords = 0
      /\ x + gap <= MaxAddr /\ (x % TransferWords = 0 <=> gap = 0)
  BY <1>3, <1>6, GapRange
<1>8. CASE gap = 0
  BY <1>2, <1>3, <1>4, <1>5, <1>7, <1>8
<1>9. CASE gap # 0
  <2>1. x = stop + size /\ sspill <= stop + size
    BY <1>3, <1>5, <1>7, <1>9 DEF Greater
  <2>2. TransferWords <= x + gap
    <3>1. 0 % TransferWords = 0
      BY <1>5
    <3>2. x + gap \in Nat /\ 0 < x + gap
      BY <1>6, <1>7, <1>9
    <3> QED BY <1>5, <1>7, <3>1, <3>2, MultiplesApart
  <2>3. InRange(x + gap, stop + size)
    BY <1>5, <1>6, <1>7, <2>1 DEF InRange
  <2>4. x + gap <= stop + size + TransferWords
    BY <1>5, <1>7, <2>1
  <2> QED BY <1>4, <1>5, <1>7, <1>9, <2>1, <2>2, <2>3, <2>4 DEF Prepared
<1> QED BY <1>8, <1>9

LEMMA AlignedEnsureRange ==
  ASSUME AlignedProgram, NEW size \in Sizes, NEW ragged \in BOOLEAN, NEW sspill, NEW stop,
         InRange(sspill, stop), sspill % TransferWords = 0, stop + size <= MaxAddr,
         AlignedPrepareEnsure(size, ragged, sspill, stop).ok
  PROVE  LET p == AlignedPrepareEnsure(size, ragged, sspill, stop)
         IN  /\ p.st = stop /\ p.ss = sspill + p.delta /\ p.delta \in Nat
             /\ InRange(p.ss, p.st) /\ p.ss % TransferWords = 0
<1>1. BlockPrepareEnsure(size, ragged, sspill, stop).ok
  BY DEF AlignedPrepareEnsure
<1>2. PICK transfer :
        transfer = IF sspill - stop < size THEN size - (sspill - stop) ELSE 0
  OBVIOUS
<1>3. /\ sspill \in Nat /\ stop \in Nat /\ stop <= sspill /\ sspill <= MaxAddr
      /\ sspill - stop <= NumBlocks /\ NumBlocks \in Nat /\ MaxAddr \in Nat
      /\ TransferWords \in Nat \ {0} /\ MaxSize + TransferWords <= NumBlocks + 1
      /\ size \in Nat /\ size <= MaxSize /\ MaxSize \in Nat
  BY StackSizes, StackProgram DEF InRange, AlignedProgram, Sizes
<1>4. ReservedBlocks(sspill, stop) = sspill - stop
  BY <1>3 DEF ReservedBlocks, Minus
<1>5. BlockPrepareEnsure(size, ragged, sspill, stop)
        = [ok |-> TRUE, ss |-> sspill + transfer, st |-> stop, delta |-> transfer]
  BY <1>1, <1>2, <1>4 DEF BlockPrepareEnsure, Prepared, Exceeded
<1>6. PICK x, gap : x = sspill + transfer /\ gap = RoundUpGap(x)
  OBVIOUS
<1>7. AlignedPrepareEnsure(size, ragged, sspill, stop)
        = [ok |-> TRUE, ss |-> x + gap, st |-> stop, delta |-> transfer + gap]
  BY <1>5, <1>6 DEF AlignedPrepareEnsure, Prepared
<1>8. x \in Nat /\ x <= MaxAddr /\ transfer \in Nat
  BY <1>2, <1>3, <1>6
<1>9. /\ gap \in 0 .. TransferWords - 1 /\ (x + gap) % TransferWords = 0
      /\ x + gap <= MaxAddr /\ (x % TransferWords = 0 <=> gap = 0)
  BY <1>6, <1>8, GapRange
<1>10. x + gap >= stop /\ x + gap <= stop + NumBlocks
  <2>1. CASE transfer = 0
    <3>1. x = sspill
      BY <1>3, <1>6, <2>1
    <3>2. gap = 0
      BY <1>9, <3>1
    <3> QED BY <1>3, <3>1, <3>2
  <2>2. CASE transfer # 0
    <3>1. x = stop + size
      <4>1. transfer = size - (sspill - stop)
        BY <1>2, <2>2
      <4> QED BY <1>3, <1>6, <4>1
    <3> QED BY <1>3, <1>9, <3>1
  <2> QED BY <2>1, <2>2
<1>11. InRange(x + gap, stop)
  BY <1>3, <1>8, <1>9, <1>10 DEF InRange
<1> QED BY <1>3, <1>6, <1>7, <1>8, <1>9, <1>11

LEMMA PrepareSpillResult ==
  ASSUME NEW size \in Nat, NEW ragged \in BOOLEAN, NEW sspill, NEW stop,
         BlockPrepareSpill(size, ragged, sspill, stop).ok
  PROVE  LET p == BlockPrepareSpill(size, ragged, sspill, stop)
         IN  p.st = stop /\ p.delta = size /\ p.ss = Minus(sspill, p.delta)
  BY DEF BlockPrepareSpill, Prepared, Exceeded

-----------------------------------------------------------------------------
(***************************************************************************)
(* The EX half of a cycle.                                                 *)
(***************************************************************************)
\* i_stc_t::EX calls the prepare function of block_stack_cache_t, or the one
\* with which a class derived from it overrides it.
LEMMA BlockPrepare ==
  ASSUME BlockCache, NEW i
  PROVE  /\ i.op = "reserve" /\ Kind = "block" =>
              Prepare(i) = BlockPrepareReserve(i.size, i.drSs, i.drSt)
         /\ i.op = "reserve" /\ Kind = "lblock" =>
              Prepare(i) = LazyPrepareReserve(i.size, i.drSs, i.drSt, lazyPtr)
         /\ i.op = "free" /\ Kind # "ablock" =>
              Prepare(i) = BlockPrepareFree(i.size, i.drSs, i.drSt)
         /\ i.op = "ensure" /\ Kind # "ablock" =>
              Prepare(i) = BlockPrepareEnsure(i.size, i.ragged, i.drSs, i.drSt)
         /\ i.op = "spill" =>
              Prepare(i) = BlockPrepareSpill(i.size, i.ragged, i.drSs, i.drSt)
  BY KindOfCache, Zenon DEF Prepare, PrepareReserve, PrepareFree, PrepareEnsure, PrepareSpill

LEMMA AlignedPrepare ==
  ASSUME Kind = "ablock", NEW i
  PROVE  /\ i.op = "reserve" => Prepare(i) = AlignedPrepareReserve(i.size, i.drSs, i.drSt)
         /\ i.op = "free" => Prepare(i) = AlignedPrepareFree(i.size, i.drSs, i.drSt)
         /\ i.op = "ensure" =>
              Prepare(i) = AlignedPrepareEnsure(i.size, i.ragged, i.drSs, i.drSt)
  BY Zenon DEF Prepare, PrepareReserve, PrepareFree, PrepareEnsure

\* In the EX half of a cycle the pointers that the instruction in MW passes to
\* the next one enclose words a block cache can hold.
LEMMA PointersInEXHalf ==
  ASSUME IInv, turn = "EX", ~fault
  PROVE  InRange(mw.exSs, mw.exSt)
<1>1. phase \in {"IDLE", "SPILL", "FILL"}
  BY DEF IInv, TypeOK
<1>2. CASE phase = "IDLE" /\ mw.done
  BY <1>2 DEF IInv, ContentInv
<1>3. CASE phase = "IDLE" /\ mw.op = "nop"
  BY <1>3 DEF IInv, MWInv, PreparedBy, StackControl
<1>4. CASE phase = "SPILL"
  BY <1>4 DEF IInv, ContentInv
<1>5. CASE phase = "FILL"
  BY <1>5 DEF IInv, ContentInv, MWInv, PreparedBy
<1> QED BY <1>1, <1>2, <1>3, <1>4, <1>5 DEF IInv, TurnInv

\* What Decoded makes of an instruction of the program.
LEMMA DecodedFields ==
  ASSUME NEW i \in StackInstructions, NEW sspill \in Int, NEW stop \in Int
  PROVE  LET d == Decoded(i, sspill, stop)
         IN  /\ d \in Decodings /\ d.op = i.op /\ d.op # "next" /\ d.size = i.size
             /\ d.pred = i.pred /\ ~d.done
             /\ d.drSs = sspill /\ d.drSt = stop /\ d.exSs = sspill /\ d.exSt = stop
<1>1. /\ i.op \in StackControl \cup {"load", "store", "nop"}
      /\ i.size \in Sizes /\ i.ragged \in BOOLEAN /\ i.addr \in Sizes /\ i.val \in Val
      /\ i.pred \in BOOLEAN
  BY DEF StackInstructions
<1> QED BY <1>1 DEF Decoded, Decodings, StackControl

\* What the invariant says of every instruction EX may hold.
LEMMA InEXFields ==
  ASSUME BlockCache, IInv, turn = "EX", ~fault, NEW i \in InEX
  PROVE  /\ i \in Decodings /\ i.op # "next" /\ i.pred /\ ~i.done
         /\ i.drSs = mw.exSs /\ i.drSt = mw.exSt
         /\ i.op \notin StackControl => i.exSs = i.drSs /\ i.exSt = i.drSt
         /\ i.op \notin StackControl => i.exSs = ss /\ i.exSt = st
         /\ i.op \in {"free", "ensure"} => i.drSt + i.size <= MaxAddr
         /\ Kind = "ablock" => i.op # "spill" /\ i.drSs % TransferWords = 0
<1>0. Kind = "ablock" => mw.exSs % TransferWords = 0
  BY DEF IInv, MWInv, PreparedBy
<1>1. ex \in Decodings /\ ex.drSs \in Int /\ ex.drSt \in Int
  BY DEF IInv, TypeOK, Decodings
<1>2. CASE ex.op # "next"
  BY <1>0, <1>1, <1>2 DEF InEX, IInv, EXInv
<1>3. CASE ex.op = "next"
  <2>1. PICK j \in StackInstructions :
          Issuable(j, ex.drSs, ex.drSt) /\ i = Decoded(j, ex.drSs, ex.drSt)
    BY <1>3 DEF InEX
  <2>2. /\ i \in Decodings /\ i.op = j.op /\ i.op # "next" /\ i.size = j.size
        /\ i.pred = j.pred /\ ~i.done
        /\ i.drSs = ex.drSs /\ i.drSt = ex.drSt /\ i.exSs = ex.drSs /\ i.exSt = ex.drSt
    BY <1>1, <2>1, DecodedFields
  <2>3. ss = ex.drSs /\ st = ex.drSt /\ ex.drSs = mw.exSs /\ ex.drSt = mw.exSt
    BY <1>3 DEF IInv, EXInv, StackControl
  <2>4. j.pred
    BY KindOfCache DEF StackInstructions
  <2>5. Kind = "ablock" => j.op # "spill"
    BY <2>1, KindOfCache DEF Issuable, AlignedProgram
  <2> QED BY <1>0, <2>1, <2>2, <2>3, <2>4, <2>5 DEF Issuable
<1> QED BY <1>2, <1>3

\* The move of the stages preserves the invariant when EX prepared the
\* instruction from the pointers the instruction in MW passes on.
LEMMA AdvanceInv ==
  ASSUME IInv, turn = "EX", ~fault, nextLazy' \in Int, evict' \in Int, fault' = fault,
         NEW i \in Decodings, NEW sspill \in Int, NEW stop \in Int,
         Advance(i, sspill, stop),
         i.op # "next", i.pred, ~i.done, i.drSs = mw.exSs, i.drSt = mw.exSt,
         i.exSs = sspill, i.exSt = stop, PreparedBy(i),
         i.op \in {"free", "ensure"} => i.drSt + i.size <= MaxAddr
  PROVE  IInv'
<1>1. /\ stall' = FALSE /\ turn' = "MW" /\ ss' = sspill /\ st' = stop /\ loaded' = Undef
      /\ wait' = IF wait > 0 THEN wait - 1 ELSE wait
      /\ UNCHANGED <<content, phase, buffer, lazyPtr, proxyTop, mem, written>>
  BY DEF Advance
<1>2. wait' \in {NoRequest} \cup 0 .. MaxLatency
  BY <1>1, StackProgram DEF IInv, TypeOK, NoRequest
<1>3. InRange(mw.exSs, mw.exSt)
  BY PointersInEXHalf
<1>4. BufferInv' /\ TurnInv'
  BY <1>1 DEF IInv, BufferInv, TurnInv
<1>5. CASE stall
  <2>1. mw' = mw /\ ex' = i /\ ifWait' \in 0 .. MaxFetch
    BY <1>5, StackProgram DEF Advance, IInv, TypeOK
  <2>2. TypeOK'
    BY <1>1, <1>2, <2>1 DEF IInv, TypeOK
  <2>3. MWInv' /\ ContentInv'
    BY <1>1, <2>1 DEF IInv, MWInv, ContentInv, PreparedBy, InRange
  <2>4. EXInv'
    BY <1>1, <2>1 DEF EXInv, PreparedBy
  <2> QED BY <1>4, <2>2, <2>3, <2>4 DEF IInv
<1>6. CASE ~stall
  <2>1. mw' = i /\ ex' = Upcoming(sspill, stop) /\ ifWait' \in 0 .. MaxFetch
    BY <1>6 DEF Advance
  <2>2. /\ ex' \in Decodings /\ ex'.op = "next" /\ ex'.pred /\ ~ex'.done
        /\ ex'.drSs = sspill /\ ex'.drSt = stop /\ ex'.exSs = sspill /\ ex'.exSt = stop
    BY <2>1, StackProgram DEF Upcoming, Decoded, Idle, Decodings, Sizes
  <2>3. TypeOK'
    BY <1>1, <1>2, <2>1, <2>2 DEF IInv, TypeOK
  <2>4. EXInv'
    BY <1>1, <2>1, <2>2 DEF EXInv, StackControl
  <2>5. MWInv'
    BY <1>3, <2>1 DEF MWInv, PreparedBy, InRange
  <2>6. phase = "IDLE" /\ Len(content) = mw.exSs - mw.exSt
    <3>1. phase = "IDLE"
      BY <1>6 DEF IInv, TurnInv
    <3>2. CASE mw.done
      BY <3>1, <3>2 DEF IInv, ContentInv
    <3>3. CASE ~mw.done
      <4>1. mw.op \notin StackControl
        BY <3>1, <3>3 DEF IInv, TurnInv, StackControl
      <4> QED BY <3>1, <3>3, <4>1 DEF IInv, ContentInv, MWInv, PreparedBy
    <3> QED BY <3>2, <3>3
  <2>7. ContentInv'
    BY <1>1, <2>1, <2>6 DEF ContentInv
  <2> QED BY <1>4, <2>3, <2>4, <2>5, <2>7 DEF IInv
<1> QED BY <1>5, <1>6

\* What EX prepares in each of the caches.
LEMMA ReservePrepared ==
  ASSUME BlockCache, LazyInv, NEW i, i.op = "reserve", Prepare(i).ok,
         i.size \in Sizes, InRange(i.drSs, i.drSt),
         Kind = "ablock" => i.drSs % TransferWords = 0
  PROVE  LET p == Prepare(i)
         IN  /\ p.st = i.drSt - i.size /\ p.delta \in 0 .. NumBlocks /\ InRange(p.ss, p.st)
             /\ Kind = "ablock" => p.ss % TransferWords = 0
             /\ Kind # "lblock" => p.ss = i.drSs - p.delta
<1>0. i.size \in Nat
  BY StackProgram DEF Sizes
<1>1. CASE Kind = "block"
  <2>1. Prepare(i) = BlockPrepareReserve(i.size, i.drSs, i.drSt)
    BY <1>1, BlockPrepare
  <2> QED BY <1>0, <1>1, <2>1, PrepareReserveRange
<1>2. CASE Kind = "lblock"
  <2>1. Prepare(i) = LazyPrepareReserve(i.size, i.drSs, i.drSt, lazyPtr) /\ lazyPtr \in Nat
    BY <1>2, BlockPrepare DEF LazyInv
  <2> QED BY <1>0, <1>2, <2>1, LazyReserveResult
<1>3. CASE Kind = "ablock"
  <2>1. Prepare(i) = AlignedPrepareReserve(i.size, i.drSs, i.drSt)
    BY <1>3, AlignedPrepare
  <2> QED BY <1>3, <2>1, AlignedReserveRange, KindOfCache
<1> QED BY <1>1, <1>2, <1>3, KindOfCache

LEMMA FreePrepared ==
  ASSUME BlockCache, NEW i, i.op = "free", Prepare(i).ok,
         i.size \in Sizes, InRange(i.drSs, i.drSt), i.drSt + i.size <= MaxAddr,
         Kind = "ablock" => i.drSs % TransferWords = 0
  PROVE  LET p == Prepare(i)
         IN  /\ p.st = i.drSt + i.size /\ p.delta \in 0 .. NumBlocks /\ InRange(p.ss, p.st)
             /\ p.delta = 0 => p.ss = Greater(i.drSs, p.st)
             /\ p.delta > 0 =>
                  /\ Kind = "ablock" /\ i.drSs <= p.st
                  /\ p.delta <= p.ss /\ p.ss <= p.st + p.delta
             /\ Kind = "ablock" => p.ss % TransferWords = 0
<1>0. i.size \in Nat
  BY StackProgram DEF Sizes
<1>1. CASE Kind # "ablock"
  <2>1. Prepare(i) = BlockPrepareFree(i.size, i.drSs, i.drSt)
    BY <1>1, BlockPrepare
  <2>2. LET p == Prepare(i)
        IN  /\ p.st = i.drSt + i.size /\ p.ss = Greater(i.drSs, p.st) /\ p.delta = 0
            /\ InRange(p.ss, p.st)
    BY <1>0, <2>1, PrepareFreeRange
  <2> QED BY <1>1, <2>2, StackSizes
<1>2. CASE Kind = "ablock"
  <2>1. Prepare(i) = AlignedPrepareFree(i.size, i.drSs, i.drSt)
    BY <1>2, AlignedPrepare
  <2> QED BY <1>0, <1>2, <2>1, AlignedFreeRange, KindOfCache
<1> QED BY <1>1, <1>2

LEMMA EnsurePrepared ==
  ASSUME BlockCache, NEW i, i.op = "ensure", Prepare(i).ok, i.ragged \in BOOLEAN,
         i.size \in Sizes, InRange(i.drSs, i.drSt), i.drSt + i.size <= MaxAddr,
         Kind = "ablock" => i.drSs % TransferWords = 0
  PROVE  LET p == Prepare(i)
         IN  /\ p.st = i.drSt /\ p.ss = i.drSs + p.delta /\ p.delta \in Nat
             /\ InRange(p.ss, p.st)
             /\ Kind = "ablock" => p.ss % TransferWords = 0
<1>0. i.size \in Nat
  BY StackProgram DEF Sizes
<1>1. CASE Kind # "ablock"
  <2>1. Prepare(i) = BlockPrepareEnsure(i.size, i.ragged, i.drSs, i.drSt)
    BY <1>1, BlockPrepare
  <2> QED BY <1>0, <1>1, <2>1, PrepareEnsureRange
<1>2. CASE Kind = "ablock"
  <2>1. Prepare(i) = AlignedPrepareEnsure(i.size, i.ragged, i.drSs, i.drSt)
    BY <1>2, AlignedPrepare
  <2> QED BY <1>2, <2>1, AlignedEnsureRange, KindOfCache
<1> QED BY <1>1, <1>2

\* The EX stage of the reserve that is still there computed what evict is.
LEMMA EvictBefore ==
  ASSUME BlockCache, IInv, LazyInv, turn = "EX", ~fault, NEW i \in InEX
  PROVE  /\ ~ReservePending
         /\ evict # 0 =>
              /\ Kind = "lblock" /\ i.op = "reserve"
              /\ evict = LazyBlocksToEvict(i.size, i.drSs, i.drSt, lazyPtr, 0)
<1>1. ~ReservePending
  BY DEF ReservePending, IInv, TurnInv
<1>2. CASE Kind # "lblock"
  BY <1>1, <1>2 DEF LazyInv
<1>3. CASE Kind = "lblock"
  <2>1. ex.op = "reserve" => i = ex
    BY DEF InEX
  <2> QED BY <1>1, <1>3, <2>1 DEF LazyInv, HandOver
<1> QED BY <1>2, <1>3, KindOfCache

\* What EX leaves for the later MW stage.
LEMMA PreparedLazy ==
  ASSUME BlockCache, IInv, LazyInv, turn = "EX", ~fault,
         NEW i \in InEX, i.op \in StackControl, Prepare(i).ok, PrepareLazy(i)
  PROVE  /\ nextLazy' \in Nat /\ nextLazy' \in Int /\ evict' \in Int
         /\ Kind # "lblock" => nextLazy' = 0 /\ evict' = 0
         /\ i.op # "reserve" => evict' = 0
         /\ Kind = "lblock" /\ i.op = "reserve" =>
              /\ nextLazy' = LazyNextAfterReserve(i.size, i.drSs, i.drSt, lazyPtr)
              /\ evict' = LazyBlocksToEvict(i.size, i.drSs, i.drSt, lazyPtr, 0)
         /\ Kind = "lblock" /\ i.op = "free" =>
              nextLazy' = LazyNextAfterFree(i.size, i.drSt, lazyPtr)
<1>1. i.size \in Nat /\ InRange(i.drSs, i.drSt) /\ lazyPtr \in Nat /\ nextLazy \in Nat
  <2>1. i \in Decodings /\ i.drSs = mw.exSs /\ i.drSt = mw.exSt
    BY InEXFields
  <2> QED BY <2>1, PointersInEXHalf, StackProgram DEF Decodings, Sizes, LazyInv
<1>2. evict # 0 =>
        /\ Kind = "lblock" /\ i.op = "reserve"
        /\ evict = LazyBlocksToEvict(i.size, i.drSs, i.drSt, lazyPtr, 0)
  BY EvictBefore
<1>3. CASE Kind # "lblock"
  <2>1. nextLazy' = nextLazy /\ evict' = evict /\ nextLazy = 0 /\ evict = 0
    BY <1>3 DEF PrepareLazy, LazyInv
  <2> QED BY <1>3, <2>1
<1>4. CASE Kind = "lblock" /\ i.op = "reserve"
  <2>1. Prepare(i) = LazyPrepareReserve(i.size, i.drSs, i.drSt, lazyPtr)
    BY <1>4, BlockPrepare
  <2>2. /\ LazyNextAfterReserve(i.size, i.drSs, i.drSt, lazyPtr) \in Nat
        /\ LazyBlocksToEvict(i.size, i.drSs, i.drSt, lazyPtr, 0) \in Int
    BY <1>1, <2>1, LazyReserveResult
  <2>3. /\ nextLazy' = LazyNextAfterReserve(i.size, i.drSs, i.drSt, lazyPtr)
        /\ evict' = LazyBlocksToEvict(i.size, i.drSs, i.drSt, lazyPtr, evict)
    BY <1>4 DEF PrepareLazy
  <2>4. evict' = LazyBlocksToEvict(i.size, i.drSs, i.drSt, lazyPtr, 0)
    BY <1>2, <2>3 DEF LazyBlocksToEvict
  <2> QED BY <1>4, <2>2, <2>3, <2>4
<1>5. CASE Kind = "lblock" /\ i.op = "free"
  <2>1. nextLazy' = LazyNextAfterFree(i.size, i.drSt, lazyPtr) /\ evict' = 0
    BY <1>2, <1>5 DEF PrepareLazy
  <2>2. LazyNextAfterFree(i.size, i.drSt, lazyPtr) \in Nat
    BY <1>1 DEF LazyNextAfterFree
  <2> QED BY <1>5, <2>1, <2>2
<1>6. CASE Kind = "lblock" /\ i.op \notin {"reserve", "free"}
  <2>1. nextLazy' = nextLazy /\ evict' = 0
    BY <1>2, <1>6 DEF PrepareLazy
  <2> QED BY <1>1, <1>6, <2>1
<1> QED BY <1>3, <1>4, <1>5, <1>6, KindOfCache

LEMMA StackControlEXInv ==
  ASSUME BlockCache, IInv, LazyInv, StackControlEX
  PROVE  IInv'
<1>1. PICK i \in InEX :
        /\ i.op \in StackControl /\ Prepare(i).ok
        /\ Advance([i EXCEPT !.exSs = Prepare(i).ss, !.exSt = Prepare(i).st,
                              !.delta = Prepare(i).delta],
                   Prepare(i).ss, Prepare(i).st)
        /\ PrepareLazy(i)
  BY DEF StackControlEX
<1> DEFINE p == Prepare(i)
           d == [i EXCEPT !.exSs = p.ss, !.exSt = p.st, !.delta = p.delta]
<1>2. turn = "EX" /\ ~fault /\ fault' = fault
  BY DEF StackControlEX
<1>3. /\ i \in Decodings /\ i.op # "next" /\ i.pred /\ ~i.done
      /\ i.drSs = mw.exSs /\ i.drSt = mw.exSt
      /\ i.op \in {"free", "ensure"} => i.drSt + i.size <= MaxAddr
      /\ Kind = "ablock" => i.op # "spill" /\ i.drSs % TransferWords = 0
  BY <1>2, InEXFields
<1>4. InRange(i.drSs, i.drSt) /\ i.size \in Sizes /\ i.size \in Nat /\ i.ragged \in BOOLEAN
  BY <1>2, <1>3, PointersInEXHalf, StackProgram DEF Decodings, Sizes
<1>5. /\ p.ss \in Int /\ p.st \in Int /\ p.delta \in Int
      /\ i.op = "reserve" =>
           /\ p.st = i.drSt - i.size /\ p.delta \in 0 .. NumBlocks
           /\ InRange(p.ss, p.st)
      /\ i.op = "free" =>
           /\ p.st = i.drSt + i.size /\ p.delta \in 0 .. NumBlocks
           /\ p.delta = 0 => p.ss = Greater(i.drSs, p.st)
           /\ p.delta > 0 =>
                /\ Kind = "ablock" /\ i.drSs <= p.st
                /\ p.delta <= p.ss /\ p.ss <= p.st + p.delta
           /\ InRange(p.ss, p.st)
      /\ i.op = "ensure" =>
           /\ p.st = i.drSt /\ p.ss = i.drSs + p.delta /\ p.delta \in Nat
           /\ InRange(p.ss, p.st)
      /\ i.op = "spill" =>
           /\ p.st = i.drSt /\ p.delta \in Nat /\ p.ss = Minus(i.drSs, p.delta)
      /\ Kind = "ablock" => p.ss % TransferWords = 0
  <2>0. InRange(p.ss, p.st) => p.ss \in Int /\ p.st \in Int
    BY StackSizes DEF InRange
  <2>1. CASE i.op = "reserve"
    <3>1. /\ p.st = i.drSt - i.size /\ p.delta \in 0 .. NumBlocks /\ InRange(p.ss, p.st)
          /\ Kind = "ablock" => p.ss % TransferWords = 0
      BY <1>1, <1>3, <1>4, <2>1, ReservePrepared
    <3> QED BY <2>0, <2>1, <3>1, StackSizes
  <2>2. CASE i.op = "free"
    <3>1. /\ p.st = i.drSt + i.size /\ p.delta \in 0 .. NumBlocks
          /\ p.delta = 0 => p.ss = Greater(i.drSs, p.st)
          /\ p.delta > 0 =>
               /\ Kind = "ablock" /\ i.drSs <= p.st
               /\ p.delta <= p.ss /\ p.ss <= p.st + p.delta
          /\ InRange(p.ss, p.st)
          /\ Kind = "ablock" => p.ss % TransferWords = 0
      BY <1>1, <1>3, <1>4, <2>2, FreePrepared
    <3> QED BY <2>0, <2>2, <3>1, StackSizes
  <2>3. CASE i.op = "ensure"
    <3>1. /\ p.st = i.drSt /\ p.ss = i.drSs + p.delta /\ p.delta \in Nat
          /\ InRange(p.ss, p.st)
          /\ Kind = "ablock" => p.ss % TransferWords = 0
      BY <1>1, <1>3, <1>4, <2>3, EnsurePrepared
    <3> QED BY <2>0, <2>3, <3>1
  <2>4. CASE i.op = "spill"
    <3>1. p = BlockPrepareSpill(i.size, i.ragged, i.drSs, i.drSt) /\ p.ok
      BY <1>1, <2>4, BlockPrepare
    <3>2. p.st = i.drSt /\ p.delta = i.size /\ p.ss = Minus(i.drSs, p.delta)
      BY <1>4, <3>1, PrepareSpillResult
    <3>3. Kind # "ablock"
      BY <1>3, <2>4
    <3> QED BY <1>4, <2>4, <3>2, <3>3, StackSizes DEF InRange, Minus
  <2> QED BY <1>1, <2>1, <2>2, <2>3, <2>4 DEF StackControl
<1> HIDE DEF p
<1>6. /\ d \in Decodings /\ d.op = i.op /\ d.size = i.size /\ d.pred = i.pred
      /\ d.done = i.done /\ d.drSs = i.drSs /\ d.drSt = i.drSt
      /\ d.exSs = p.ss /\ d.exSt = p.st /\ d.delta = p.delta
  BY <1>3, <1>5 DEF Decodings
<1>7. Advance(d, p.ss, p.st)
  BY <1>1 DEF p
<1> HIDE DEF d
<1>8. PreparedBy(d)
  BY <1>1, <1>3, <1>5, <1>6 DEF PreparedBy
<1>9. nextLazy' \in Int /\ evict' \in Int
  BY <1>1, <1>2, PreparedLazy
<1> QED BY <1>2, <1>3, <1>5, <1>6, <1>7, <1>8, <1>9, AdvanceInv

LEMMA OtherEXInv ==
  ASSUME BlockCache, IInv, OtherEX
  PROVE  IInv'
<1>1. PICK i \in InEX : i.op \notin StackControl /\ Advance(i, ss, st)
  BY DEF OtherEX
<1>2. /\ turn = "EX" /\ ~fault /\ UNCHANGED <<nextLazy, evict, fault>>
      /\ nextLazy' \in Int /\ evict' \in Int
  BY DEF OtherEX, IInv, TypeOK
<1>3. /\ i \in Decodings /\ i.op # "next" /\ i.pred /\ ~i.done
      /\ i.drSs = mw.exSs /\ i.drSt = mw.exSt
      /\ i.exSs = i.drSs /\ i.exSt = i.drSt /\ i.exSs = ss /\ i.exSt = st
      /\ i.op \in {"free", "ensure"} => i.drSt + i.size <= MaxAddr
      /\ Kind = "ablock" => i.op # "spill" /\ i.drSs % TransferWords = 0
  BY <1>1, <1>2, InEXFields
<1>4. ss \in Int /\ st \in Int
  BY DEF IInv, TypeOK
<1>5. PreparedBy(i)
  BY <1>1, <1>3 DEF PreparedBy, StackControl
<1> QED BY <1>1, <1>2, <1>3, <1>4, <1>5, AdvanceInv

LEMMA StackControlExceedsInv ==
  ASSUME IInv, StackControlExceeds
  PROVE  IInv'
<1>1. /\ fault' = TRUE
      /\ UNCHANGED <<mw, turn, stall, ex, ss, st, ifWait, content, phase, buffer, lazyPtr,
                     nextLazy, evict, proxyTop, mem, wait, loaded, written>>
  BY DEF StackControlExceeds, pipeVars, cacheVars
<1>2. TypeOK' /\ MWInv' /\ EXInv'
  BY <1>1 DEF IInv, TypeOK, MWInv, EXInv, PreparedBy, InRange
<1>3. ContentInv' /\ BufferInv' /\ TurnInv'
  BY <1>1 DEF IInv, ContentInv, BufferInv, TurnInv, InRange
<1> QED BY <1>2, <1>3 DEF IInv

-----------------------------------------------------------------------------
(***************************************************************************)
(* What the EX stage of a reserve or free hands over to its MW stage.      *)
(***************************************************************************)
LEMMA InitLazy ==
  ASSUME Init
  PROVE  LazyInv
<1>1. /\ lazyPtr = 0 /\ nextLazy = 0 /\ evict = 0 /\ mw.op = "nop" /\ ex.op = "next"
  BY DEF Init, Decoded, Idle, Upcoming
<1>2. HandOver
  BY <1>1 DEF HandOver, StackControl
<1> QED BY <1>1, <1>2 DEF LazyInv, ReservePending

\* Steps in which neither the instructions nor the lazy pointers change.
LEMMA LazyUntouched ==
  ASSUME LazyInv, UNCHANGED <<mw, ex, phase, lazyPtr, nextLazy, evict>>
  PROVE  LazyInv'
<1>1. ReservePending' = ReservePending
  BY DEF ReservePending
<1>2. EvictsCoherent(mw) => EvictsCoherent(mw)'
  BY DEF EvictsCoherent
<1>3. HandOver => HandOver'
  BY <1>1 DEF HandOver
<1> QED BY <1>1, <1>2, <1>3 DEF LazyInv

\* An instruction that takes effect in MW has consumed what EX left for it.
LEMMA LazyConsumed ==
  ASSUME BlockCache, IInv, LazyInv, mw.op # "nop", ~mw.done, UNCHANGED <<ex, nextLazy>>,
         lazyPtr' \in Nat,
         Kind # "lblock" => UNCHANGED <<lazyPtr, evict>>,
         Kind = "lblock" => evict' = IF mw.op = "reserve" THEN 0 ELSE evict,
         Kind = "lblock" /\ mw.op = "reserve" => lazyPtr' = nextLazy,
         \/ Finish
         \/ Repeat /\ phase' = "SPILL" /\ mw.op \in {"reserve", "spill"}
         \/ Repeat /\ phase' = "FILL" /\ mw.op \in {"ensure", "free"},
         Kind = "lblock" /\ mw.op = "free" => Finish
  PROVE  LazyInv'
<1>1. mw \in Decodings /\ mw'.op = mw.op /\ (Finish => mw'.done)
  BY FinishFields DEF IInv, TypeOK, Repeat
<1>2. \/ mw'.done
      \/ phase' = "SPILL" /\ mw.op \in {"reserve", "spill"}
      \/ phase' = "FILL" /\ mw.op \in {"ensure", "free"}
  BY <1>1, FinishFields
<1>3. ~ReservePending'
  BY <1>2 DEF ReservePending
<1>4. CASE Kind # "lblock"
  BY <1>3, <1>4 DEF LazyInv
<1>5. CASE Kind = "lblock"
  <2>1. ex.op \notin StackControl
    BY <1>5 DEF LazyInv, HandOver
  <2>2. evict' = 0
    BY <1>5, <2>1 DEF LazyInv, HandOver, ReservePending, StackControl
  <2>3. HandOver'
    BY <1>1, <1>2, <1>5, <2>1, <2>2 DEF HandOver
  <2> QED BY <1>3, <1>5, <2>3 DEF LazyInv
<1> QED BY <1>4, <1>5, KindOfCache

LEMMA LazyInMW ==
  ASSUME BlockCache, IInv, LazyInv,
         \/ ReserveIdle \/ ReserveSpilling \/ BlockEnsure \/ FreeWithoutFill
         \/ FreeWithFill \/ BlockSpill \/ Load \/ Store
  PROVE  LazyInv'
<1>1. lazyPtr \in Nat /\ nextLazy \in Nat /\ mw.addr \in Nat
  BY OperandTypes DEF LazyInv, IInv, TypeOK
<1>2. ~mw.done /\ mw.op \in StackControl \cup {"load", "store"} /\ mw.op # "nop" /\ ex' = ex
  BY DEF ReserveIdle, ReserveSpilling, BlockEnsure, FreeWithoutFill, FreeWithFill,
         BlockSpill, Load, Store, Executing, StackControl
<1>3. \A buf : SpillCall(buf) => Finish \/ (Repeat /\ phase' = "SPILL")
  BY DEF SpillCall
<1>4. \/ Finish
      \/ Repeat /\ phase' = "SPILL" /\ mw.op \in {"reserve", "spill"}
      \/ Repeat /\ phase' = "FILL" /\ mw.op \in {"ensure", "free"}
  <2>1. CASE ReserveIdle \/ ReserveSpilling
    BY <1>3, <2>1 DEF ReserveIdle, ReserveSpilling, Executing, NoTransfer
  <2>2. CASE BlockSpill
    BY <1>3, <2>2 DEF BlockSpill, Executing, NoTransfer
  <2>3. CASE BlockEnsure
    BY <2>3 DEF BlockEnsure, Executing, NoTransfer
  <2>4. CASE FreeWithoutFill \/ Load \/ Store
    BY <2>4 DEF FreeWithoutFill, Load, Store, NoTransfer
  <2>5. CASE FreeWithFill
    BY <2>5 DEF FreeWithFill, Executing
  <2> QED BY <2>1, <2>2, <2>3, <2>4, <2>5
<1>9. Kind = "lblock" /\ mw.op = "free" => Finish
  BY DEF ReserveIdle, ReserveSpilling, BlockEnsure, FreeWithoutFill, FreeWithFill,
         BlockSpill, Load, Store, Executing, NoTransfer
<1>5. CASE ReserveIdle \/ ReserveSpilling
  <2>1. /\ nextLazy' = nextLazy /\ mw.op = "reserve"
        /\ lazyPtr' = IF Kind = "lblock" THEN nextLazy ELSE lazyPtr
        /\ evict' = IF Kind = "lblock" THEN 0 ELSE evict
    BY <1>5 DEF ReserveIdle, ReserveSpilling, LazyCommit, Executing
  <2> QED BY <1>1, <1>2, <1>4, <1>9, <2>1, LazyConsumed
<1>6. CASE BlockEnsure \/ FreeWithFill \/ BlockSpill \/ Load
  <2>1. UNCHANGED <<lazyPtr, nextLazy, evict>> /\ mw.op # "reserve"
    BY <1>6 DEF BlockEnsure, FreeWithFill, BlockSpill, Load, lazyVars, Executing
  <2> QED BY <1>1, <1>2, <1>4, <1>9, <2>1, LazyConsumed
<1>7. CASE Store
  <2>1. /\ lazyPtr' = IF Kind = "lblock" THEN Greater(lazyPtr, mw.addr + 1) ELSE lazyPtr
        /\ UNCHANGED <<nextLazy, evict>> /\ mw.op # "reserve"
    BY <1>7 DEF Store, Executing
  <2>2. lazyPtr' \in Nat
    BY <1>1, <2>1 DEF Greater
  <2> QED BY <1>1, <1>2, <1>4, <1>9, <2>1, <2>2, LazyConsumed
<1>8. CASE FreeWithoutFill
  <2>1. /\ lazyPtr' = IF Kind = "lblock" THEN nextLazy ELSE lazyPtr
        /\ UNCHANGED <<nextLazy, evict>> /\ mw.op # "reserve"
    BY <1>8 DEF FreeWithoutFill, LazyCommit, Executing
  <2> QED BY <1>1, <1>2, <1>4, <1>9, <2>1, LazyConsumed
<1> QED BY <1>5, <1>6, <1>7, <1>8

\* With no stack control instruction directly behind another, EX prepares one
\* only while MW holds none.
LEMMA ApartInEX ==
  ASSUME BlockCache, IInv, LazyInv, turn = "EX", ~fault,
         Kind = "lblock", NEW i \in InEX, i.op \in StackControl
  PROVE  mw.op \notin StackControl /\ (mw.done \/ mw.op = "nop")
<1>1. mw.op \notin StackControl
  <2>1. CASE ex.op # "next"
    <3>1. i = ex
      BY <2>1 DEF InEX
    <3> QED BY <3>1 DEF LazyInv, HandOver
  <2>2. CASE ex.op = "next"
    <3>1. PICK j \in StackInstructions :
            Issuable(j, ex.drSs, ex.drSt) /\ i = Decoded(j, ex.drSs, ex.drSt)
      BY <2>2 DEF InEX
    <3>2. i.op = j.op
      BY <3>1 DEF Decoded
    <3> QED BY <3>1, <3>2, KindOfCache DEF Issuable
  <2> QED BY <2>1, <2>2
<1>2. phase = "IDLE"
  BY <1>1 DEF IInv, ContentInv, TypeOK, StackControl
<1> QED BY <1>1, <1>2 DEF IInv, TurnInv

\* EX: the reserve that comes into MW evicts only words memory holds too.
LEMMA LazyPrepared ==
  ASSUME BlockCache, IInv, LazyInv, StackControlEX
  PROVE  LazyInv'
<1>1. PICK i \in InEX :
        /\ i.op \in StackControl /\ Prepare(i).ok
        /\ Advance([i EXCEPT !.exSs = Prepare(i).ss, !.exSt = Prepare(i).st,
                              !.delta = Prepare(i).delta],
                   Prepare(i).ss, Prepare(i).st)
        /\ PrepareLazy(i)
  BY DEF StackControlEX
<1> DEFINE p == Prepare(i)
\* The instruction as a value: what it is does not change in this step.
<1>0. PICK d : d = [i EXCEPT !.exSs = p.ss, !.exSt = p.st, !.delta = p.delta]
  OBVIOUS
<1>2. turn = "EX" /\ ~fault
  BY DEF StackControlEX
<1>3. i \in Decodings /\ ~i.done /\ i.drSs = mw.exSs /\ i.drSt = mw.exSt
  BY <1>2, InEXFields
<1>4. InRange(i.drSs, i.drSt) /\ i.size \in Nat
  BY <1>2, <1>3, PointersInEXHalf, StackProgram DEF Decodings, Sizes
<1>5. /\ d.op = i.op /\ d.size = i.size /\ d.done = i.done
      /\ d.drSs = i.drSs /\ d.drSt = i.drSt /\ d.exSs = p.ss /\ d.delta = p.delta
  BY <1>0, <1>3 DEF Decodings
<1>6. Advance(d, p.ss, p.st)
  BY <1>0, <1>1
<1>7. /\ nextLazy' \in Nat
      /\ Kind # "lblock" => nextLazy' = 0 /\ evict' = 0
      /\ i.op # "reserve" => evict' = 0
      /\ Kind = "lblock" /\ i.op = "reserve" =>
           /\ nextLazy' = LazyNextAfterReserve(i.size, i.drSs, i.drSt, lazyPtr)
           /\ evict' = LazyBlocksToEvict(i.size, i.drSs, i.drSt, lazyPtr, 0)
      /\ Kind = "lblock" /\ i.op = "free" =>
           nextLazy' = LazyNextAfterFree(i.size, i.drSt, lazyPtr)
  BY <1>1, <1>2, PreparedLazy
<1>8. i.op = "reserve" => EvictsCoherent(d)'
  <2> SUFFICES ASSUME i.op = "reserve" PROVE EvictsCoherent(d)'
    OBVIOUS
  <2>1. lazyPtr' = lazyPtr /\ lazyPtr \in Nat
    BY <1>6 DEF Advance, LazyInv
  <2>2. CASE Kind # "lblock"
    <3>1. i.size \in Sizes /\ (Kind = "ablock" => i.drSs % TransferWords = 0)
      BY <1>2, InEXFields DEF Decodings
    <3>2. p.ss = i.drSs - p.delta /\ p.delta \in 0 .. NumBlocks
      BY <1>1, <1>4, <2>2, <3>1, ReservePrepared
    <3>3. lazyPtr' = 0 /\ evict' = 0
      BY <1>7, <2>1, <2>2 DEF LazyInv
    <3>4. i.drSs \in Nat /\ i.drSt \in Nat /\ i.drSt <= i.drSs /\ NumBlocks \in Nat
      BY <1>4, StackSizes DEF InRange
    <3> HIDE DEF p
    <3>5. \A k \in Int : k \in 0 .. d.drSs - d.drSt - evict' - d.delta - 1 => k >= lazyPtr'
      BY <3>3
    <3>6. d.exSs = d.drSs - d.delta - evict'
      BY <1>5, <3>2, <3>3, <3>4
    <3>7. /\ evict' \in 0 .. d.drSs - d.drSt
          /\ \A k \in d.drSs - d.drSt - evict' .. d.drSs - d.drSt - 1 : k >= lazyPtr'
      BY <1>5, <3>3, <3>4
    <3> QED BY <3>3, <3>5, <3>6, <3>7 DEF EvictsCoherent
  <2>3. CASE Kind = "lblock"
    <3>1. p = LazyPrepareReserve(i.size, i.drSs, i.drSt, lazyPtr) /\ p.ok
      BY <1>1, <2>3, BlockPrepare
    <3>2. LET gone == LazyBlocksToEvict(i.size, i.drSs, i.drSt, lazyPtr, 0)
              next == LazyNextAfterReserve(i.size, i.drSs, i.drSt, lazyPtr)
              len  == i.drSs - i.drSt
          IN  /\ gone \in 0 .. len /\ p.ss = i.drSs - p.delta - gone
              /\ \A k \in len - gone .. len - 1 : k >= lazyPtr
              /\ \A k \in 0 .. len - gone - p.delta - 1 :
                   k + i.size >= next => k >= lazyPtr
      BY <1>4, <2>1, <3>1, LazyReserveResult
    <3> HIDE DEF p
    <3> QED BY <1>5, <1>7, <2>1, <2>3, <3>2 DEF EvictsCoherent
  <2> QED BY <2>2, <2>3, KindOfCache
<1>9. lazyPtr' = lazyPtr /\ phase' = phase
  BY <1>6 DEF Advance
<1> HIDE DEF p
<1>10. ~ReservePending
  BY <1>2, EvictBefore
<1>11. CASE stall
  <2>1. mw' = mw /\ ex' = d
    BY <1>6, <1>11 DEF Advance
  <2>2. ~ReservePending'
    BY <1>9, <1>10, <2>1 DEF ReservePending
  <2>3. ASSUME Kind = "lblock" PROVE HandOver'
    <3>1. mw.op \notin StackControl /\ (mw.done \/ mw.op = "nop")
      BY <1>1, <1>2, <2>3, ApartInEX
    <3> QED BY <1>5, <1>7, <1>9, <2>1, <2>3, <3>1 DEF HandOver, StackControl
  <2> QED BY <1>7, <1>9, <2>2, <2>3 DEF LazyInv
<1>12. CASE ~stall
  <2>1. mw' = d /\ ex'.op = "next" /\ phase = "IDLE"
    BY <1>2, <1>6, <1>12 DEF Advance, Upcoming, Decoded, Idle, IInv, TurnInv
  <2>2. ReservePending' => EvictsCoherent(mw)'
    <3>1. ReservePending' => i.op = "reserve"
      BY <1>5, <2>1 DEF ReservePending
    <3>2. EvictsCoherent(d)' => EvictsCoherent(mw)'
      BY <2>1 DEF EvictsCoherent
    <3> QED BY <1>8, <3>1, <3>2
  <2>3. ASSUME Kind = "lblock" PROVE HandOver'
    <3>1. evict' # 0 => ReservePending'
      BY <1>3, <1>5, <1>7, <1>9, <2>1 DEF ReservePending
    <3> QED BY <1>5, <1>7, <1>9, <2>1, <2>3, <3>1 DEF HandOver, StackControl
  <2> QED BY <1>7, <1>9, <2>2, <2>3 DEF LazyInv
<1> QED BY <1>11, <1>12

LEMMA LazyOtherEX ==
  ASSUME BlockCache, IInv, LazyInv, OtherEX
  PROVE  LazyInv'
<1>1. PICK i \in InEX : i.op \notin StackControl /\ Advance(i, ss, st)
  BY DEF OtherEX
<1>2. turn = "EX" /\ ~fault /\ UNCHANGED <<nextLazy, evict, lazyPtr, phase>>
  BY <1>1 DEF OtherEX, Advance
<1>3. evict = 0 /\ ~ReservePending
  BY <1>1, <1>2, EvictBefore DEF StackControl
<1>4. \/ mw' = mw /\ ex' = i
      \/ mw' = i /\ ex'.op = "next"
  BY <1>1 DEF Advance, Upcoming, Decoded, Idle
<1>5. ~ReservePending'
  BY <1>1, <1>2, <1>3, <1>4 DEF ReservePending, StackControl
<1>6. HandOver => HandOver'
  BY <1>1, <1>2, <1>3, <1>4 DEF HandOver, StackControl
<1> QED BY <1>2, <1>5, <1>6 DEF LazyInv

\* What EX hands over to MW stays valid in every step.
LEMMA NextLazyInv ==
  ASSUME BlockCache, IInv, LazyInv, [Next]_vars
  PROVE  LazyInv'
<1>1. CASE UNCHANGED vars \/ Ended
  BY <1>1, LazyUntouched DEF vars, Ended
<1>2. CASE MWStep
  <2>1. CASE \/ ReserveIdle \/ ReserveSpilling \/ BlockEnsure \/ FreeWithoutFill
             \/ FreeWithFill \/ BlockSpill \/ Load \/ Store
    BY <2>1, LazyInMW
  <2>2. CASE ReserveUnderflows \/ SpillExceeds \/ AccessExceeds \/ NothingToDoInMW
    <3>1. UNCHANGED <<mw, ex, phase, lazyPtr, nextLazy, evict>>
      BY <2>2 DEF ReserveUnderflows, SpillExceeds, AccessExceeds, NothingToDoInMW,
                  Executing, Throw, cacheVars
    <3> QED BY <3>1, LazyUntouched
  <2>3. ~(IdealEnsure \/ ProxyFree \/ FreeExceeds \/ IdealSpill
          \/ ProxyLoad \/ ProxyStore)
    BY KindOfCache DEF IdealEnsure, ProxyFree, FreeExceeds, IdealSpill, ProxyLoad,
           ProxyStore
  <2> QED BY <1>2, <2>1, <2>2, <2>3 DEF MWStep
<1>3. CASE EXStep
  <2>1. CASE StackControlExceeds
    BY <2>1, LazyUntouched DEF StackControlExceeds, pipeVars, cacheVars
  <2> QED BY <1>3, <2>1, LazyPrepared, LazyOtherEX DEF EXStep
<1> QED BY <1>1, <1>2, <1>3 DEF Next

-----------------------------------------------------------------------------
(***************************************************************************)
(* The theorems.                                                           *)
(***************************************************************************)
\* Every step of the three block caches preserves the invariant.
LEMMA NextInv ==
  ASSUME BlockCache, IInv, LazyInv, [Next]_vars
  PROVE  IInv'
<1>1. CASE UNCHANGED vars
  <2>1. TypeOK' /\ MWInv' /\ EXInv'
    BY <1>1 DEF vars, IInv, TypeOK, MWInv, EXInv, PreparedBy, InRange
  <2>2. ContentInv' /\ BufferInv' /\ TurnInv'
    BY <1>1 DEF vars, IInv, ContentInv, BufferInv, TurnInv, InRange
  <2> QED BY <2>1, <2>2 DEF IInv
<1>2. CASE MWStep
  <2>1. CASE ReserveIdle
    BY <2>1, ReserveIdleInv
  <2>2. CASE ReserveSpilling
    BY <2>2, ReserveSpillingInv
  <2>3. CASE BlockEnsure
    BY <2>3, BlockEnsureInv
  <2>4. CASE FreeWithoutFill \/ FreeWithFill
    BY <2>4, FreeWithoutFillInv, FreeWithFillInv
  <2>5. CASE BlockSpill
    BY <2>5, BlockSpillInv
  <2>6. CASE Load \/ Store
    BY <2>6, AccessInv
  <2>7. CASE ReserveUnderflows \/ SpillExceeds \/ AccessExceeds
    BY <2>7, ThrowingInv
  <2>8. CASE NothingToDoInMW
    BY <2>8, NothingToDoInMWInv
  <2>9. ~(IdealEnsure \/ ProxyFree \/ FreeExceeds \/ IdealSpill
          \/ ProxyLoad \/ ProxyStore)
    BY KindOfCache DEF IdealEnsure, ProxyFree, FreeExceeds, IdealSpill, ProxyLoad,
           ProxyStore
  <2> QED BY <1>2, <2>1, <2>2, <2>3, <2>4, <2>5, <2>6, <2>7, <2>8, <2>9 DEF MWStep
<1>3. CASE EXStep
  BY <1>3, StackControlEXInv, StackControlExceedsInv, OtherEXInv DEF EXStep
<1>4. CASE Ended
  BY <1>1, <1>4 DEF Ended
<1> QED BY <1>1, <1>2, <1>3, <1>4 DEF Next

LEMMA Invariance == ASSUME BlockCache PROVE Spec => [](IInv /\ LazyInv)
<1>1. Init => IInv /\ LazyInv
  BY InitInv, InitLazy
<1>2. IInv /\ LazyInv /\ [Next]_vars => IInv' /\ LazyInv'
  BY NextInv, NextLazyInv
<1> QED BY <1>1, <1>2, PTL DEF Spec

\* What the invariant says about the number of words in the cache.
LEMMA InvariantBoundsContent ==
  ASSUME IInv, LazyInv
  PROVE  WithinCapacity /\ PointersMatchContent /\ TransferFitsBuffer
<1>1. /\ mw \in Decodings /\ phase \in {"IDLE", "SPILL", "FILL"} /\ NumBlocks \in Nat
      /\ Len(content) \in Nat /\ mw.done \in BOOLEAN
  BY LenProperties, OperandTypes, StackSizes DEF IInv, TypeOK
<1>2. InRange(mw.drSs, mw.drSt) /\ PreparedBy(mw)
  BY DEF IInv, MWInv
<1>3. \/ Len(content) = mw.exSs - mw.exSt /\ InRange(mw.exSs, mw.exSt)
      \/ Len(content) = mw.drSs - mw.drSt /\ InRange(mw.drSs, mw.drSt)
      \/ Len(content) = 0
  <2>1. content = <<>> => Len(content) = 0
    BY EmptySeq
  <2> QED BY <1>1, <1>2, <2>1 DEF IInv, ContentInv
<1>4. WithinCapacity
  BY <1>1, <1>3 DEF WithinCapacity, InRange
<1>5. PointersMatchContent
  <2> SUFFICES ASSUME turn = "EX", ~stall, ~fault
               PROVE  Len(content) = mw.exSs - mw.exSt
    BY DEF PointersMatchContent
  <2>1. phase = "IDLE" /\ (mw.done \/ mw.op = "nop")
    BY DEF IInv, TurnInv
  <2>2. mw.op = "nop" => mw.exSs = mw.drSs /\ mw.exSt = mw.drSt
    BY <1>2 DEF PreparedBy, StackControl
  <2> QED BY <1>1, <2>1, <2>2 DEF IInv, ContentInv
<1>6. TransferFitsBuffer
  <2>1. Len(buffer) <= NumBlocks
    BY DEF IInv, BufferInv
  <2>2. ASSUME phase = "FILL" PROVE mw.delta <= NumBlocks
    <3>1. CASE mw.op = "ensure"
      <4>1. /\ InRange(mw.exSs, mw.exSt) /\ mw.exSt = mw.drSt /\ mw.delta \in Nat
            /\ mw.exSs = mw.drSs + mw.delta
        BY <1>2, <3>1 DEF PreparedBy
      <4> QED BY <1>1, <1>2, <4>1 DEF InRange
    <3>2. CASE mw.op = "free"
      BY <1>1, <1>2, <3>2 DEF PreparedBy
    <3> QED BY <2>2, <3>1, <3>2 DEF IInv, ContentInv
  <2>3. ASSUME mw.op = "reserve", ~mw.done, phase = "IDLE"
        PROVE  mw.delta <= Len(content) + mw.size
    <3>1. /\ mw.exSt = mw.drSt - mw.size /\ mw.exSs = mw.drSs - mw.delta - evict
          /\ mw.delta \in 0 .. NumBlocks /\ InRange(mw.exSs, mw.exSt)
          /\ evict \in 0 .. mw.drSs - mw.drSt
      BY <1>2, <2>3 DEF PreparedBy, LazyInv, ReservePending, EvictsCoherent
    <3>2. Len(content) = mw.drSs - mw.drSt
      BY <2>3 DEF IInv, ContentInv
    <3>3. mw.drSs \in Int /\ mw.drSt \in Int /\ mw.size \in Nat
      BY <1>1, OperandTypes
    <3>4. mw.drSt - mw.size <= mw.drSs - mw.delta - evict
      BY <1>1, <3>1 DEF InRange
    <3> QED BY <1>1, <3>1, <3>2, <3>3, <3>4
  <2> QED BY <2>1, <2>2, <2>3 DEF TransferFitsBuffer
<1> QED BY <1>4, <1>5, <1>6

\* Type correctness of the three block caches and the pipeline around them, for
\* every capacity, stack region, latency and program of the kind each is for.
THEOREM BlockTypeOK == ASSUME BlockCache PROVE Spec => []TypeOK
<1>1. IInv => TypeOK
  BY DEF IInv
<1> QED BY <1>1, Invariance, PTL

\* block_stack_cache_t never holds more than Num_blocks words, although EX
\* moves the pointers while an earlier transfer still changes the content.
THEOREM BlockWithinCapacity == ASSUME BlockProgram PROVE Spec => []WithinCapacity
<1>1. IInv /\ LazyInv => WithinCapacity
  BY InvariantBoundsContent
<1>2. BlockCache
  BY DEF BlockProgram, BlockCache
<1> QED BY <1>1, <1>2, Invariance, PTL

\* When a stack instruction leaves MW, block_stack_cache_t holds exactly the
\* words between the stack top and the spill pointer computed in EX.
THEOREM BlockPointersMatchContent ==
  ASSUME BlockProgram PROVE Spec => []PointersMatchContent
<1>1. IInv /\ LazyInv => PointersMatchContent
  BY InvariantBoundsContent
<1>2. BlockCache
  BY DEF BlockProgram, BlockCache
<1> QED BY <1>1, <1>2, Invariance, PTL

\* No transfer of block_stack_cache_t exceeds Buffer, and reserve never spills
\* words that the cache does not hold.
THEOREM BlockTransferFitsBuffer ==
  ASSUME BlockProgram PROVE Spec => []TransferFitsBuffer
<1>1. IInv /\ LazyInv => TransferFitsBuffer
  BY InvariantBoundsContent
<1>2. BlockCache
  BY DEF BlockProgram, BlockCache
<1> QED BY <1>1, <1>2, Invariance, PTL

(***************************************************************************)
(* The same of block_lazy_stack_cache_t, for a program in which no stack    *)
(* control instruction directly follows another.                           *)
(***************************************************************************)
\* block_lazy_stack_cache_t never holds more than Num_blocks words, although a
\* reserve discards the words it believes unmodified before the new ones come.
THEOREM LazyWithinCapacity == ASSUME LazyProgram PROVE Spec => []WithinCapacity
<1>1. IInv /\ LazyInv => WithinCapacity
  BY InvariantBoundsContent
<1>2. BlockCache
  BY DEF LazyProgram, BlockCache
<1> QED BY <1>1, <1>2, Invariance, PTL

\* When a stack instruction leaves MW, block_lazy_stack_cache_t holds exactly
\* the words between its pointers, those a reserve has discarded left out.
THEOREM LazyPointersMatchContent ==
  ASSUME LazyProgram PROVE Spec => []PointersMatchContent
<1>1. IInv /\ LazyInv => PointersMatchContent
  BY InvariantBoundsContent
<1>2. BlockCache
  BY DEF LazyProgram, BlockCache
<1> QED BY <1>1, <1>2, Invariance, PTL

\* No transfer of block_lazy_stack_cache_t exceeds Buffer, and the words it
\* still has to spill after discarding some are words it holds.
THEOREM LazyTransferFitsBuffer ==
  ASSUME LazyProgram PROVE Spec => []TransferFitsBuffer
<1>1. IInv /\ LazyInv => TransferFitsBuffer
  BY InvariantBoundsContent
<1>2. BlockCache
  BY DEF LazyProgram, BlockCache
<1> QED BY <1>1, <1>2, Invariance, PTL

-----------------------------------------------------------------------------
(***************************************************************************)
(* The same of the aligned cache, for programs without sspill whose sizes  *)
(* leave room for the words that alignment adds to a transfer.             *)
(***************************************************************************)
\* block_aligned_stack_cache_t never holds more than Num_blocks words, although
\* it rounds the words to spill up to whole blocks, and a free reads a block.
THEOREM AlignedWithinCapacity ==
  ASSUME AlignedProgram PROVE Spec => []WithinCapacity
<1>1. IInv /\ LazyInv => WithinCapacity
  BY InvariantBoundsContent
<1>2. BlockCache
  BY DEF AlignedProgram, BlockCache
<1> QED BY <1>1, <1>2, Invariance, PTL

\* When a stack instruction leaves MW, block_aligned_stack_cache_t holds exactly
\* the words between its pointers, also after the free that dropped them all and
\* read back the block the spill pointer was rounded up to.
THEOREM AlignedPointersMatchContent ==
  ASSUME AlignedProgram PROVE Spec => []PointersMatchContent
<1>1. IInv /\ LazyInv => PointersMatchContent
  BY InvariantBoundsContent
<1>2. BlockCache
  BY DEF AlignedProgram, BlockCache
<1> QED BY <1>1, <1>2, Invariance, PTL

\* The words a reserve of block_aligned_stack_cache_t spills, rounded up to whole
\* blocks, fit into Buffer, and are words it holds.
THEOREM AlignedTransferFitsBuffer ==
  ASSUME AlignedProgram PROVE Spec => []TransferFitsBuffer
<1>1. IInv /\ LazyInv => TransferFitsBuffer
  BY InvariantBoundsContent
<1>2. BlockCache
  BY DEF AlignedProgram, BlockCache
<1> QED BY <1>1, <1>2, Invariance, PTL

-----------------------------------------------------------------------------
(***************************************************************************)
(* The refinement: the block stack cache implements the stack of           *)
(* ProgramStack.  Whatever is spilled, filled, waiting for memory or held  *)
(* back by a stall, a program of enabled instructions loads the words it   *)
(* stored.                                                                 *)
(***************************************************************************)

(***************************************************************************)
(* WordAt as an operator of all it depends on, so that the word seen       *)
(* before and after a step can be compared: the word at address a of a     *)
(* stack with its top at top, whose topmost words are c, the words from    *)
(* low on in buf, and the others in m.                                     *)
(***************************************************************************)
Seen(c, top, buf, low, m, a) ==
  LET k == Len(c) - (a - top)
  IN  CASE k \in 1 .. Len(c) -> c[k]
        [] k \notin 1 .. Len(c) /\ a \in low .. low + Len(buf) - 1 -> buf[a - low + 1]
        [] OTHER -> m[a]

\* A word the cache holds.
LEMMA SeenCached ==
  ASSUME NEW c \in Seq(Val), NEW top \in Int, NEW buf \in Seq(Val), NEW low \in Int,
         NEW m, NEW a \in Int, a >= top, a < top + Len(c)
  PROVE  Seen(c, top, buf, low, m, a) = c[Len(c) - (a - top)]
<1>1. Len(c) \in Nat
  BY LenProperties
<1>2. Len(c) - (a - top) \in 1 .. Len(c)
  BY <1>1
<1> QED BY <1>2 DEF Seen

\* A word on its way to memory.
LEMMA SeenBuffered ==
  ASSUME NEW c \in Seq(Val), NEW top \in Int, NEW buf \in Seq(Val), NEW low \in Int,
         NEW m, NEW a \in Int, a >= top + Len(c), a >= low, a < low + Len(buf)
  PROVE  Seen(c, top, buf, low, m, a) = buf[a - low + 1]
<1>1. Len(c) \in Nat /\ Len(buf) \in Nat
  BY LenProperties
<1>2. Len(c) - (a - top) \notin 1 .. Len(c)
  BY <1>1
<1>3. a \in low .. low + Len(buf) - 1
  BY <1>1
<1> QED BY <1>2, <1>3 DEF Seen

\* A word in memory only.
LEMMA SeenInMemory ==
  ASSUME NEW c \in Seq(Val), NEW top \in Int, NEW buf \in Seq(Val), NEW low \in Int,
         NEW m, NEW a \in Int, a >= top + Len(c),
         a < low \/ a >= low + Len(buf)
  PROVE  Seen(c, top, buf, low, m, a) = m[a]
<1>1. Len(c) \in Nat /\ Len(buf) \in Nat
  BY LenProperties
<1>2. Len(c) - (a - top) \notin 1 .. Len(c)
  BY <1>1
<1>3. a \notin low .. low + Len(buf) - 1
  BY <1>1
<1> QED BY <1>2, <1>3 DEF Seen

\* With an empty buffer, a word the cache does not hold is in memory.
LEMMA SeenUnbuffered ==
  ASSUME NEW c \in Seq(Val), NEW top \in Int, NEW e \in Seq(Val), Len(e) < 1,
         NEW low \in Int, NEW m, NEW a \in Int, a >= top + Len(c)
  PROVE  Seen(c, top, e, low, m, a) = m[a]
<1>1. a < low \/ a >= low + Len(e)
  BY LenProperties
<1> QED BY <1>1, SeenInMemory

\* With an empty buffer it does not matter where a spill would write.
LEMMA SeenAnyLow ==
  ASSUME NEW c \in Seq(Val), NEW top \in Int, NEW e \in Seq(Val), Len(e) < 1,
         NEW low \in Int, NEW lower \in Int, NEW m, NEW a \in Int, a >= top
  PROVE  Seen(c, top, e, low, m, a) = Seen(c, top, e, lower, m, a)
<1>1. Len(c) \in Nat
  BY LenProperties
<1>2. CASE a < top + Len(c)
  BY <1>2, SeenCached
<1>3. CASE a >= top + Len(c)
  BY <1>3, SeenUnbuffered
<1> QED BY <1>1, <1>2, <1>3

\* sres: new words at the top leave those above it where they are.
LEMMA SeenAfterReserve ==
  ASSUME NEW c \in Seq(Val), NEW n \in Nat, NEW top \in Int,
         NEW e \in Seq(Val), Len(e) < 1, NEW low \in Int, NEW m, NEW a \in Int, a >= top
  PROVE  Seen(Resized(c, Len(c) + n), top - n, e, low, m, a) = Seen(c, top, e, low, m, a)
<1>7. PICK r, up : r = Resized(c, Len(c) + n) /\ up = top - n
  OBVIOUS
<1> SUFFICES Seen(r, up, e, low, m, a) = Seen(c, top, e, low, m, a)
  BY <1>7
<1>1. Len(c) \in Nat /\ Len(c) + n \in Nat
  BY LenProperties
<1>2. r \in Seq(Val) /\ Len(r) = Len(c) + n
  BY <1>1, <1>7, ResizedType
<1>3. \A k \in 1 .. Len(c) : r[k] = c[k]
  BY <1>1, <1>7 DEF Resized
<1>4. up \in Int /\ a >= up /\ up + Len(r) = top + Len(c)
  BY <1>1, <1>2, <1>7
<1>5. CASE a < top + Len(c)
  <2> DEFINE k == Len(c) - (a - top)
  <2>1. k \in 1 .. Len(c) /\ Len(r) - (a - up) = k /\ a < up + Len(r)
    BY <1>1, <1>2, <1>4, <1>5
  <2>2. Seen(r, up, e, low, m, a) = r[Len(r) - (a - up)]
    BY <1>2, <1>4, <2>1, SeenCached
  <2>3. Seen(c, top, e, low, m, a) = c[k]
    BY <1>5, SeenCached
  <2> HIDE DEF k
  <2>4. r[Len(r) - (a - up)] = c[k]
    BY <1>3, <2>1
  <2> QED BY <2>2, <2>3, <2>4
<1>6. CASE a >= top + Len(c)
  <2>1. Seen(r, up, e, low, m, a) = m[a]
    BY <1>2, <1>4, <1>6, SeenUnbuffered
  <2>2. Seen(c, top, e, low, m, a) = m[a]
    BY <1>6, SeenUnbuffered
  <2> QED BY <2>1, <2>2
<1> QED BY <1>1, <1>5, <1>6

\* sfree: the words at and above the new top stay where they are.
LEMMA SeenAfterFree ==
  ASSUME NEW c \in Seq(Val), NEW e \in Seq(Val), Len(e) < 1,
         NEW n \in Nat, NEW top \in Int,
         NEW low \in Int, NEW lower \in Int, NEW m, NEW a \in Int,
         NEW up, up = top + n, a >= up,
         NEW r, \/ Len(c) <= n /\ r \in Seq(Val) /\ Len(r) < 1
                \/ Len(c) > n /\ r = Resized(c, Len(c) - n)
  PROVE  Seen(r, up, e, lower, m, a) = Seen(c, top, e, low, m, a)
<1>1. Len(c) \in Nat /\ up \in Int /\ a >= up /\ a >= top
  BY LenProperties
<1>2. CASE Len(c) <= n /\ r \in Seq(Val) /\ Len(r) < 1
  <2>1. Len(r) \in Nat
    BY <1>2, LenProperties
  <2>2. a >= up + Len(r) /\ a >= top + Len(c)
    BY <1>1, <1>2, <2>1
  <2>3. Seen(r, up, e, lower, m, a) = m[a]
    BY <1>1, <1>2, <2>2, SeenUnbuffered
  <2>4. Seen(c, top, e, low, m, a) = m[a]
    BY <2>2, SeenUnbuffered
  <2> QED BY <2>3, <2>4
<1>3. CASE Len(c) > n /\ r = Resized(c, Len(c) - n)
  <2>1. Len(c) - n \in Nat
    BY <1>1, <1>3
  <2>2. r \in Seq(Val) /\ Len(r) = Len(c) - n
    BY <1>3, <2>1, ResizedType
  <2>3. \A k \in 1 .. Len(c) - n : r[k] = c[k]
    BY <1>1, <1>3, <2>1 DEF Resized
  <2>4. up + Len(r) = top + Len(c)
    BY <1>1, <2>2
  <2>5. CASE a < top + Len(c)
    <3> DEFINE k == Len(c) - (a - top)
    <3>1. k \in 1 .. Len(c) - n /\ Len(r) - (a - up) = k /\ a < up + Len(r)
      BY <1>1, <2>2, <2>4, <2>5
    <3>2. Seen(r, up, e, lower, m, a) = r[Len(r) - (a - up)]
      BY <1>1, <2>2, <3>1, SeenCached
    <3>3. Seen(c, top, e, low, m, a) = c[k]
      BY <1>1, <2>5, SeenCached
    <3> HIDE DEF k
    <3>4. r[Len(r) - (a - up)] = c[k]
      BY <2>3, <3>1
    <3> QED BY <3>2, <3>3, <3>4
  <2>6. CASE a >= top + Len(c)
    <3>1. Seen(r, up, e, lower, m, a) = m[a]
      BY <1>1, <2>2, <2>4, <2>6, SeenUnbuffered
    <3>2. Seen(c, top, e, low, m, a) = m[a]
      BY <2>6, SeenUnbuffered
    <3> QED BY <3>1, <3>2
  <2> QED BY <1>1, <2>5, <2>6
<1> QED BY <1>2, <1>3

\* The words taken out for a spill are seen in the buffer, at the address the
\* spill will write them to.
LEMMA SeenAfterTake ==
  ASSUME NEW c \in Seq(Val), NEW e \in Seq(Val), Len(e) < 1,
         NEW n \in 0 .. Len(c), NEW top \in Int,
         NEW low \in Int, NEW m, NEW a \in Int, a >= top
  PROVE  Seen(Without(c, n), top, DeepestReversed(c, n), top + Len(c) - n, m, a) =
           Seen(c, top, e, low, m, a)
<1> DEFINE r == Without(c, n)
           b == DeepestReversed(c, n)
           new == top + Len(c) - n
<1>1. Len(c) \in Nat /\ n \in Nat /\ n <= Len(c) /\ new \in Int
  BY LenProperties
<1>2. r \in Seq(Val) /\ Len(r) = Len(c) - n /\ b \in Seq(Val) /\ Len(b) = n
  BY WithoutType, DeepestReversedType
<1>3. \A k \in 1 .. Len(c) - n : r[k] = c[n + k]
  <2>1. \A i \in n + 1 .. Len(c) : c[i] \in Val
    BY <1>1, ElementOfSeq
  <2> QED BY <1>1, <2>1, SubSeqProperties DEF Without
<1>4. \A j \in 1 .. n : b[j] = c[n + 1 - j]
  BY DEF DeepestReversed
<1>5. /\ top + Len(r) = new
      /\ new + Len(b) = top + Len(c)
  BY <1>1, <1>2
<1>0. r \in Seq(Val) /\ b \in Seq(Val) /\ new \in Int
  BY <1>1, <1>2
<1> HIDE DEF r, b
<1>6. CASE a < new
  <2> DEFINE k == Len(r) - (a - top)
             j == Len(c) - (a - top)
  <2>1. k \in 1 .. Len(c) - n /\ n + k = j /\ a < top + Len(c) /\ a < top + Len(r)
    BY <1>1, <1>2, <1>5, <1>6
  <2> HIDE DEF new
  <2>2. Seen(r, top, b, new, m, a) = r[k]
    BY <1>1, <1>2, <2>1, SeenCached
  <2>3. Seen(c, top, e, low, m, a) = c[j]
    BY <2>1, SeenCached
  <2> HIDE DEF k, j
  <2>4. r[k] = c[j]
    BY <1>3, <2>1
  <2> QED BY <2>2, <2>3, <2>4 DEF r, b, new
<1>7. CASE a >= new /\ a < top + Len(c)
  <2> DEFINE k == a - new + 1
             j == Len(c) - (a - top)
  <2>1. /\ k \in 1 .. n /\ n + 1 - k = j /\ a >= top + Len(r)
        /\ a >= new /\ a < new + Len(b)
    BY <1>1, <1>2, <1>5, <1>7
  <2> HIDE DEF new
  <2>2. Seen(r, top, b, new, m, a) = b[k]
    BY <1>0, <2>1, SeenBuffered
  <2>3. Seen(c, top, e, low, m, a) = c[j]
    BY <1>7, SeenCached
  <2> HIDE DEF k, j
  <2>4. b[k] = c[j]
    BY <1>4, <2>1
  <2> QED BY <2>2, <2>3, <2>4 DEF r, b, new
<1>8. CASE a >= top + Len(c)
  <2>1. a >= top + Len(r) /\ a >= new + Len(b)
    BY <1>1, <1>2, <1>5, <1>8
  <2> HIDE DEF new
  <2>2. Seen(r, top, b, new, m, a) = m[a]
    BY <1>0, <2>1, SeenInMemory
  <2>3. Seen(c, top, e, low, m, a) = m[a]
    BY <1>8, SeenUnbuffered
  <2> QED BY <2>2, <2>3 DEF r, b, new
<1> QED BY <1>1, <1>6, <1>7, <1>8

\* Words erased without being spilled are seen as before if memory holds them.
LEMMA SeenAfterEvict ==
  ASSUME NEW c \in Seq(Val), NEW e \in Seq(Val), Len(e) < 1,
         NEW n \in 0 .. Len(c), NEW top \in Int,
         NEW low \in Int, NEW m, NEW a \in Int, a >= top,
         a >= top + Len(c) - n => Seen(c, top, e, low, m, a) = m[a],
         NEW r, r = Without(c, n)
  PROVE  Seen(r, top, e, low, m, a) = Seen(c, top, e, low, m, a)
<1>1. Len(c) \in Nat /\ n \in Nat /\ n <= Len(c)
  BY LenProperties
<1>2. r \in Seq(Val) /\ Len(r) = Len(c) - n
  BY WithoutType
<1>3. \A k \in 1 .. Len(c) - n : r[k] = c[n + k]
  <2>1. \A i \in n + 1 .. Len(c) : c[i] \in Val
    BY <1>1, ElementOfSeq
  <2> QED BY <1>1, <2>1, SubSeqProperties DEF Without
<1>4. CASE a < top + Len(c) - n
  <2> DEFINE k == Len(r) - (a - top)
             j == Len(c) - (a - top)
  <2>1. k \in 1 .. Len(c) - n /\ n + k = j /\ a < top + Len(c) /\ a < top + Len(r)
    BY <1>1, <1>2, <1>4
  <2>2. Seen(r, top, e, low, m, a) = r[k]
    BY <1>2, <2>1, SeenCached
  <2>3. Seen(c, top, e, low, m, a) = c[j]
    <3>1. a < top + Len(c)
      BY <2>1
    <3>2. Len(c) - (a - top) \in 1 .. Len(c)
      BY <1>1, <3>1
    <3> QED BY <3>1, <3>2 DEF Seen
  <2> HIDE DEF k, j
  <2>4. r[k] = c[j]
    BY <1>3, <2>1
  <2> QED BY <2>2, <2>3, <2>4
<1>5. CASE a >= top + Len(c) - n
  <2>1. a >= top + Len(r)
    BY <1>1, <1>2, <1>5
  <2> QED BY <1>2, <1>5, <2>1, SeenUnbuffered
<1> QED BY <1>1, <1>4, <1>5

\* A word written back is seen in memory as it was seen in the buffer.
LEMMA SeenAfterWrite ==
  ASSUME NEW c \in Seq(Val), NEW e \in Seq(Val), Len(e) < 1,
         NEW top \in Int, NEW buf \in Seq(Val), mw.exSs \in Int,
         NEW a \in Addr, a >= top
  PROVE  Seen(c, top, e, mw.exSs, MemoryAfterSpill(buf), a) =
           Seen(c, top, buf, mw.exSs, mem, a)
<1> DEFINE low == mw.exSs
           after == MemoryAfterSpill(buf)
<1>1. a \in Int /\ Len(c) \in Nat /\ Len(buf) \in Nat /\ low \in Int
  BY LenProperties, StackProgram DEF Addr
<1>2. after[a] = IF a \in low .. low + Len(buf) - 1 THEN buf[a - low + 1] ELSE mem[a]
  BY DEF MemoryAfterSpill
<1> HIDE DEF low, after
<1>3. CASE a < top + Len(c)
  <2>1. Seen(c, top, e, low, after, a) = c[Len(c) - (a - top)]
    BY <1>1, <1>3, SeenCached
  <2>2. Seen(c, top, buf, low, mem, a) = c[Len(c) - (a - top)]
    BY <1>1, <1>3, SeenCached
  <2> QED BY <2>1, <2>2 DEF low, after
<1>4. CASE a >= top + Len(c)
  <2>1. Seen(c, top, e, low, after, a) = after[a]
    BY <1>1, <1>4, SeenUnbuffered
  <2>2. CASE a >= low /\ a < low + Len(buf)
    <3>1. Seen(c, top, buf, low, mem, a) = buf[a - low + 1]
      BY <1>1, <1>4, <2>2, SeenBuffered
    <3> QED BY <1>1, <1>2, <2>1, <2>2, <3>1 DEF low, after
  <2>3. CASE a < low \/ a >= low + Len(buf)
    <3>1. Seen(c, top, buf, low, mem, a) = mem[a]
      BY <1>1, <1>4, <2>3, SeenInMemory
    <3> QED BY <1>1, <1>2, <2>1, <2>3, <3>1 DEF low, after
  <2> QED BY <1>1, <2>2, <2>3
<1> QED BY <1>1, <1>3, <1>4

\* The words a fill reads are those seen in memory before it.
LEMMA SeenAfterFill ==
  ASSUME NEW c \in Seq(Val), NEW e \in Seq(Val), Len(e) < 1,
         NEW top \in Int, NEW low \in Int,
         TypeOK, NEW n \in Nat, mw.delta = n, mw.exSs = top + Len(c) + n,
         mw.exSs - mw.delta \in Addr, mw.exSs \in Addr,
         NEW a \in Addr, a >= top
  PROVE  Seen(FilledFrom(Deepened(c, n)), top, e, mw.exSs, mem, a) =
           Seen(c, top, e, low, mem, a)
<1> DEFINE d == Deepened(c, n)
           f == FilledFrom(d)
           end == mw.exSs
<1>1. /\ a \in Int /\ Len(c) \in Nat /\ end \in Int /\ mw \in Decodings
      /\ mem \in [Addr -> Val] /\ end = top + Len(c) + n
  BY LenProperties, StackProgram DEF Addr, TypeOK, Decodings
<1>2. d \in Seq(Val) /\ Len(d) = n + Len(c)
  BY DeepenedType
<1>3. \A k \in 1 .. Len(c) : d[n + k] = c[k]
  <2>1. [k \in 1 .. n |-> Zero] \in [1 .. n -> Val]
    BY StackProgram
  <2>2. /\ [k \in 1 .. n |-> Zero] \in Seq(Val)
        /\ Len([k \in 1 .. n |-> Zero]) = n
    BY <2>1, FunctionIsSeq
  <2> QED BY <1>1, <2>2, ConcatProperties DEF Deepened
<1> HIDE DEF d
<1>4. f \in Seq(Val) /\ Len(f) = n + Len(c)
  BY <1>1, <1>2, FilledFromType
<1>5. \A k \in 1 .. n + Len(c) : f[k] = IF k <= n THEN mem[end - k] ELSE d[k]
  BY <1>2 DEF FilledFrom
<1> HIDE DEF f, end
<1>6. CASE a < top + Len(c)
  <2> DEFINE k == Len(f) - (a - top)
             j == Len(c) - (a - top)
  <2>1. /\ k \in 1 .. n + Len(c) /\ k > n /\ k = n + j /\ j \in 1 .. Len(c)
        /\ a < top + Len(f)
    BY <1>1, <1>4, <1>6
  <2>2. Seen(f, top, e, end, mem, a) = f[k]
    BY <1>1, <1>4, <2>1, SeenCached
  <2>3. Seen(c, top, e, low, mem, a) = c[j]
    BY <1>1, <1>6, SeenCached
  <2> HIDE DEF k, j
  <2>4. f[k] = d[k]
    BY <1>5, <2>1
  <2>5. d[k] = c[j]
    BY <1>3, <2>1
  <2> QED BY <2>2, <2>3, <2>4, <2>5 DEF f, d, end
<1>7. CASE a >= top + Len(c) /\ a < end
  <2> DEFINE k == Len(f) - (a - top)
  <2>1. k \in 1 .. n + Len(c) /\ k <= n /\ end - k = a /\ a < top + Len(f)
    BY <1>1, <1>4, <1>7
  <2>2. Seen(f, top, e, end, mem, a) = f[k]
    BY <1>1, <1>4, <2>1, SeenCached
  <2>3. Seen(c, top, e, low, mem, a) = mem[a]
    BY <1>1, <1>7, SeenUnbuffered
  <2> HIDE DEF k
  <2>4. f[k] = mem[a]
    BY <1>5, <2>1
  <2> QED BY <2>2, <2>3, <2>4 DEF f, d, end
<1>8. CASE a >= end
  <2>1. a >= top + Len(c) /\ a >= top + Len(f)
    BY <1>1, <1>4, <1>8
  <2>2. Seen(f, top, e, end, mem, a) = mem[a]
    BY <1>1, <1>4, <2>1, SeenUnbuffered
  <2>3. Seen(c, top, e, low, mem, a) = mem[a]
    BY <1>1, <2>1, SeenUnbuffered
  <2> QED BY <2>2, <2>3 DEF f, d, end
<1> QED BY <1>1, <1>6, <1>7, <1>8

-----------------------------------------------------------------------------
(***************************************************************************)
(* What is promised lies above the top, and Buffer holds words only while  *)
(* they are being spilled.                                                 *)
(***************************************************************************)
StackInv ==
  /\ \A a \in written : a >= ArchTop
  /\ phase # "SPILL" => Len(buffer) < 1

\* What the lazy cache drops without spilling it is in memory.
CoherentInv == Kind = "lblock" => CoherentAboveLazyPointer

\* A step of the abstract stack, or none.
StackStep == [Program!Next]_(Program!pvars)

\* A step the program, and the lazy pointer, notice nothing of.
Unseen ==
  /\ ArchTop' = ArchTop /\ UNCHANGED <<content, mem, written, lazyPtr>>
  /\ \A a \in written : WordAt(a)' = WordAt(a)

\* WordAt before and after a step, in terms of Seen.
LEMMA WordAtSeen ==
  ASSUME NEW a
  PROVE  /\ WordAt(a) = Seen(content, ArchTop, buffer, mw.exSs, mem, a)
         /\ WordAt(a)' = Seen(content', ArchTop', buffer', mw'.exSs, mem', a)
  BY DEF WordAt, Seen

\* The types of what Seen depends on.
LEMMA SeenTypes ==
  ASSUME IInv
  PROVE  /\ mw \in Decodings /\ mem \in [Addr -> Val]
         /\ content \in Seq(Val) /\ Len(content) \in Nat
         /\ buffer \in Seq(Val) /\ Len(buffer) \in Nat
         /\ ArchTop \in Int /\ mw.exSs \in Int
         /\ mw.drSs \in Int /\ mw.drSt \in Int /\ mw.exSt \in Int
         /\ mw.delta \in Int /\ mw.size \in Nat /\ mw.addr \in Nat /\ mw.val \in Val
         /\ written \subseteq Addr /\ \A a \in written : a \in Int
<1>1. /\ mw \in Decodings /\ mem \in [Addr -> Val]
      /\ content \in Seq(Val) /\ buffer \in Seq(Val) /\ written \subseteq Addr
  BY DEF IInv, TypeOK
<1>2. /\ mw.drSs \in Int /\ mw.drSt \in Int /\ mw.exSt \in Int /\ mw.exSs \in Int
      /\ mw.delta \in Int /\ mw.size \in Nat /\ mw.addr \in Nat /\ mw.val \in Val
  BY <1>1, OperandTypes
<1>3. ArchTop \in Int
  BY <1>2 DEF ArchTop
<1>4. \A a \in Addr : a \in Int
  BY StackProgram DEF Addr
<1> QED BY <1>1, <1>2, <1>3, <1>4, LenProperties

\* A word above the top has a value.
LEMMA WordAtType ==
  ASSUME IInv, NEW a \in Addr, a >= ArchTop
  PROVE  WordAt(a) \in Val
<1>1. /\ a \in Int /\ mem \in [Addr -> Val] /\ content \in Seq(Val) /\ buffer \in Seq(Val)
      /\ ArchTop \in Int /\ mw.exSs \in Int /\ Len(content) \in Nat /\ Len(buffer) \in Nat
  BY SeenTypes, StackProgram DEF Addr
<1>2. WordAt(a) = Seen(content, ArchTop, buffer, mw.exSs, mem, a)
  BY WordAtSeen
<1>3. CASE a < ArchTop + Len(content)
  <2>1. WordAt(a) = content[Len(content) - (a - ArchTop)]
    BY <1>1, <1>2, <1>3, SeenCached
  <2>2. Len(content) - (a - ArchTop) \in 1 .. Len(content)
    BY <1>1, <1>3
  <2> QED BY <1>1, <2>1, <2>2, ElementOfSeq
<1>4. CASE a >= ArchTop + Len(content) /\ a >= mw.exSs /\ a < mw.exSs + Len(buffer)
  <2>1. WordAt(a) = buffer[a - mw.exSs + 1]
    BY <1>1, <1>2, <1>4, SeenBuffered
  <2>2. a - mw.exSs + 1 \in 1 .. Len(buffer)
    BY <1>1, <1>4
  <2> QED BY <1>1, <2>1, <2>2, ElementOfSeq
<1>5. CASE /\ a >= ArchTop + Len(content)
           /\ a < mw.exSs \/ a >= mw.exSs + Len(buffer)
  <2>1. WordAt(a) = mem[a]
    BY <1>1, <1>2, <1>5, SeenInMemory
  <2> QED BY <1>1, <2>1
<1> QED BY <1>1, <1>3, <1>4, <1>5

-----------------------------------------------------------------------------
(***************************************************************************)
(* Facts about the steps that actions share.                               *)
(***************************************************************************)
\* The top before an instruction takes effect in MW, and while it does.
LEMMA TopBefore ==
  /\ ~mw.done /\ phase = "IDLE" => ArchTop = mw.drSt
  /\ mw.done \/ phase # "IDLE" => ArchTop = mw.exSt
  BY DEF ArchTop

\* When an instruction takes effect the top is the one its EX stage computed.
LEMMA TopAfter ==
  ASSUME mw \in Decodings,
         Finish \/ (Repeat /\ phase' # "IDLE")
  PROVE  ArchTop' = mw.exSt /\ mw'.exSs = mw.exSs
<1>1. CASE Finish
  BY <1>1, FinishFields DEF ArchTop
<1>2. CASE Repeat /\ phase' # "IDLE"
  BY <1>2 DEF Repeat, ArchTop
<1> QED BY <1>1, <1>2

\* A step that keeps every promised word, with the top where it is or lower,
\* is a reserve of the abstract stack.
LEMMA KeepingStep ==
  ASSUME IInv, StackInv, UNCHANGED <<written, loaded>>,
         ArchTop' \in Int, ArchTop' <= ArchTop,
         \A a \in written : WordAt(a)' = WordAt(a),
         phase' # "SPILL" => Len(buffer') < 1
  PROVE  StackInv' /\ StackStep
<1>1. ArchTop \in Int /\ \A a \in written : a \in Int
  BY SeenTypes
<1>2. StackInv'
  BY <1>1 DEF StackInv
<1>3. Promised' = Promised
  BY DEF Promised
<1>4. Program!Reserve
  BY <1>3 DEF Program!Reserve
<1> QED BY <1>2, <1>4 DEF StackStep, Program!Next

\* A step that changes nothing the program sees.
LEMMA SilentStep ==
  ASSUME IInv, StackInv, ArchTop' = ArchTop, mw'.exSs = mw.exSs,
         UNCHANGED <<phase, content, buffer, mem, written, loaded>>
  PROVE  StackInv' /\ StackStep
<1>1. \A a \in written : WordAt(a)' = WordAt(a)
  BY WordAtSeen
<1>2. phase' # "SPILL" => Len(buffer') < 1
  BY DEF StackInv
<1> QED BY <1>1, <1>2, SeenTypes, KeepingStep

\* An instruction that leaves c in the cache and spills buf shows the program
\* the same words whether memory answers in this cycle or not.
LEMMA SpillCallSeen ==
  ASSUME IInv, NEW buf \in Seq(Val), SpillCall(buf), NEW c \in Seq(Val), content' = c
  PROVE  /\ ArchTop' = mw.exSt
         /\ phase' # "SPILL" => Len(buffer') < 1
         /\ \A a \in Addr : a >= mw.exSt =>
              WordAt(a)' = Seen(c, mw.exSt, buf, mw.exSs, mem, a)
<1>1. mw \in Decodings /\ mw.exSs \in Int /\ mw.exSt \in Int
  BY SeenTypes
<1>2. \/ /\ mem' = MemoryAfterSpill(buf) /\ phase' = "IDLE" /\ buffer' = <<>> /\ Finish
      \/ mem' = mem /\ phase' = "SPILL" /\ buffer' = buf /\ Repeat
  BY DEF SpillCall
<1>3. ArchTop' = mw.exSt /\ mw'.exSs = mw.exSs
  BY <1>1, <1>2, TopAfter
<1>4. buffer' = <<>> => buffer' \in Seq(Val) /\ Len(buffer') < 1
  <2>1. <<>> \in Seq(Val) /\ Len(<<>>) = 0
    BY EmptySeq
  <2>2. buffer' = <<>> => buffer' \in Seq(Val) /\ Len(buffer') = 0
    BY <2>1, Zenon
  <2> QED BY <2>2
<1>5. ASSUME NEW a \in Addr, a >= mw.exSt
      PROVE  WordAt(a)' = Seen(c, mw.exSt, buf, mw.exSs, mem, a)
  <2>1. WordAt(a)' = Seen(c, mw.exSt, buffer', mw.exSs, mem', a)
    BY <1>3, WordAtSeen
  <2>2. CASE mem' = MemoryAfterSpill(buf) /\ buffer' = <<>>
    <3>1. buffer' \in Seq(Val) /\ Len(buffer') < 1
      BY <1>4, <2>2
    <3>2. Seen(c, mw.exSt, buffer', mw.exSs, MemoryAfterSpill(buf), a) =
            Seen(c, mw.exSt, buf, mw.exSs, mem, a)
      BY <1>1, <1>5, <3>1, SeenAfterWrite
    <3> QED BY <2>1, <2>2, <3>2
  <2>3. CASE mem' = mem /\ buffer' = buf
    BY <2>1, <2>3
  <2> QED BY <1>2, <2>2, <2>3
<1> QED BY <1>2, <1>3, <1>4, <1>5

-----------------------------------------------------------------------------
(***************************************************************************)
(* Every action of the three block caches is a step of the abstract stack. *)
(***************************************************************************)
\* sres, first call: the new words move the top down, and what no longer fits
\* is on its way to memory.
LEMMA ReserveIdleKeeps ==
  ASSUME BlockCache, IInv, LazyInv, StackInv, CoherentInv, ReserveIdle
  PROVE  StackInv' /\ StackStep
<1> DEFINE kept  == Evicted
           grown == Resized(kept, Len(kept) + mw.size)
<1>1. /\ mw.op = "reserve" /\ ~mw.done /\ phase = "IDLE"
      /\ UNCHANGED <<loaded, written>>
  BY DEF ReserveIdle, Executing
<1>2. /\ mw \in Decodings /\ content \in Seq(Val) /\ buffer \in Seq(Val)
      /\ Len(content) \in Nat /\ mw.size \in Nat /\ ArchTop = mw.drSt /\ Len(buffer) < 1
      /\ mw.exSs \in Int /\ mw.drSt \in Int /\ mw.exSt \in Int /\ written \subseteq Addr
      /\ mw.drSs \in Int /\ mw.delta \in Int
  BY <1>1, SeenTypes, TopBefore DEF StackInv
<1>3. /\ Len(content) = mw.drSs - mw.drSt /\ mw.delta \in 0 .. NumBlocks
      /\ mw.exSt = mw.drSt - mw.size /\ mw.exSs = mw.drSs - mw.delta - evict
      /\ evict \in 0 .. Len(content)
  BY <1>1 DEF IInv, ContentInv, MWInv, PreparedBy, LazyInv, ReservePending, EvictsCoherent
<1>4. kept \in Seq(Val) /\ Len(kept) = Len(content) - evict
  BY <1>2, <1>3, EvictedWords
<1>6. \A a \in written : a \in Addr /\ a \in Int /\ a >= mw.drSt /\ a >= mw.exSt
  BY <1>2, <1>3, SeenTypes DEF StackInv
<1>11. \A a \in written : Seen(kept, mw.drSt, buffer, mw.exSs, mem, a) = WordAt(a)
  <2> TAKE a \in written
  <2>1. WordAt(a) = Seen(content, mw.drSt, buffer, mw.exSs, mem, a)
    BY <1>2, WordAtSeen
  <2>2. CASE Kind # "lblock"
    BY <2>1, <2>2 DEF Evicted
  <2>3. CASE Kind = "lblock"
    <3>1. a >= mw.drSt + Len(content) - evict => WordAt(a) = mem[a]
      <4> SUFFICES ASSUME a >= mw.drSt + Len(content) - evict PROVE WordAt(a) = mem[a]
        OBVIOUS
      <4>1. lazyPtr \in Nat /\ \A k \in mw.drSs - mw.drSt - evict .. mw.drSs - mw.drSt - 1 :
                                 k >= lazyPtr
        BY <1>1 DEF LazyInv, ReservePending, EvictsCoherent
      <4>2. CASE a < mw.drSt + Len(content)
        <5>2. mw.exSt = mw.drSt - mw.size /\ mw.exSs = mw.drSs - mw.delta - evict /\ evict \in Int
          BY <1>2, <1>3
        <5>3. a \in Int /\ mw.drSs - mw.drSt - evict <= a - mw.drSt /\ a < mw.drSs
          <6> HIDE DEF kept, grown
          <6>1. a \in Int /\ a >= mw.drSt + Len(content) - evict /\ a < mw.drSt + Len(content)
            BY <1>6, <4>2
          <6>2. Len(content) = mw.drSs - mw.drSt /\ evict \in Int
            BY <1>2, <1>3
          <6> QED BY <1>2, <6>1, <6>2
        <5>4. a - mw.drSt \in mw.drSs - mw.drSt - evict .. mw.drSs - mw.drSt - 1
          <6>1. mw.drSs \in Int /\ mw.drSt \in Int
            BY <1>2
          <6> QED BY <5>2, <5>3, <6>1
        <5>5. a - mw.drSt >= lazyPtr
          BY <4>1, <5>4
        <5>6. Len(content) = mw.drSs - mw.drSt
          BY <1>3
        <5>1. a - mw.drSt \in lazyPtr .. Len(content) - 1
          BY <1>2, <4>1, <5>2, <5>4, <5>5, <5>6
        <5> QED BY <1>2, <2>3, <5>1 DEF CoherentInv, CoherentAboveLazyPointer
      <4>3. CASE a >= mw.drSt + Len(content)
        BY <1>2, <1>6, <2>1, <4>3, SeenUnbuffered
      <4> QED BY <1>2, <1>6, <4>2, <4>3
    <3>2. kept = Without(content, evict)
      BY <2>3 DEF Evicted
    <3> HIDE DEF kept
    <3> QED BY <1>2, <1>3, <1>6, <2>1, <3>1, <3>2, SeenAfterEvict
  <2> QED BY <2>2, <2>3, KindOfCache
<1> HIDE DEF kept
<1>12. Len(kept) \in Nat /\ Len(kept) + mw.size \in Nat
  BY <1>2, <1>3, <1>4
<1>5. grown \in Seq(Val) /\ Len(grown) = Len(kept) + mw.size
  BY <1>4, <1>12, ResizedType
<1>7. \A a \in written : Seen(grown, mw.exSt, buffer, mw.exSs, mem, a) = WordAt(a)
  <2> TAKE a \in written
  <2>1. Seen(grown, mw.exSt, buffer, mw.exSs, mem, a) =
          Seen(kept, mw.drSt, buffer, mw.exSs, mem, a)
    <3>1. mw.exSt = mw.drSt - mw.size
      BY <1>3
    <3>2. grown = Resized(kept, Len(kept) + mw.size)
      OBVIOUS
    <3> HIDE DEF grown
    <3>3. a \in Int /\ a >= mw.drSt
      BY <1>6
    <3>4. /\ kept \in Seq(Val) /\ buffer \in Seq(Val) /\ Len(buffer) < 1 /\ mw.size \in Nat
          /\ mw.drSt \in Int /\ mw.exSs \in Int
      BY <1>2, <1>4
    <3>5. PICK n, t, up : n = mw.size /\ t = mw.drSt /\ up = mw.exSt
      OBVIOUS
    <3>6. n \in Nat /\ t \in Int /\ a \in Int /\ a >= t
      BY <3>3, <3>4, <3>5
    <3>7. Seen(Resized(kept, Len(kept) + n), t - n, buffer, mw.exSs, mem, a)
            = Seen(kept, t, buffer, mw.exSs, mem, a)
      BY <3>4, <3>6, SeenAfterReserve
    <3>8. grown = Resized(kept, Len(kept) + n) /\ up = t - n
      BY <3>1, <3>2, <3>5
    <3> QED BY <3>5, <3>7, <3>8
  <2> QED BY <1>11, <2>1
<1> HIDE DEF grown
<1>8. mw.exSs = mw.exSt + Len(grown) - mw.delta
  <2>1. Len(grown) = (mw.drSs - mw.drSt - evict) + mw.size
    BY <1>3, <1>4, <1>5
  <2>2. /\ mw.exSs = mw.drSs - mw.delta - evict /\ mw.exSt = mw.drSt - mw.size
        /\ evict \in Int
    BY <1>2, <1>3
  <2>3. mw.drSs \in Int /\ mw.drSt \in Int /\ mw.delta \in Int /\ mw.size \in Int
    BY <1>2
  <2> QED BY <2>1, <2>2, <2>3
<1>9. CASE mw.delta = 0
  <2>1. content' = grown /\ NoTransfer
    BY <1>9, KindOfCache DEF ReserveIdle, grown, kept
  <2>2. phase' = "IDLE" /\ Finish /\ UNCHANGED <<buffer, mem>>
    BY <1>1, <2>1 DEF NoTransfer
  <2>3. ArchTop' = mw.exSt /\ mw'.exSs = mw.exSs
    BY <1>2, <2>2, TopAfter
  <2>4. \A a \in written : WordAt(a)' = WordAt(a)
    BY <1>7, <2>1, <2>2, <2>3, WordAtSeen
  <2>5. ArchTop' \in Int /\ ArchTop' <= ArchTop /\ Len(buffer') < 1
    BY <1>2, <1>3, <2>2, <2>3
  <2> QED BY <1>1, <2>4, <2>5, KeepingStep
<1>10. CASE mw.delta # 0
  <2> DEFINE rest == Without(grown, mw.delta)
             buf  == DeepestReversed(grown, mw.delta)
  <2>1. content' = rest /\ SpillCall(buf) /\ mw.delta <= Len(grown)
    BY <1>10, KindOfCache DEF ReserveIdle, grown, kept
  <2>2. mw.delta \in 0 .. Len(grown)
    BY <1>2, <1>3, <1>5, <1>12, <2>1
  <2>3. rest \in Seq(Val) /\ buf \in Seq(Val)
    BY <1>5, <2>2, WithoutType, DeepestReversedType
  <2> HIDE DEF rest, buf
  <2>4. \A a \in written :
          Seen(rest, mw.exSt, buf, mw.exSs, mem, a) =
            Seen(grown, mw.exSt, buffer, mw.exSs, mem, a)
    <3> TAKE a \in written
    <3>1. \A n \in 0 .. Len(grown), top \in Int, low \in Int, w \in Int : w >= top =>
            Seen(Without(grown, n), top, DeepestReversed(grown, n), top + Len(grown) - n,
                 mem, w) = Seen(grown, top, buffer, low, mem, w)
      <4>1. grown \in Seq(Val) /\ buffer \in Seq(Val) /\ Len(buffer) < 1
        BY <1>2, <1>5
      <4> QED BY <4>1, SeenAfterTake
    <3>2. Seen(rest, mw.exSt, buf, mw.exSt + Len(grown) - mw.delta, mem, a) =
            Seen(grown, mw.exSt, buffer, mw.exSs, mem, a)
      BY <1>2, <1>6, <2>2, <3>1 DEF rest, buf
    <3> QED BY <1>8, <3>2
  <2>5. /\ ArchTop' = mw.exSt
        /\ phase' # "SPILL" => Len(buffer') < 1
        /\ \A a \in Addr : a >= mw.exSt =>
             WordAt(a)' = Seen(rest, mw.exSt, buf, mw.exSs, mem, a)
    BY <2>1, <2>3, SpillCallSeen
  <2>6. \A a \in written : WordAt(a)' = WordAt(a)
    BY <1>6, <1>7, <2>4, <2>5
  <2>7. ArchTop' \in Int /\ ArchTop' <= ArchTop
    BY <1>2, <1>3, <2>5
  <2> QED BY <1>1, <2>5, <2>6, <2>7, KeepingStep
<1> QED BY <1>9, <1>10

\* The calls of sres and sspill that wait for memory to take the words.
LEMMA SpillingKeeps ==
  ASSUME IInv, StackInv, phase = "SPILL", content' = content, SpillCall(buffer),
         UNCHANGED <<loaded, written>>
  PROVE  StackInv' /\ StackStep
<1>1. /\ content \in Seq(Val) /\ buffer \in Seq(Val) /\ mw.exSt \in Int
      /\ ArchTop = mw.exSt /\ written \subseteq Addr
  BY SeenTypes, TopBefore
<1>2. /\ ArchTop' = mw.exSt
      /\ phase' # "SPILL" => Len(buffer') < 1
      /\ \A a \in Addr : a >= mw.exSt =>
           WordAt(a)' = Seen(content, mw.exSt, buffer, mw.exSs, mem, a)
  BY <1>1, SpillCallSeen
<1>3. \A a \in written : WordAt(a)' = WordAt(a)
  BY <1>1, <1>2, WordAtSeen DEF StackInv
<1> QED BY <1>1, <1>2, <1>3, KeepingStep

\* sspill
LEMMA BlockSpillKeeps ==
  ASSUME BlockCache, IInv, StackInv, BlockSpill
  PROVE  StackInv' /\ StackStep
<1>1. mw.op = "spill" /\ ~mw.done /\ UNCHANGED <<loaded, written>>
  BY DEF BlockSpill, Executing
<1>2. /\ mw \in Decodings /\ content \in Seq(Val) /\ buffer \in Seq(Val)
      /\ Len(content) \in Nat
      /\ mw.exSs \in Int /\ mw.drSt \in Int /\ mw.exSt \in Int /\ written \subseteq Addr
      /\ mw.drSs \in Int /\ mw.delta \in Int
  BY SeenTypes
<1>3. /\ InRange(mw.drSs, mw.drSt) /\ mw.exSt = mw.drSt
      /\ mw.exSs = Minus(mw.drSs, mw.delta) /\ mw.delta \in Nat
  BY <1>1 DEF IInv, MWInv, PreparedBy
<1>4. CASE phase = "SPILL" /\ content' = content /\ SpillCall(buffer)
  BY <1>1, <1>4, SpillingKeeps
<1>5. CASE phase = "IDLE" /\ mw.delta = 0 /\ content' = content /\ NoTransfer
  <2>1. UNCHANGED <<phase, content, buffer, mem>> /\ Finish
    BY <1>5 DEF NoTransfer
  <2>2. ArchTop = mw.drSt
    BY <1>1, <1>5, TopBefore
  <2>3. ArchTop' = ArchTop /\ mw'.exSs = mw.exSs
    BY <1>2, <1>3, <2>1, <2>2, TopAfter
  <2> QED BY <1>1, <2>1, <2>3, SilentStep
<1>6. CASE /\ phase = "IDLE" /\ mw.delta \in 1 .. Len(content)
           /\ content' = Without(content, mw.delta)
           /\ SpillCall(DeepestReversed(content, mw.delta))
  <2> DEFINE rest == Without(content, mw.delta)
             buf  == DeepestReversed(content, mw.delta)
  <2>1. ArchTop = mw.exSt /\ Len(buffer) < 1
    BY <1>1, <1>3, <1>6, TopBefore DEF StackInv
  <2>2. mw.delta \in 0 .. Len(content)
    BY <1>2, <1>6
  <2>3. rest \in Seq(Val) /\ buf \in Seq(Val)
    BY <1>2, <2>2, WithoutType, DeepestReversedType
  <2>4. mw.exSs = mw.exSt + Len(content) - mw.delta
    <3>1. Len(content) = mw.drSs - mw.drSt
      BY <1>1, <1>6 DEF IInv, ContentInv
    <3>2. mw.drSs \in Nat /\ mw.drSt \in Nat
      BY <1>3, StackSizes DEF InRange
    <3>3. mw.exSs = mw.drSs - mw.delta
      BY <1>3, <1>6, <3>1, <3>2 DEF Minus
    <3> QED BY <1>2, <1>3, <3>1, <3>3
  <2>5. \A a \in written : Seen(rest, mw.exSt, buf, mw.exSs, mem, a) = WordAt(a)
    <3> TAKE a \in written
    <3>1. a \in Int /\ a >= mw.exSt
      BY <2>1, SeenTypes DEF StackInv
    <3>2. Seen(rest, mw.exSt, buf, mw.exSt + Len(content) - mw.delta, mem, a) =
            Seen(content, mw.exSt, buffer, mw.exSs, mem, a)
      BY <1>2, <2>1, <2>2, <3>1, SeenAfterTake
    <3> QED BY <2>1, <2>4, <3>2, WordAtSeen
  <2>6. content' = rest /\ SpillCall(buf)
    BY <1>6
  <2> HIDE DEF rest, buf
  <2>7. /\ ArchTop' = mw.exSt
        /\ phase' # "SPILL" => Len(buffer') < 1
        /\ \A a \in Addr : a >= mw.exSt =>
             WordAt(a)' = Seen(rest, mw.exSt, buf, mw.exSs, mem, a)
    BY <2>3, <2>6, SpillCallSeen
  <2>8. \A a \in written : WordAt(a)' = WordAt(a)
    BY <1>2, <2>1, <2>5, <2>7 DEF StackInv
  <2> QED BY <1>1, <1>2, <2>1, <2>7, <2>8, KeepingStep
<1> QED BY <1>4, <1>5, <1>6 DEF BlockSpill

\* sens: what a fill puts into the cache is what the program saw in memory.
LEMMA BlockEnsureKeeps ==
  ASSUME BlockCache, IInv, StackInv, BlockEnsure
  PROVE  StackInv' /\ StackStep
<1>1. mw.op = "ensure" /\ ~mw.done /\ UNCHANGED <<loaded, written>>
  BY DEF BlockEnsure, Executing
<1>2. /\ mw \in Decodings /\ content \in Seq(Val) /\ buffer \in Seq(Val)
      /\ Len(content) \in Nat /\ TypeOK
      /\ mw.exSs \in Int /\ mw.drSt \in Int /\ mw.exSt \in Int /\ written \subseteq Addr
      /\ mw.drSs \in Int /\ mw.delta \in Int
  BY SeenTypes DEF IInv
<1>3. /\ InRange(mw.drSs, mw.drSt) /\ InRange(mw.exSs, mw.exSt)
      /\ mw.exSt = mw.drSt /\ mw.exSs = mw.drSs + mw.delta /\ mw.delta \in Nat
  BY <1>1 DEF IInv, MWInv, PreparedBy
<1>4. phase # "SPILL" /\ Len(content) = mw.drSs - mw.drSt
  BY <1>1, <1>2 DEF IInv, ContentInv, TypeOK
<1>5. Len(buffer) < 1 /\ ArchTop = mw.exSt
  BY <1>1, <1>3, <1>4, TopBefore DEF StackInv
<1>6. CASE mw.delta = 0
  <2>1. UNCHANGED <<phase, content, buffer, mem>> /\ Finish
    BY <1>6 DEF BlockEnsure, NoTransfer
  <2>2. ArchTop' = ArchTop /\ mw'.exSs = mw.exSs
    BY <1>2, <1>5, <2>1, TopAfter
  <2> QED BY <1>1, <2>1, <2>2, SilentStep
<1>7. CASE mw.delta # 0
  <2> DEFINE newSize == IF mw.exSs > mw.exSt THEN mw.exSs - mw.exSt ELSE 0
             missing == IF newSize > Len(content) THEN newSize - Len(content) ELSE 0
             filled  == FilledFrom(Deepened(content, missing))
  <2>1. PICK ready \in BOOLEAN :
          /\ IF ready THEN content' = filled /\ phase' = "IDLE" /\ Finish
                      ELSE content' = content /\ phase' = "FILL" /\ Repeat
          /\ UNCHANGED <<buffer, mem>>
    BY <1>7 DEF BlockEnsure
  <2>2. missing = mw.delta
    <3>1. mw.exSs - mw.exSt = Len(content) + mw.delta
      BY <1>2, <1>3, <1>4
    <3> QED BY <1>2, <1>3, <3>1
  <2>3. mw.exSs = mw.exSt + Len(content) + mw.delta
    BY <1>2, <1>3, <1>4
  <2>4. mw.exSs - mw.delta \in Addr /\ mw.exSs \in Addr
    BY <1>2, <1>3, StackSizes, StackProgram DEF Addr, InRange
  <2> HIDE DEF missing
  <2>5. \A a \in written : Seen(filled, mw.exSt, buffer, mw.exSs, mem, a) = WordAt(a)
    <3> TAKE a \in written
    <3>1. a \in Addr /\ a >= mw.exSt
      BY <1>2, <1>5 DEF StackInv
    <3>2. mw.delta \in Nat
      BY <1>3
    <3>3. Seen(filled, mw.exSt, buffer, mw.exSs, mem, a) =
            Seen(content, mw.exSt, buffer, mw.exSs, mem, a)
      BY <1>2, <1>5, <2>2, <2>3, <2>4, <3>1, <3>2, SeenAfterFill
    <3> QED BY <1>5, <3>3, WordAtSeen
  <2> HIDE DEF filled
  <2>6. ArchTop' = mw.exSt /\ mw'.exSs = mw.exSs
    BY <1>2, <2>1, TopAfter
  <2>7. \A a \in written : WordAt(a)' = WordAt(a)
    <3> TAKE a \in written
    <3>1. WordAt(a)' = Seen(content', mw.exSt, buffer, mw.exSs, mem, a)
      BY <2>1, <2>6, WordAtSeen
    <3>2. WordAt(a) = Seen(content, mw.exSt, buffer, mw.exSs, mem, a)
      BY <1>5, WordAtSeen
    <3>3. content' = filled \/ content' = content
      BY <2>1
    <3> QED BY <2>5, <3>1, <3>2, <3>3
  <2> QED BY <1>1, <1>2, <1>5, <2>1, <2>6, <2>7, KeepingStep
<1> QED BY <1>6, <1>7

\* sfree: the words at and above the new top keep their values, the others are
\* no longer promised.
LEMMA FreeingStep ==
  ASSUME IInv, mw.op = "free", ~mw.done, loaded' = loaded,
         written' = {a \in written : a >= mw.exSt},
         ArchTop' = mw.exSt, mw.exSt >= ArchTop,
         phase' # "SPILL" => Len(buffer') < 1,
         \A a \in written' : WordAt(a)' = WordAt(a)
  PROVE  StackInv' /\ StackStep
<1>1. /\ ArchTop \in Int /\ mw.exSt \in Int /\ written \subseteq Addr
      /\ \A a \in written : a \in Int
  BY SeenTypes
<1>2. \A a \in written' : a \in Addr /\ a \in Int /\ a >= mw.exSt
  BY <1>1
<1>3. StackInv'
  BY <1>1, <1>2 DEF StackInv
<1>4. Program!Free
  <2>1. ArchTop' >= ArchTop
    BY <1>1
  <2>2. Promised' = [a \in Addr |-> IF a < ArchTop' THEN Undef ELSE Promised[a]]
    <3>1. \A a \in Addr : (IF a \in written' THEN WordAt(a)' ELSE Undef) =
                            IF a < ArchTop' THEN Undef ELSE Promised[a]
      <4> TAKE a \in Addr
      <4>1. a \in Int
        BY StackProgram DEF Addr
      <4>2. Promised[a] = IF a \in written THEN WordAt(a) ELSE Undef
        BY DEF Promised
      <4>3. CASE a < mw.exSt
        BY <1>1, <4>1, <4>3
      <4>4. CASE a >= mw.exSt /\ a \in written
        BY <1>1, <4>1, <4>2, <4>4
      <4>5. CASE a >= mw.exSt /\ a \notin written
        BY <1>1, <4>1, <4>2, <4>5
      <4> QED BY <1>1, <4>1, <4>3, <4>4, <4>5
    <3> QED BY <3>1 DEF Promised
  <2> QED BY <2>1, <2>2 DEF Program!Free
<1> QED BY <1>3, <1>4 DEF StackStep, Program!Next

LEMMA FreeKeeps ==
  ASSUME BlockCache, IInv, StackInv, FreeWithoutFill
  PROVE  StackInv' /\ StackStep
<1>1. /\ mw.op = "free" /\ ~mw.done /\ mw.delta = 0 /\ loaded' = loaded
      /\ written' = {a \in written : a >= mw.exSt}
      /\ content' = IF Len(content) <= mw.size THEN <<>>
                    ELSE Resized(content, Len(content) - mw.size)
      /\ Finish /\ UNCHANGED <<phase, buffer, mem>>
  BY DEF FreeWithoutFill, Executing, StillPromised, NoTransfer
<1>2. /\ mw \in Decodings /\ content \in Seq(Val) /\ buffer \in Seq(Val)
      /\ mw.exSs \in Int /\ mw.drSt \in Int /\ mw.exSt \in Int /\ written \subseteq Addr
      /\ mw.size \in Nat
  BY SeenTypes
<1>3. mw.exSt = mw.drSt + mw.size
  BY <1>1 DEF IInv, MWInv, PreparedBy
<1>4. phase = "IDLE"
  BY <1>1 DEF IInv, ContentInv, TypeOK
<1>5. /\ Len(buffer) < 1 /\ ArchTop = mw.drSt
      /\ ArchTop' = mw.exSt /\ mw'.exSs = mw.exSs
  BY <1>1, <1>2, <1>4, TopBefore, TopAfter DEF StackInv
<1>6. \/ Len(content) <= mw.size /\ content' \in Seq(Val) /\ Len(content') < 1
      \/ Len(content) > mw.size /\ content' = Resized(content, Len(content) - mw.size)
  <2>1. CASE Len(content) <= mw.size
    <3>1. <<>> \in Seq(Val) /\ Len(<<>>) = 0
      BY EmptySeq
    <3>2. content' = <<>>
      BY <1>1, <2>1
    <3>3. content' \in Seq(Val) /\ Len(content') = 0
      BY <3>1, <3>2, Zenon
    <3> QED BY <2>1, <3>3
  <2>2. CASE ~(Len(content) <= mw.size)
    <3>1. Len(content) \in Nat
      BY SeenTypes
    <3> QED BY <1>1, <1>2, <2>2, <3>1
  <2> QED BY <2>1, <2>2
<1>7. \A a \in written' : a \in Addr /\ a \in Int /\ a >= mw.exSt
  BY <1>1, <1>2, SeenTypes
<1>8. \A a \in written' : WordAt(a)' = WordAt(a)
  <2> TAKE a \in written'
  <2>1. /\ WordAt(a)' = Seen(content', mw.exSt, buffer, mw.exSs, mem, a)
        /\ WordAt(a) = Seen(content, mw.drSt, buffer, mw.exSs, mem, a)
    BY <1>1, <1>5, WordAtSeen
  <2>2. Seen(content', mw.exSt, buffer, mw.exSs, mem, a) =
          Seen(content, mw.drSt, buffer, mw.exSs, mem, a)
    <3>1. a \in Int /\ a >= mw.exSt
      BY <1>7
    <3>2. content \in Seq(Val) /\ buffer \in Seq(Val) /\ Len(buffer) < 1
      BY <1>2, <1>5
    <3>3. mw.exSs \in Int /\ mw.drSt \in Int /\ mw.size \in Nat
      BY <1>2
    <3> QED BY <1>3, <1>6, <3>1, <3>2, <3>3, SeenAfterFree
  <2> QED BY <2>1, <2>2
<1>9. mw.exSt >= ArchTop
  BY <1>2, <1>3, <1>5
<1>10. phase' # "SPILL" => Len(buffer') < 1
  BY <1>1, <1>5
<1> QED BY <1>1, <1>5, <1>8, <1>9, <1>10, FreeingStep

\* The aligned cache's sfree that reads a block: what it dropped lies below the
\* new top, and what it reads is what the program sees in memory.
LEMMA FreeWithFillKeeps ==
  ASSUME BlockCache, IInv, StackInv, FreeWithFill
  PROVE  StackInv' /\ StackStep
<1>1. /\ mw.op = "free" /\ ~mw.done /\ loaded' = loaded
      /\ written' = {a \in written : a >= mw.exSt}
      /\ UNCHANGED <<buffer, mem>>
  BY DEF FreeWithFill, Executing, StillPromised
<1>2. /\ mw \in Decodings /\ content \in Seq(Val) /\ buffer \in Seq(Val)
      /\ Len(content) \in Nat /\ Len(buffer) \in Nat /\ mem \in [Addr -> Val]
      /\ mw.exSs \in Int /\ mw.drSs \in Int /\ mw.drSt \in Int /\ mw.exSt \in Int
      /\ mw.size \in Nat /\ \A a \in written : a \in Int
  BY SeenTypes
<1>3. /\ mw.delta \in Nat /\ mw.exSt = mw.drSt + mw.size /\ mw.drSs <= mw.exSt
      /\ mw.exSs - mw.exSt \in 0 .. mw.delta
      /\ ReservedBlocks(mw.exSs, mw.exSt) = mw.exSs - mw.exSt
      /\ mw.exSs - mw.delta \in Addr /\ mw.exSs \in Addr
  BY FillingFree
<1>4. phase \in {"IDLE", "FILL"}
  BY <1>1 DEF IInv, ContentInv, TypeOK
<1>5. /\ Len(buffer) < 1 /\ mw.exSt >= ArchTop
      /\ ArchTop \in Int /\ mw.exSt >= ArchTop + Len(content)
  <2>1. Len(buffer) < 1
    BY <1>4 DEF StackInv
  <2>2. CASE phase = "IDLE"
    <3>1. ArchTop = mw.drSt /\ Len(content) = mw.drSs - mw.drSt
      BY <1>1, <2>2, TopBefore DEF IInv, ContentInv
    <3> QED BY <1>2, <1>3, <2>1, <3>1
  <2>3. CASE phase = "FILL"
    <3>1. ArchTop = mw.exSt /\ content = <<>>
      BY <1>1, <2>3, TopBefore DEF IInv, ContentInv
    <3>2. Len(content) = 0
      BY <3>1, EmptySeq
    <3> QED BY <1>2, <2>1, <3>1, <3>2
  <2> QED BY <1>4, <2>2, <2>3
<1> DEFINE filled == Resized(FilledFrom(Deepened(<<>>, mw.delta)), mw.exSs - mw.exSt)
<1>6. PICK ready \in BOOLEAN :
        IF ready THEN content' = filled /\ phase' = "IDLE" /\ Finish
                 ELSE content' = <<>> /\ phase' = "FILL" /\ Repeat
  BY <1>3 DEF FreeWithFill
<1>7. /\ filled \in Seq(Val) /\ Len(filled) = mw.exSs - mw.exSt
      /\ \A k \in 1 .. mw.exSs - mw.exSt : filled[k] = mem[mw.exSs - k]
  BY <1>2, <1>3, FillOfFree
<1> HIDE DEF filled
<1>8. ArchTop' = mw.exSt /\ mw'.exSs = mw.exSs
  BY <1>2, <1>6, TopAfter
<1>9. \A a \in written' : WordAt(a)' = WordAt(a)
  <2> TAKE a \in written'
  <2>1. a \in Int /\ a >= mw.exSt
    BY <1>1, <1>2
  <2>2. WordAt(a) = mem[a]
    <3>1. a >= ArchTop + Len(content)
      BY <1>2, <1>5, <2>1
    <3>2. Seen(content, ArchTop, buffer, mw.exSs, mem, a) = mem[a]
      BY <1>2, <1>5, <2>1, <3>1, SeenUnbuffered
    <3> QED BY <3>2, WordAtSeen
  <2>3. WordAt(a)' = Seen(content', mw.exSt, buffer, mw.exSs, mem, a)
    BY <1>1, <1>8, WordAtSeen
  <2>4. CASE content' = <<>>
    <3>1. <<>> \in Seq(Val) /\ Len(<<>>) = 0
      BY EmptySeq
    <3>2. a >= mw.exSt + Len(<<>>)
      BY <1>2, <2>1, <3>1
    <3>3. Seen(<<>>, mw.exSt, buffer, mw.exSs, mem, a) = mem[a]
      BY <1>2, <1>5, <2>1, <3>1, <3>2, SeenUnbuffered
    <3> QED BY <2>2, <2>3, <2>4, <3>3
  <2>5. CASE content' = filled
    <3>1. Seen(filled, mw.exSt, buffer, mw.exSs, mem, a) = mem[a]
      <4>1. CASE a < mw.exSs
        <5>1. PICK k \in Int : k = mw.exSs - mw.exSt - (a - mw.exSt)
          BY <1>2, <2>1
        <5>2. k \in 1 .. mw.exSs - mw.exSt /\ mw.exSs - k = a
          BY <1>2, <2>1, <4>1, <5>1
        <5>3. filled[k] = mem[a]
          BY <1>7, <5>2
        <5> QED BY <1>7, <5>1, <5>2, <5>3 DEF Seen
      <4>2. CASE a >= mw.exSs
        <5>1. a >= mw.exSt + Len(filled)
          BY <1>2, <1>7, <4>2
        <5> QED BY <1>2, <1>5, <1>7, <2>1, <5>1, SeenUnbuffered
      <4> QED BY <1>2, <2>1, <4>1, <4>2
    <3> QED BY <2>2, <2>3, <2>5, <3>1
  <2> QED BY <1>6, <2>4, <2>5
<1>10. phase' # "SPILL" => Len(buffer') < 1
  BY <1>1, <1>5
<1> QED BY <1>1, <1>5, <1>8, <1>9, <1>10, FreeingStep

\* What loads and stores find: the word addressed is in the cache, between the
\* top and the spill pointer.
LEMMA AccessedWord ==
  ASSUME BlockCache, IInv, StackInv, Load \/ Store
  PROVE  /\ mw \in Decodings /\ content \in Seq(Val) /\ buffer \in Seq(Val)
         /\ Len(content) \in Nat /\ Len(buffer) < 1
         /\ mw.addr \in Nat /\ mw.val \in Val /\ mw.exSs \in Int /\ mw.exSt \in Int
         /\ phase = "IDLE" /\ Finish /\ UNCHANGED <<phase, buffer, mem>>
         /\ ArchTop = mw.exSt /\ ArchTop' = mw.exSt /\ mw'.exSs = mw.exSs
         /\ Len(content) - mw.addr \in 1 .. Len(content)
         /\ mw.exSt + mw.addr \in Addr /\ mw.exSt + mw.addr \in Int
         /\ Request.addr = mw.exSt + mw.addr /\ Request.op = mw.op /\ Request.val = mw.val
<1>1. /\ mw.op \notin StackControl /\ ~mw.done /\ NoTransfer /\ mw.addr < Len(content)
  BY KindOfCache DEF Load, Store, Executing, StackControl
<1>2. /\ TypeOK /\ mw \in Decodings /\ content \in Seq(Val) /\ buffer \in Seq(Val)
      /\ Len(content) \in Nat /\ mw.addr \in Nat /\ mw.val \in Val
      /\ mw.exSs \in Int /\ mw.exSt \in Int
  BY SeenTypes DEF IInv
<1>3. /\ InRange(mw.drSs, mw.drSt) /\ mw.exSs = mw.drSs /\ mw.exSt = mw.drSt
  BY <1>1 DEF IInv, MWInv, PreparedBy
<1>4. phase = "IDLE" /\ Len(content) = mw.drSs - mw.drSt
  BY <1>1, <1>2 DEF IInv, ContentInv, TypeOK, StackControl
<1>5. Finish /\ UNCHANGED <<phase, buffer, mem>>
  BY <1>1 DEF NoTransfer
<1>6. ArchTop = mw.exSt /\ ArchTop' = mw.exSt /\ mw'.exSs = mw.exSs
  BY <1>1, <1>2, <1>3, <1>4, <1>5, TopBefore, TopAfter
<1>7. Len(content) - mw.addr \in 1 .. Len(content)
  BY <1>1, <1>2
<1>8. mw.exSt + mw.addr \in Addr /\ mw.exSt + mw.addr \in Int
  BY <1>1, <1>2, <1>3, <1>4, StackSizes, StackProgram DEF InRange, Addr
<1>9. Len(buffer) < 1
  BY <1>4 DEF StackInv
<1> QED BY <1>2, <1>4, <1>5, <1>6, <1>7, <1>8, <1>9 DEF Request

\* lws delivers the word promised.
LEMMA LoadKeeps ==
  ASSUME BlockCache, IInv, StackInv, Load
  PROVE  StackInv' /\ StackStep
<1> DEFINE a == mw.exSt + mw.addr
<1>1. /\ mw.op = "load" /\ UNCHANGED <<content, written>>
      /\ loaded' = content[Len(content) - mw.addr]
  BY DEF Load, Executing
<1>2. /\ content \in Seq(Val) /\ buffer \in Seq(Val)
      /\ Len(content) \in Nat /\ Len(buffer) < 1
      /\ mw.addr \in Nat /\ mw.exSs \in Int /\ mw.exSt \in Int
      /\ phase = "IDLE" /\ UNCHANGED <<phase, buffer, mem>>
      /\ ArchTop = mw.exSt /\ ArchTop' = mw.exSt /\ mw'.exSs = mw.exSs
      /\ Len(content) - mw.addr \in 1 .. Len(content)
      /\ a \in Addr /\ a \in Int
      /\ Request.addr = a /\ Request.op = mw.op
  BY AccessedWord
<1>3. \A b : WordAt(b)' = WordAt(b)
  BY <1>1, <1>2, WordAtSeen
<1>4. StackInv'
  BY <1>1, <1>2 DEF StackInv
<1>5. loaded' \in Val
  BY <1>1, <1>2, ElementOfSeq
<1>6. loaded' = WordAt(a)
  <2>1. /\ a >= mw.exSt /\ a < mw.exSt + Len(content)
        /\ Len(content) - (a - mw.exSt) = Len(content) - mw.addr
    BY <1>2
  <2> HIDE DEF a
  <2>2. Seen(content, mw.exSt, buffer, mw.exSs, mem, a) =
          content[Len(content) - (a - mw.exSt)]
    BY <1>2, <2>1, SeenCached
  <2>3. WordAt(a) = Seen(content, mw.exSt, buffer, mw.exSs, mem, a)
    BY <1>2, WordAtSeen
  <2> QED BY <1>1, <2>1, <2>2, <2>3
<1>7. a >= mw.exSt
  BY <1>2
<1> HIDE DEF a
<1>8. Program!Load
  <2>1. Promised' = Promised
    BY <1>1, <1>3 DEF Promised
  <2>2. Promised[a] = IF a \in written THEN WordAt(a) ELSE Undef
    BY <1>2 DEF Promised
  <2>3. loaded' \in IF a \in Addr /\ Promised[a] # Undef THEN {Promised[a]} ELSE Val
    BY <1>5, <1>6, <2>2
  <2> QED BY <1>1, <1>2, <1>7, <2>1, <2>3 DEF Program!Load
<1> QED BY <1>4, <1>8 DEF StackStep, Program!Next

\* sws changes the promised value of one word.
LEMMA StoreKeeps ==
  ASSUME BlockCache, IInv, StackInv, Store
  PROVE  StackInv' /\ StackStep
<1> DEFINE n == Len(content) - mw.addr
<1>0. PICK a : a = mw.exSt + mw.addr
  OBVIOUS
<1>1. /\ mw.op = "store" /\ loaded' = loaded
      /\ content' = [content EXCEPT ![n] = mw.val]
      /\ written' = written \cup {a}
  BY <1>0 DEF Store, Executing
<1>2. /\ content \in Seq(Val) /\ buffer \in Seq(Val)
      /\ Len(content) \in Nat /\ Len(buffer) < 1
      /\ mw.addr \in Nat /\ mw.val \in Val /\ mw.exSs \in Int /\ mw.exSt \in Int
      /\ phase = "IDLE" /\ UNCHANGED <<phase, buffer, mem>>
      /\ ArchTop = mw.exSt /\ ArchTop' = mw.exSt /\ mw'.exSs = mw.exSs
      /\ n \in 1 .. Len(content)
      /\ a \in Addr /\ a \in Int
      /\ Request.addr = a /\ Request.op = mw.op /\ Request.val = mw.val
  BY <1>0, AccessedWord
<1>3. a >= mw.exSt /\ a < mw.exSt + Len(content)
      /\ \A b \in Int : b >= mw.exSt /\ b # a => Len(content) - (b - mw.exSt) # n
  BY <1>0, <1>2
<1>4. Len(content) - (a - mw.exSt) = n
  BY <1>0, <1>2
<1> HIDE DEF n
<1>5. /\ content' \in Seq(Val) /\ Len(content') = Len(content)
      /\ content'[n] = mw.val
      /\ \A k \in 1 .. Len(content) : k # n => content'[k] = content[k]
  <2> DEFINE updated == [content EXCEPT ![n] = mw.val]
  <2>1. /\ updated \in Seq(Val) /\ Len(updated) = Len(content)
        /\ \A k \in 1 .. Len(content) : updated[k] = IF k = n THEN mw.val ELSE content[k]
    BY <1>2, ExceptSeq
  <2>2. content' = updated
    BY <1>1
  <2> HIDE DEF updated
  <2> QED BY <1>2, <2>1, <2>2
<1>6. WordAt(a)' = mw.val
  <2>1. WordAt(a)' = Seen(content', mw.exSt, buffer, mw.exSs, mem, a)
    BY <1>2, WordAtSeen
  <2>2. content' \in Seq(Val) /\ a < mw.exSt + Len(content')
        /\ Len(content') - (a - mw.exSt) = n
    BY <1>3, <1>4, <1>5
  <2>3. Seen(content', mw.exSt, buffer, mw.exSs, mem, a) =
          content'[Len(content') - (a - mw.exSt)]
    BY <1>2, <1>3, <2>2, SeenCached
  <2> QED BY <1>5, <2>1, <2>2, <2>3
<1>7. \A b \in written : b # a => WordAt(b)' = WordAt(b)
  <2> SUFFICES ASSUME NEW b \in written, b # a PROVE WordAt(b)' = WordAt(b)
    OBVIOUS
  <2>1. b \in Int /\ b >= mw.exSt
    BY <1>2, SeenTypes DEF StackInv
  <2>2. /\ WordAt(b)' = Seen(content', mw.exSt, buffer, mw.exSs, mem, b)
        /\ WordAt(b) = Seen(content, mw.exSt, buffer, mw.exSs, mem, b)
    BY <1>2, WordAtSeen
  <2>3. content' \in Seq(Val)
    BY <1>5
  <2>4. CASE b < mw.exSt + Len(content)
    <3> DEFINE k == Len(content) - (b - mw.exSt)
    <3>1. k \in 1 .. Len(content) /\ k # n
      BY <1>2, <1>3, <2>1, <2>4
    <3>2. b < mw.exSt + Len(content') /\ Len(content') - (b - mw.exSt) = k
      BY <1>5, <2>4
    <3>3. Seen(content, mw.exSt, buffer, mw.exSs, mem, b) = content[k]
      BY <1>2, <2>1, <2>4, SeenCached
    <3> HIDE DEF k
    <3>4. Seen(content', mw.exSt, buffer, mw.exSs, mem, b) =
            content'[Len(content') - (b - mw.exSt)]
      BY <1>2, <2>1, <2>3, <3>2, SeenCached
    <3>5. content'[k] = content[k]
      BY <1>5, <3>1
    <3> QED BY <2>2, <3>2, <3>3, <3>4, <3>5
  <2>5. CASE b >= mw.exSt + Len(content)
    <3>1. b >= mw.exSt + Len(content')
      BY <1>5, <2>5
    <3>2. Seen(content, mw.exSt, buffer, mw.exSs, mem, b) = mem[b]
      BY <1>2, <2>1, <2>5, SeenUnbuffered
    <3>3. Seen(content', mw.exSt, buffer, mw.exSs, mem, b) = mem[b]
      BY <1>2, <2>1, <2>3, <3>1, SeenUnbuffered
    <3> QED BY <2>2, <3>2, <3>3
  <2> QED BY <1>2, <2>1, <2>4, <2>5
<1>8. StackInv'
  BY <1>1, <1>2, <1>3 DEF StackInv
<1>9. Program!Store
  <2>1. Promised' = [Promised EXCEPT ![a] = mw.val]
    <3>1. \A b \in Addr : (IF b \in written' THEN WordAt(b)' ELSE Undef) =
                            IF b = a THEN mw.val ELSE Promised[b]
      <4> TAKE b \in Addr
      <4>1. Promised[b] = IF b \in written THEN WordAt(b) ELSE Undef
        BY DEF Promised
      <4>2. CASE b = a
        BY <1>1, <1>6, <4>2
      <4>3. CASE b # a /\ b \in written
        <5>1. WordAt(b)' = WordAt(b) /\ b \in written'
          BY <1>1, <1>7, <4>3
        <5> QED BY <4>1, <4>3, <5>1
      <4>4. CASE b # a /\ b \notin written
        BY <1>1, <4>1, <4>4
      <4> QED BY <4>2, <4>3, <4>4
    <3>2. Promised \in [Addr -> {Promised[b] : b \in Addr}]
      BY DEF Promised
    <3>3. [Promised EXCEPT ![a] = mw.val] = [b \in Addr |-> IF b = a THEN mw.val ELSE Promised[b]]
      BY <3>2
    <3> QED BY <3>1, <3>3 DEF Promised
  <2>2. a >= ArchTop
    BY <1>2, <1>3
  <2> QED BY <1>1, <1>2, <2>1, <2>2 DEF Program!Store
<1> QED BY <1>8, <1>9 DEF StackStep, Program!Next

\* EX: the next instruction comes into MW, or a stalled one is repeated.
LEMMA AdvanceKeeps ==
  ASSUME IInv, StackInv, turn = "EX", ~fault, NEW i, NEW sspill, NEW stop,
         mw'.exSs \in Int, Advance(i, sspill, stop), ~i.done, i.drSt = mw.exSt
  PROVE  StackInv' /\ StackStep /\ Unseen
<1>1. loaded' = Undef /\ UNCHANGED <<content, phase, buffer, mem, written, lazyPtr>>
  BY DEF Advance
<1>2. ArchTop' = ArchTop
  <2>1. CASE stall
    BY <1>1, <2>1 DEF Advance, ArchTop
  <2>2. CASE ~stall
    <3>1. phase = "IDLE" /\ (mw.done \/ mw.op = "nop")
      BY <2>2 DEF IInv, TurnInv
    <3>2. mw.op = "nop" => mw.exSt = mw.drSt
      BY DEF IInv, MWInv, PreparedBy, StackControl
    <3>3. ArchTop = mw.exSt
      BY <3>1, <3>2, TopBefore
    <3>4. ArchTop' = i.drSt
      BY <1>1, <2>2, <3>1 DEF Advance, ArchTop
    <3> QED BY <3>3, <3>4
  <2> QED BY <2>1, <2>2
<1>3. \A a \in written : WordAt(a)' = WordAt(a)
  <2> TAKE a \in written
  <2>1. /\ WordAt(a)' = Seen(content, ArchTop, buffer, mw'.exSs, mem, a)
        /\ WordAt(a) = Seen(content, ArchTop, buffer, mw.exSs, mem, a)
    BY <1>1, <1>2, WordAtSeen
  <2>2. CASE stall
    BY <2>1, <2>2 DEF Advance
  <2>3. CASE ~stall
    <3>1. Len(buffer) < 1
      BY <2>3 DEF IInv, TurnInv, StackInv
    <3>2. /\ content \in Seq(Val) /\ buffer \in Seq(Val) /\ ArchTop \in Int
          /\ mw.exSs \in Int /\ a \in Int /\ a >= ArchTop
      BY SeenTypes DEF StackInv
    <3>3. \A low \in Int : Seen(content, ArchTop, buffer, low, mem, a) =
                              Seen(content, ArchTop, buffer, mw.exSs, mem, a)
      BY <3>1, <3>2, SeenAnyLow
    <3> QED BY <2>1, <3>3
  <2> QED BY <2>2, <2>3
<1>4. StackInv'
  BY <1>1, <1>2 DEF StackInv
<1>5. Program!Consume
  <2>1. Promised' = Promised
    BY <1>1, <1>3 DEF Promised
  <2> QED BY <1>1, <1>2, <2>1 DEF Program!Consume
<1>6. Unseen
  BY <1>1, <1>2, <1>3 DEF Unseen
<1> QED BY <1>4, <1>5, <1>6 DEF StackStep, Program!Next

\* EX of a stack control instruction moves ss and st, not the program's top.
LEMMA StackControlEXKeeps ==
  ASSUME BlockCache, IInv, LazyInv, StackInv, StackControlEX
  PROVE  StackInv' /\ StackStep /\ Unseen
<1>1. PICK i \in InEX :
        Advance([i EXCEPT !.exSs = Prepare(i).ss, !.exSt = Prepare(i).st,
                           !.delta = Prepare(i).delta],
                Prepare(i).ss, Prepare(i).st)
  BY DEF StackControlEX
<1> DEFINE p == Prepare(i)
           d == [i EXCEPT !.exSs = p.ss, !.exSt = p.st, !.delta = p.delta]
<1>2. turn = "EX" /\ ~fault /\ IInv'
  BY StackControlEXInv DEF StackControlEX
<1>3. i \in Decodings /\ ~i.done /\ i.drSt = mw.exSt
  BY <1>2, InEXFields
<1>4. ~d.done /\ d.drSt = mw.exSt
  BY <1>3 DEF Decodings
<1>5. Advance(d, p.ss, p.st)
  BY <1>1
<1> HIDE DEF p, d
<1>6. mw'.exSs \in Int
  BY <1>2 DEF IInv, TypeOK, Decodings
<1> QED BY <1>2, <1>4, <1>5, <1>6, AdvanceKeeps

\* Nor does EX of any other instruction.
LEMMA OtherEXKeeps ==
  ASSUME BlockCache, IInv, StackInv, OtherEX
  PROVE  StackInv' /\ StackStep /\ Unseen
<1>1. PICK i \in InEX : Advance(i, ss, st)
  BY DEF OtherEX
<1>2. turn = "EX" /\ ~fault /\ IInv'
  BY OtherEXInv DEF OtherEX
<1>3. ~i.done /\ i.drSt = mw.exSt
  BY <1>2, InEXFields
<1>4. mw'.exSs \in Int
  BY <1>2 DEF IInv, TypeOK, Decodings
<1> QED BY <1>1, <1>2, <1>3, <1>4, AdvanceKeeps

\* A simulation exception, and an MW stage with nothing to do, change nothing
\* the program sees.
LEMMA QuietKeeps ==
  ASSUME IInv, StackInv,
         \/ ReserveUnderflows \/ SpillExceeds \/ AccessExceeds \/ NothingToDoInMW
         \/ StackControlExceeds \/ UNCHANGED vars
  PROVE  StackInv' /\ StackStep /\ Unseen
<1>1. UNCHANGED <<mw, phase, content, buffer, mem, written, loaded, lazyPtr>>
  BY DEF ReserveUnderflows, SpillExceeds, AccessExceeds, NothingToDoInMW,
         StackControlExceeds, Executing, Throw, cacheVars, pipeVars, vars
<1>2. ArchTop' = ArchTop
  BY <1>1 DEF ArchTop
<1>3. Unseen
  BY <1>1, <1>2, WordAtSeen DEF Unseen
<1> QED BY <1>1, <1>2, <1>3, SilentStep

\* Every step of the three block caches is a step of the abstract stack.
LEMMA NextKeeps ==
  ASSUME BlockCache, IInv, LazyInv, StackInv, CoherentInv, [Next]_vars
  PROVE  StackInv' /\ StackStep
<1>1. CASE UNCHANGED vars \/ Ended
  BY <1>1, QuietKeeps DEF Ended
<1>2. CASE MWStep
  <2>1. CASE ReserveIdle
    BY <2>1, ReserveIdleKeeps
  <2>2. CASE ReserveSpilling
    BY <2>2, SpillingKeeps, SpillingEvictsNothing DEF ReserveSpilling, Executing
  <2>3. CASE BlockEnsure
    BY <2>3, BlockEnsureKeeps
  <2>4. CASE FreeWithoutFill \/ FreeWithFill
    BY <2>4, FreeKeeps, FreeWithFillKeeps
  <2>5. CASE BlockSpill
    BY <2>5, BlockSpillKeeps
  <2>6. CASE Load
    BY <2>6, LoadKeeps
  <2>7. CASE Store
    BY <2>7, StoreKeeps
  <2>8. CASE ReserveUnderflows \/ SpillExceeds \/ AccessExceeds \/ NothingToDoInMW
    BY <2>8, QuietKeeps
  <2>9. ~(IdealEnsure \/ ProxyFree \/ FreeExceeds \/ IdealSpill
          \/ ProxyLoad \/ ProxyStore)
    BY KindOfCache DEF IdealEnsure, ProxyFree, FreeExceeds, IdealSpill, ProxyLoad,
           ProxyStore
  <2> QED BY <1>2, <2>1, <2>2, <2>3, <2>4, <2>5, <2>6, <2>7, <2>8, <2>9 DEF MWStep
<1>3. CASE EXStep
  BY <1>3, StackControlEXKeeps, QuietKeeps, OtherEXKeeps DEF EXStep
<1> QED BY <1>1, <1>2, <1>3 DEF Next

-----------------------------------------------------------------------------
(***************************************************************************)
(* The lazy pointer: every step keeps in memory what it says memory holds. *)
(***************************************************************************)
\* A word stored earlier keeps its value in every step but a store to it.
LEMMA WordsKept ==
  ASSUME IInv, ArchTop' \in Int, StackInv', StackStep, NEW a \in written, a \in written'
  PROVE  \/ WordAt(a)' = WordAt(a)
         \/ mw.op = "store" /\ a = mw.exSt + mw.addr
<1>1. a \in Addr /\ a \in Int
  BY SeenTypes
<1>2. Promised[a] = WordAt(a) /\ Promised'[a] = WordAt(a)'
  BY <1>1 DEF Promised
<1>3. CASE Program!Reserve \/ Program!Load \/ Program!Consume \/ UNCHANGED Program!pvars
  <2>1. Promised' = Promised
    BY <1>3 DEF Program!Reserve, Program!Load, Program!Consume, Program!pvars
  <2> QED BY <1>2, <2>1
<1>4. CASE Program!Free
  <2>1. Promised'[a] = IF a < ArchTop' THEN Undef ELSE Promised[a]
    BY <1>1, <1>4 DEF Program!Free
  <2>2. a >= ArchTop' /\ ArchTop' \in Int
    BY DEF StackInv
  <2> QED BY <1>1, <1>2, <2>1, <2>2
<1>5. CASE Program!Store
  <2>1. mw.op = "store" /\ Promised' = [Promised EXCEPT ![mw.exSt + mw.addr] = mw.val]
    BY <1>5 DEF Program!Store, Request
  <2>2. a # mw.exSt + mw.addr => Promised'[a] = Promised[a]
    BY <1>1, <2>1 DEF Promised
  <2> QED BY <1>2, <2>1, <2>2
<1> QED BY <1>3, <1>4, <1>5 DEF StackStep, Program!Next

\* What remains to be shown of a step: the words at or above the new lazy pointer
\* were in memory before, and memory keeps them.
LEMMA StaysCoherent ==
  ASSUME IInv, ArchTop' \in Int, StackInv', StackStep, CoherentInv, Kind = "lblock",
         \A a \in written' : a - ArchTop' \in lazyPtr' .. Len(content') - 1 =>
           /\ a \in written /\ mem'[a] = mem[a]
           /\ mw.op = "store" => a # mw.exSt + mw.addr
           /\ a - ArchTop \in lazyPtr .. Len(content) - 1 \/ WordAt(a) = mem[a]
  PROVE  CoherentInv'
<1>1. ASSUME NEW a \in written', a - ArchTop' \in lazyPtr' .. Len(content') - 1
      PROVE  WordAt(a)' = mem'[a]
  <2>1. /\ a \in written /\ mem'[a] = mem[a]
        /\ mw.op = "store" => a # mw.exSt + mw.addr
        /\ a - ArchTop \in lazyPtr .. Len(content) - 1 \/ WordAt(a) = mem[a]
    BY <1>1
  <2>2. WordAt(a)' = WordAt(a)
    BY <2>1, WordsKept
  <2>3. WordAt(a) = mem[a]
    BY <2>1 DEF CoherentInv, CoherentAboveLazyPointer
  <2> QED BY <2>1, <2>2, <2>3
<1> QED BY <1>1 DEF CoherentInv, CoherentAboveLazyPointer

\* A spill writes at the new spill pointer and above.
LEMMA SpillCallBelow ==
  ASSUME NEW buf, SpillCall(buf), mem \in [Addr -> Val], mw.exSs \in Int,
         NEW a \in Addr, a \in Int, a < mw.exSs
  PROVE  mem'[a] = mem[a]
<1>1. mem' = MemoryAfterSpill(buf) \/ mem' = mem
  BY DEF SpillCall
<1>2. a \notin mw.exSs .. mw.exSs + Len(buf) - 1
  OBVIOUS
<1>3. MemoryAfterSpill(buf)[a] = mem[a]
  BY <1>2 DEF MemoryAfterSpill
<1> QED BY <1>1, <1>3

\* An instruction that takes effect leaves the words between its pointers.
LEMMA EffectLength ==
  ASSUME IInv, IInv', Finish \/ (Repeat /\ phase' = "SPILL")
  PROVE  /\ Len(content') = mw.exSs - mw.exSt /\ Len(content') \in Nat
         /\ ArchTop' = mw.exSt
<1>1. mw \in Decodings /\ phase' \in {"IDLE", "SPILL", "FILL"} /\ content' \in Seq(Val)
  BY DEF IInv, TypeOK
<1>2. CASE Finish
  BY <1>1, <1>2, FinishFields, TopAfter DEF IInv, ContentInv
<1>3. CASE Repeat /\ phase' = "SPILL"
  BY <1>1, <1>3, TopAfter DEF IInv, ContentInv, Repeat
<1> QED BY <1>1, <1>2, <1>3, LenProperties

LEMMA ReserveCoherent ==
  ASSUME BlockCache, Kind = "lblock", IInv, LazyInv, StackInv, CoherentInv,
         IInv', StackInv', StackStep, ReserveIdle \/ ReserveSpilling
  PROVE  CoherentInv'
<1>1. /\ mw.op = "reserve" /\ ~mw.done /\ written' = written /\ lazyPtr' = nextLazy
  BY DEF ReserveIdle, ReserveSpilling, Executing, LazyCommit
<1>2. \/ NoTransfer
      \/ \E buf : SpillCall(buf)
  BY DEF ReserveIdle, ReserveSpilling
<1>3. Finish \/ (Repeat /\ phase' = "SPILL")
  BY <1>2 DEF NoTransfer, SpillCall
<1>4. Len(content') = mw.exSs - mw.exSt /\ Len(content') \in Nat /\ ArchTop' = mw.exSt
  BY <1>3, EffectLength
<1>5. /\ mem \in [Addr -> Val] /\ Len(content) \in Nat /\ ArchTop \in Int
      /\ mw.exSs \in Int /\ mw.drSs \in Int /\ mw.drSt \in Int /\ mw.exSt \in Int
      /\ mw.delta \in Int /\ mw.size \in Nat
      /\ \A a \in written : a \in Int /\ a \in Addr /\ a >= ArchTop
      /\ lazyPtr \in Nat /\ nextLazy \in Nat
  BY SeenTypes DEF StackInv, LazyInv
<1>6. \A a \in written : a < mw.exSs => mem'[a] = mem[a]
  <2>1. CASE NoTransfer
    BY <2>1 DEF NoTransfer
  <2>2. CASE \E buf : SpillCall(buf)
    BY <1>5, <2>2, SpillCallBelow
  <2> QED BY <1>2, <2>1, <2>2
<1>7. ASSUME NEW a \in written, a - mw.exSt \in nextLazy .. Len(content') - 1
      PROVE  a < mw.exSs /\ a - ArchTop \in lazyPtr .. Len(content) - 1
  <2>1. a \in Int /\ a >= ArchTop /\ a < mw.exSs /\ a - mw.exSt >= nextLazy
    BY <1>4, <1>5, <1>7
  <2>2. CASE phase = "IDLE"
    <3>1. ArchTop = mw.drSt /\ Len(content) = mw.drSs - mw.drSt /\ mw.exSt = mw.drSt - mw.size
      BY <1>1, <2>2, TopBefore DEF IInv, ContentInv, MWInv, PreparedBy
    <3>2. /\ evict \in 0 .. mw.drSs - mw.drSt /\ mw.exSs = mw.drSs - mw.delta - evict
          /\ \A k \in 0 .. mw.drSs - mw.drSt - evict - mw.delta - 1 :
               k + mw.size >= nextLazy => k >= lazyPtr
      BY <1>1, <2>2 DEF LazyInv, ReservePending, EvictsCoherent
    <3>3. PICK k : k = a - mw.drSt
      OBVIOUS
    <3>4. mw.delta \in Nat
      BY <1>1 DEF IInv, MWInv, PreparedBy
    <3>8. evict \in Int /\ mw.exSs = mw.drSs - mw.delta - evict /\ mw.exSt = mw.drSt - mw.size
          /\ a \in Int /\ a >= mw.drSt
      BY <1>5, <2>1, <3>1, <3>2
    <3>5. k \in 0 .. mw.drSs - mw.drSt - evict - mw.delta - 1 /\ k + mw.size >= nextLazy
      <4>1. /\ mw.drSs \in Int /\ mw.drSt \in Int /\ mw.delta \in Int /\ mw.size \in Int
            /\ nextLazy \in Int
        BY <1>5
      <4> QED BY <2>1, <3>3, <3>8, <4>1
    <3>6. k >= lazyPtr
      BY <3>2, <3>5
    <3>7. k <= Len(content) - 1
      BY <1>5, <3>1, <3>2, <3>4, <3>5
    <3> QED BY <1>5, <2>1, <3>1, <3>3, <3>5, <3>6, <3>7
  <2>3. CASE phase = "SPILL"
    <3>1. ArchTop = mw.exSt /\ Len(content) = mw.exSs - mw.exSt /\ lazyPtr = nextLazy
      BY <1>1, <2>3, TopBefore DEF IInv, ContentInv, LazyInv, HandOver
    <3> QED BY <1>5, <2>1, <3>1
  <2> QED BY <2>2, <2>3 DEF ReserveIdle, ReserveSpilling
<1> QED BY <1>1, <1>4, <1>5, <1>6, <1>7, StaysCoherent

LEMMA SpillCoherent ==
  ASSUME BlockCache, Kind = "lblock", IInv, LazyInv, StackInv, CoherentInv,
         IInv', StackInv', StackStep, BlockSpill
  PROVE  CoherentInv'
<1>1. mw.op = "spill" /\ ~mw.done /\ written' = written /\ lazyPtr' = lazyPtr
  BY DEF BlockSpill, Executing, lazyVars
<1>2. \/ NoTransfer
      \/ \E buf : SpillCall(buf)
  BY DEF BlockSpill
<1>3. Finish \/ (Repeat /\ phase' = "SPILL")
  BY <1>2 DEF NoTransfer, SpillCall
<1>4. Len(content') = mw.exSs - mw.exSt /\ Len(content') \in Nat /\ ArchTop' = mw.exSt
  BY <1>3, EffectLength
<1>5. /\ mem \in [Addr -> Val] /\ content \in Seq(Val) /\ Len(content) \in Nat
      /\ mw.exSs \in Int /\ mw.exSt \in Int /\ lazyPtr \in Nat
      /\ \A a \in written : a \in Int /\ a \in Addr
  BY SeenTypes DEF LazyInv
<1>6. \A a \in written : a < mw.exSs => mem'[a] = mem[a]
  <2>1. CASE NoTransfer
    BY <2>1 DEF NoTransfer
  <2>2. CASE \E buf : SpillCall(buf)
    BY <1>5, <2>2, SpillCallBelow
  <2> QED BY <1>2, <2>1, <2>2
<1>7. ArchTop = mw.exSt
  BY <1>1, TopBefore DEF IInv, MWInv, PreparedBy
<1>8. Len(content') <= Len(content)
  <2>1. CASE content' = content
    BY <1>5, <2>1
  <2>2. CASE mw.delta \in 1 .. Len(content) /\ content' = Without(content, mw.delta)
    <3>1. mw.delta \in 0 .. Len(content) /\ mw.delta >= 0
      BY <2>2
    <3>2. Len(content') = Len(content) - mw.delta
      BY <1>5, <2>2, <3>1, WithoutType
    <3> QED BY <1>5, <3>1, <3>2
  <2> QED BY <2>1, <2>2 DEF BlockSpill
<1>9. ASSUME NEW a \in written, a - mw.exSt \in lazyPtr .. Len(content') - 1
      PROVE  a < mw.exSs /\ a - ArchTop \in lazyPtr .. Len(content) - 1
  BY <1>4, <1>5, <1>7, <1>8, <1>9
<1> QED BY <1>1, <1>4, <1>5, <1>6, <1>9, StaysCoherent

LEMMA EnsureCoherent ==
  ASSUME BlockCache, Kind = "lblock", IInv, LazyInv, StackInv, CoherentInv,
         StackInv', StackStep, BlockEnsure
  PROVE  CoherentInv'
<1>1. mw.op = "ensure" /\ ~mw.done /\ UNCHANGED <<written, lazyPtr, mem>>
  BY DEF BlockEnsure, Executing, lazyVars, NoTransfer
<1>2. /\ mw \in Decodings /\ content \in Seq(Val) /\ buffer \in Seq(Val)
      /\ Len(content) \in Nat /\ mw.exSs \in Int /\ mw.exSt \in Int /\ lazyPtr \in Nat
      /\ \A a \in written : a \in Int
  BY SeenTypes DEF LazyInv
<1>3. Finish \/ (Repeat /\ phase' # "IDLE")
  BY DEF BlockEnsure, NoTransfer
<1>4. ArchTop' = mw.exSt
  BY <1>2, <1>3, TopAfter
<1>5. ArchTop = mw.exSt /\ Len(buffer) < 1
  BY <1>1, TopBefore DEF IInv, MWInv, PreparedBy, ContentInv, StackInv
<1>6. ASSUME NEW a \in written, a - mw.exSt \in lazyPtr .. Len(content') - 1
      PROVE  a - ArchTop \in lazyPtr .. Len(content) - 1 \/ WordAt(a) = mem[a]
  <2>1. a \in Int /\ a - mw.exSt >= lazyPtr
    BY <1>2, <1>6
  <2>2. CASE a < mw.exSt + Len(content)
    BY <1>2, <1>5, <2>1, <2>2
  <2>3. CASE a >= mw.exSt + Len(content)
    BY <1>2, <1>5, <2>1, <2>3, SeenUnbuffered, WordAtSeen
  <2> QED BY <1>2, <2>1, <2>2, <2>3
<1> QED BY <1>1, <1>2, <1>4, <1>6, StaysCoherent

LEMMA FreeCoherent ==
  ASSUME BlockCache, Kind = "lblock", IInv, LazyInv, StackInv, CoherentInv,
         IInv', StackInv', StackStep, FreeWithoutFill
  PROVE  CoherentInv'
<1>1. /\ mw.op = "free" /\ ~mw.done /\ lazyPtr' = nextLazy /\ Finish /\ mem' = mem
      /\ \A a \in written' : a \in written
  BY DEF FreeWithoutFill, Executing, LazyCommit, NoTransfer, StillPromised
<1>2. /\ mw.drSs \in Int /\ mw.drSt \in Int /\ mw.exSt \in Int /\ mw.exSs \in Int
      /\ mw.size \in Nat /\ lazyPtr \in Nat /\ Len(content) \in Nat
      /\ \A a \in written : a \in Int
  BY SeenTypes DEF LazyInv
<1>3. Len(content') = mw.exSs - mw.exSt /\ Len(content') \in Nat /\ ArchTop' = mw.exSt
  BY <1>1, EffectLength
<1>4. mw.delta = 0
  BY DEF FreeWithoutFill
<1>5. /\ nextLazy = IF lazyPtr < mw.size THEN 0 ELSE lazyPtr - mw.size
      /\ mw.exSt = mw.drSt + mw.size /\ mw.exSs = Greater(mw.drSs, mw.exSt)
  BY <1>1, <1>4 DEF LazyInv, HandOver, LazyNextAfterFree, IInv, MWInv, PreparedBy
<1>6. ArchTop = mw.drSt /\ Len(content) = mw.drSs - mw.drSt
  BY <1>1, <1>4, TopBefore DEF IInv, ContentInv, TypeOK
<1>7. ASSUME NEW a \in written, a - mw.exSt \in nextLazy .. Len(content') - 1
      PROVE  a - ArchTop \in lazyPtr .. Len(content) - 1
  <2>1. a \in Int /\ a - mw.exSt >= nextLazy /\ a < mw.exSs /\ nextLazy >= 0
    BY <1>2, <1>3, <1>5, <1>7
  <2>2. mw.exSs = mw.drSs
    BY <1>2, <1>5, <2>1 DEF Greater
  <2>3. a - mw.drSt >= lazyPtr
    BY <1>2, <1>5, <2>1
  <2> QED BY <1>2, <1>6, <2>1, <2>2, <2>3
<1> QED BY <1>1, <1>2, <1>3, <1>7, StaysCoherent

LEMMA AccessCoherent ==
  ASSUME BlockCache, Kind = "lblock", IInv, LazyInv, StackInv, CoherentInv,
         IInv', StackInv', StackStep, Load \/ Store
  PROVE  CoherentInv'
<1>1. /\ content \in Seq(Val) /\ Len(content) \in Nat /\ mw.addr \in Nat /\ mw.exSt \in Int
      /\ Finish /\ mem' = mem /\ ArchTop = mw.exSt /\ ArchTop' = mw.exSt
      /\ lazyPtr \in Nat /\ \A a \in written : a \in Int
  BY AccessedWord, SeenTypes DEF LazyInv
<1>2. CASE Load
  BY <1>1, <1>2, StaysCoherent DEF Load, Executing, lazyVars
<1>3. CASE Store
  <2>1. /\ lazyPtr' = Greater(lazyPtr, mw.addr + 1)
        /\ written' = written \cup {mw.exSt + mw.addr}
        /\ content' = [content EXCEPT ![Len(content) - mw.addr] = mw.val]
    BY <1>3 DEF Store
  <2>2. Len(content') = Len(content)
    BY <1>1, <2>1, AccessedWord, ExceptSeq
  <2>3. ASSUME NEW a \in written', a - mw.exSt \in lazyPtr' .. Len(content') - 1
        PROVE  /\ a \in written /\ a # mw.exSt + mw.addr
               /\ a - ArchTop \in lazyPtr .. Len(content) - 1
    <3>1. a \in Int
      BY <1>1, <2>1
    <3>2. lazyPtr' \in Nat /\ lazyPtr' >= lazyPtr /\ lazyPtr' > mw.addr
      BY <1>1, <2>1 DEF Greater
    <3>3. a # mw.exSt + mw.addr
      BY <1>1, <2>3, <3>1, <3>2
    <3> QED BY <1>1, <2>1, <2>2, <2>3, <3>1, <3>2, <3>3
  <2> QED BY <1>1, <2>3, StaysCoherent
<1> QED BY <1>2, <1>3

\* Every step keeps in memory what the lazy pointer says memory holds.
LEMMA NextCoherent ==
  ASSUME BlockCache, IInv, LazyInv, StackInv, CoherentInv, [Next]_vars
  PROVE  CoherentInv'
<1> SUFFICES ASSUME Kind = "lblock" PROVE CoherentInv'
  BY DEF CoherentInv
<1>1. IInv' /\ StackInv' /\ StackStep
  BY NextInv, NextKeeps
<1>2. Unseen => CoherentInv'
  BY DEF Unseen, CoherentInv, CoherentAboveLazyPointer
<1>3. CASE UNCHANGED vars \/ Ended
  BY <1>2, <1>3, QuietKeeps DEF Ended
<1>4. CASE MWStep
  <2>1. CASE ReserveIdle \/ ReserveSpilling
    BY <1>1, <2>1, ReserveCoherent
  <2>2. CASE BlockEnsure
    BY <1>1, <2>2, EnsureCoherent
  <2>3. CASE FreeWithoutFill
    BY <1>1, <2>3, FreeCoherent
  <2>4. CASE BlockSpill
    BY <1>1, <2>4, SpillCoherent
  <2>5. CASE Load \/ Store
    BY <1>1, <2>5, AccessCoherent
  <2>6. CASE ReserveUnderflows \/ SpillExceeds \/ AccessExceeds \/ NothingToDoInMW
    BY <1>2, <2>6, QuietKeeps
  <2>7. ~(IdealEnsure \/ FreeWithFill \/ ProxyFree \/ FreeExceeds \/ IdealSpill
          \/ ProxyLoad \/ ProxyStore)
    BY DEF IdealEnsure, FreeWithFill, ProxyFree, FreeExceeds, IdealSpill, ProxyLoad,
           ProxyStore
  <2> QED BY <1>4, <2>1, <2>2, <2>3, <2>4, <2>5, <2>6, <2>7 DEF MWStep
<1>5. CASE EXStep
  BY <1>2, <1>5, StackControlEXKeeps, OtherEXKeeps, QuietKeeps DEF EXStep
<1> QED BY <1>3, <1>4, <1>5 DEF Next

-----------------------------------------------------------------------------
(***************************************************************************)
(* The refinement theorems.                                                *)
(***************************************************************************)
\* The program starts with an empty stack.
LEMMA InitKeeps ==
  ASSUME Init
  PROVE  StackInv /\ Program!Init
<1>1. written = {} /\ loaded = Undef /\ phase = "IDLE" /\ ~mw.done /\ mw.drSt = StackBase
  BY DEF Init, Decoded, Idle
<1>2. ArchTop = StackBase
  BY <1>1, TopBefore
<1>3. Promised = [a \in Addr |-> Undef]
  BY <1>1 DEF Promised
<1>4. Len(buffer) < 1
  <2>1. <<>> \in Seq(Val) /\ Len(<<>>) = 0
    BY EmptySeq
  <2>2. Len(buffer) = 0
    BY <2>1, Zenon DEF Init
  <2> QED BY <2>2
<1> QED BY <1>1, <1>2, <1>3, <1>4 DEF StackInv, Program!Init

\* The inductive invariant, and the refinement step by step.
LEMMA CacheRefinesStack ==
  ASSUME BlockCache PROVE Spec => RefinesProgramStack /\ []CoherentInv
<1>1. Init => IInv /\ LazyInv /\ StackInv /\ CoherentInv /\ Program!Init
  BY InitInv, InitLazy, InitKeeps DEF CoherentInv, CoherentAboveLazyPointer, Init
<1>2. IInv /\ LazyInv /\ StackInv /\ CoherentInv /\ [Next]_vars =>
        /\ IInv' /\ LazyInv' /\ StackInv' /\ CoherentInv'
        /\ [Program!Next]_(Program!pvars)
  BY NextInv, NextLazyInv, NextKeeps, NextCoherent DEF StackStep
<1> QED BY <1>1, <1>2, PTL DEF Spec, RefinesProgramStack, Program!Spec

\* The block stack cache implements the abstract stack: whatever its capacity,
\* however its spills and fills interleave with the prepare functions of EX,
\* the top moves as the program says and a load returns the word last stored.
THEOREM BlockRefinesStack ==
  ASSUME BlockProgram PROVE Spec => RefinesProgramStack
<1>1. BlockCache
  BY DEF BlockProgram, BlockCache
<1> QED BY <1>1, CacheRefinesStack

\* block_lazy_stack_cache_t implements the abstract stack too: what a reserve
\* discards without spilling it, memory gives back as the program stored it.
THEOREM LazyRefinesStack ==
  ASSUME LazyProgram PROVE Spec => RefinesProgramStack
<1>1. BlockCache
  BY DEF LazyProgram, BlockCache
<1> QED BY <1>1, CacheRefinesStack

\* block_aligned_stack_cache_t implements the abstract stack too: the words that a
\* free dropped with the content, and those that alignment made a reserve spill
\* early, are read back as the program stored them.
THEOREM AlignedRefinesStack ==
  ASSUME AlignedProgram PROVE Spec => RefinesProgramStack
<1>1. BlockCache
  BY DEF AlignedProgram, BlockCache
<1> QED BY <1>1, CacheRefinesStack

\* The words that block_lazy_stack_cache_t holds at and above its lazy pointer
\* are in memory: the reason why a reserve may discard them.
THEOREM LazyKeepsCoherent ==
  ASSUME LazyProgram PROVE Spec => []CoherentAboveLazyPointer
<1>1. BlockCache
  BY DEF LazyProgram, BlockCache
<1>2. CoherentInv => CoherentAboveLazyPointer
  BY DEF LazyProgram, CoherentInv
<1> QED BY <1>1, <1>2, CacheRefinesStack, PTL
=============================================================================
