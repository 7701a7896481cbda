--------------------------- MODULE StackCacheOps ---------------------------
(***************************************************************************)
(* The pointer arithmetic of the stack caches: what the functions          *)
(* prepare_reserve, prepare_free, prepare_ensure and prepare_spill of each *)
(* class in src/stack-cache.cc return for the stack spill pointer ss and   *)
(* the stack top pointer st the instruction read in its DR stage.          *)
(*                                                                         *)
(* The unit is the word.  Every block cache pasim builds has blocks of     *)
(* four bytes (create_stack_cache in src/pasim.cc), so size_blocks *       *)
(* Num_block_bytes equals size unless the size is ragged, i.e. not a       *)
(* multiple of four bytes; only sensr and sspillr, which take the size     *)
(* from a register, can carry a ragged size.                               *)
(*                                                                         *)
(* A definition introduced by "Faulty:" is a variant of the definition     *)
(* that follows it; the properties are validated by failing on it.         *)
(***************************************************************************)
EXTENDS Integers

CONSTANTS
  NumBlocks,      \* capacity of the stack cache in words
  TransferWords,  \* words of one aligned transfer block of the ablock cache
  AddrSpace       \* number of word addresses a uword_t can hold

ASSUME StackSizes ==
  /\ NumBlocks \in Nat \ {0}
  /\ TransferWords \in 1 .. NumBlocks
  /\ NumBlocks % TransferWords = 0
  /\ AddrSpace \in Nat \ {0}

\* Subtraction of uword_t values.
Minus(a, b) == IF b <= a THEN a - b ELSE AddrSpace + a - b

Lesser(a, b)  == IF a <= b THEN a ELSE b
Greater(a, b) == IF a <= b THEN b ELSE a

(***************************************************************************)
(* The pointers a prepare function leaves in its reference arguments, and  *)
(* the number of words it returns.  ok = FALSE stands for the simulation   *)
(* exception stack_exceeded: the caller's pointers are then lost.          *)
(***************************************************************************)
Prepared(ss, st, delta) == [ok |-> TRUE, ss |-> ss, st |-> st, delta |-> delta]
Exceeded == [ok |-> FALSE, ss |-> 0, st |-> 0, delta |-> 0]

\* get_num_reserved_blocks
ReservedBlocks(ss, st) == Minus(ss, st)

(***************************************************************************)
(* ideal_stack_cache_t (and proxy_stack_cache_t, which inherits these).    *)
(***************************************************************************)
IdealPrepareReserve(size, ss, st) == Prepared(ss, Minus(st, size), 0)

IdealPrepareFree(size, ss, st) ==
  Prepared(Greater(ss, st + size), st + size, 0)

IdealPrepareEnsure(size, ss, st) ==
  IF ss < st THEN Exceeded
  ELSE Prepared(Greater(ss, st + size), st,
                IF ss < st + size THEN st + size - ss ELSE 0)

IdealPrepareSpill(size, ss, st) ==
  IF st > Minus(ss, size) THEN Exceeded
  ELSE Prepared(Minus(ss, size), st, size)

(***************************************************************************)
(* block_stack_cache_t.                                                    *)
(***************************************************************************)
BlockPrepareReserve(size, ss, st) ==
  LET top      == st - size
      reserved == ReservedBlocks(ss, top)
      transfer == IF reserved > NumBlocks THEN reserved - NumBlocks ELSE 0
  IN  IF size > NumBlocks \/ st < size THEN Exceeded
      ELSE Prepared(Minus(ss, transfer), top, transfer)

\* Faulty: freeing beyond the spill pointer does not move it.
BlockPrepareFreeKeepsSpill(size, ss, st) ==
  IF size > NumBlocks THEN Exceeded ELSE Prepared(ss, st + size, 0)

BlockPrepareFree(size, ss, st) ==
  LET reserved     == ReservedBlocks(ss, st)
      freedSpilled == IF size <= reserved THEN 0 ELSE size - reserved
  IN  IF size > NumBlocks THEN Exceeded
      ELSE Prepared(ss + freedSpilled, st + size, 0)

BlockPrepareEnsure(size, ragged, ss, st) ==
  LET reserved == ReservedBlocks(ss, st)
      transfer == IF reserved < size THEN size - reserved ELSE 0
  IN  IF size > NumBlocks \/ ragged THEN Exceeded
      ELSE Prepared(ss + transfer, st, transfer)

BlockPrepareSpill(size, ragged, ss, st) ==
  IF ragged THEN Exceeded ELSE Prepared(Minus(ss, size), st, size)

(***************************************************************************)
(* block_aligned_stack_cache_t: the same, with the spill pointer moved to  *)
(* a multiple of the transfer block.  prepare_spill is not overridden.     *)
(***************************************************************************)
RoundUpGap(ss) ==
  IF ss % TransferWords = 0 THEN 0 ELSE TransferWords - (ss % TransferWords)

\* Faulty: the words spilled for alignment are not counted.
AlignedPrepareReserveUncounted(size, ss, st) ==
  LET p == BlockPrepareReserve(size, ss, st)
  IN  IF ~p.ok THEN p
      ELSE Prepared(p.ss - (p.ss % TransferWords), p.st, p.delta)

AlignedPrepareReserve(size, ss, st) ==
  LET p == BlockPrepareReserve(size, ss, st)
      alignmentFixup == p.ss % TransferWords
  IN  IF ~p.ok THEN p
      ELSE Prepared(p.ss - alignmentFixup, p.st, p.delta + alignmentFixup)

AlignedPrepareEnsure(size, ragged, ss, st) ==
  LET p == BlockPrepareEnsure(size, ragged, ss, st)
  IN  IF ~p.ok THEN p
      ELSE Prepared(p.ss + RoundUpGap(p.ss), p.st, p.delta + RoundUpGap(p.ss))

AlignedPrepareFree(size, ss, st) ==
  LET p == BlockPrepareFree(size, ss, st)
  IN  IF ~p.ok \/ RoundUpGap(p.ss) = 0 THEN p
      ELSE Prepared(p.ss + RoundUpGap(p.ss), p.st, TransferWords)

(***************************************************************************)
(* block_lazy_stack_cache_t.  The lazy pointer counts, from the stack top, *)
(* the words that may differ from main memory.  prepare_reserve and        *)
(* prepare_free also leave a Next_Lazy_pointer, and prepare_reserve the    *)
(* number of coherent words the later reserve drops without spilling.      *)
(***************************************************************************)
LazyReserveBase(size, ss, st, lazy) ==
  BlockPrepareReserve(size, st + Lesser(lazy, Minus(ss, st)), st)

LazyPrepareReserve(size, ss, st, lazy) ==
  LET p == LazyReserveBase(size, ss, st, lazy)
  IN  IF ~p.ok THEN p
      ELSE Prepared(IF Minus(ss, p.st) > NumBlocks THEN p.st + NumBlocks ELSE ss,
                    p.st, p.delta)

\* Faulty: the words that are spilled are evicted, too.
LazyBlocksToEvictAll(size, ss, st, lazy, evict) ==
  LET span == Minus(ss, LazyReserveBase(size, ss, st, lazy).st)
  IN  IF span > NumBlocks THEN span - NumBlocks ELSE evict

LazyBlocksToEvict(size, ss, st, lazy, evict) ==
  LET p    == LazyReserveBase(size, ss, st, lazy)
      span == Minus(ss, p.st)
  IN  IF span > NumBlocks THEN span - NumBlocks - p.delta ELSE evict

\* Faulty: the lazy pointer does not move away from the new stack top.
LazyNextAfterReserveUnmoved(size, ss, st, lazy) ==
  IF size = NumBlocks THEN 0 ELSE Lesser(lazy, Minus(ss, st))

LazyNextAfterReserve(size, ss, st, lazy) ==
  LET p == LazyReserveBase(size, ss, st, lazy)
      lpPulldown == Lesser(lazy, Minus(ss, st)) = 0
      lpSpillall == size = NumBlocks
  IN  IF lpPulldown \/ lpSpillall THEN 0 ELSE p.ss - p.st

\* Faulty: what lies below the freed words counts as coherent.
LazyNextAfterFreeForgets(size, st, lazy) == 0

LazyNextAfterFree(size, st, lazy) ==
  IF lazy < size THEN 0 ELSE lazy - size
=============================================================================
