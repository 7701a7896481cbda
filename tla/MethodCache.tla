---------------------------- MODULE MethodCache ----------------------------
(***************************************************************************)
(* The LRU and the FIFO method cache (method-cache.cc), driven by the fetch *)
(* stage and by the MW stage of the instructions that enter a method.       *)
(*                                                                         *)
(* A cycle is two steps: IF fetches an instruction from the active method,  *)
(* unless it has done so already; then MW runs, and the rest of the cycle.  *)
(* Addresses and sizes count words.  An exception of the simulator ends the *)
(* run.                                                                    *)
(***************************************************************************)
EXTENDS Integers, SequencesExt

CONSTANTS
  Kinds,          \* the classes --mckind may select: a subset of {"lru", "fifo"}
  SizeAt,         \* for every base that is entered, the word of memory before it
  Targets,        \* where control flow may go: records [base, pc]
  Branches,       \* where a branch within the method may go
  NumBlocks,      \* --mcsize, in blocks
  BlockWords,     \* --mbsize
  MaxMethods,     \* --mcmethods
  FetchAhead,     \* words past a method that may be fetched (three bundles)
  BundleWords,    \* lengths of the instructions
  FlushPC,        \* --flush-caches
  UnsignedSpan    \* 2^w of a size

ASSUME MethodCacheAssumption ==
  /\ Kinds \subseteq {"lru", "fifo"}
  /\ DOMAIN SizeAt \subseteq Nat \ {0}
  /\ \A a \in DOMAIN SizeAt : SizeAt[a] \in 0 .. UnsignedSpan - 1
  /\ Targets \subseteq [base : DOMAIN SizeAt, pc : Nat]
  /\ Branches \subseteq Nat /\ BundleWords \subseteq Nat
  /\ {NumBlocks, BlockWords, MaxMethods, UnsignedSpan} \subseteq Nat \ {0}
  /\ FetchAhead \in Nat

Bases == DOMAIN SizeAt
Methods == [address : Bases, blocks : Nat, words : Nat]

\* The instructions the MW stage may hold.
Instructions == [op : {"other", "flush"}] \cup [op : {"enter"}, to : Targets]

VARIABLES
  kind,       \* which method cache the simulator was started with
  cache,      \* its members; methods holds the entries in use, oldest first,
              \* active says how many entries are younger than the active one
  turn,       \* the half of the cycle that is next
  disableIF,  \* Disable_IF
  base,       \* BASE
  pc,         \* PC
  nPC,        \* nPC
  mw,         \* the instruction in MW
  fault,      \* an exception of the simulator has ended the run
  order       \* history: the bases entered, by last use (LRU) or load (FIFO)

vars == <<kind, cache, turn, disableIF, base, pc, nPC, mw, fault, order>>

-----------------------------------------------------------------------------
(* The functions of the caches.                                            *)

\* get_num_blocks_for_bytes: a size of 0 wraps.
BlocksFor(size) == ((size - 1) % UnsignedSpan) \div BlockWords + 1

Method(a) == [address |-> a, blocks |-> BlocksFor(SizeAt[a]), words |-> SizeAt[a]]

Resident(c, a) == \E i \in DOMAIN c.methods : c.methods[i].address = a

\* The entry of a resident method, of which there is one.
Position(c, a) ==
  CHOOSE i \in DOMAIN c.methods : c.methods[i].address = a

\* The method that fetch reads from.
ActiveMethod(c) == c.methods[Len(c.methods) - c.active]

\* fifo_method_cache_t::load_method, once the method is there.
Activate(c, a) ==
  [c EXCEPT !.active = IF kind = "fifo" THEN Len(c.methods) - Position(c, a)
                                        ELSE 0]

\* Faulty: the entry trades places with the youngest one.
HitSwaps(c, a) ==
  LET i == Position(c, a)
  IN  IF kind = "lru"
      THEN [c EXCEPT !.methods[i] = Last(c.methods),
                     !.methods[Len(c.methods)] = c.methods[i]]
      ELSE c

\* lookup of a method that is resident.
Hit(c, a) ==
  LET i == Position(c, a)
  IN  IF kind = "lru"
      THEN [c EXCEPT !.methods = Append(RemoveAt(c.methods, i), c.methods[i])]
      ELSE c

TooLarge(a) == BlocksFor(SizeAt[a]) \notin 1 .. NumBlocks

BlocksOf(ms) == FoldLeft(LAMBDA n, m : n + m.blocks, 0, ms)

BlocksFit(c, blocks, n) ==
  c.activeBlocks - BlocksOf(SubSeq(c.methods, 1, n)) + blocks <= NumBlocks

\* Faulty: the new method is not counted among those that need a tag.
EvictionsTooFew(c, blocks) ==
  Min({n \in 0 .. Len(c.methods) : /\ BlocksFit(c, blocks, n)
                                   /\ Len(c.methods) - n <= MaxMethods})

\* Faulty: the new method is counted twice.
EvictionsTooMany(c, blocks) ==
  Min({n \in 0 .. Len(c.methods) : /\ BlocksFit(c, blocks, n)
                                   /\ Len(c.methods) - n + 1 < MaxMethods})

\* The loop that throws out the oldest entries: how many it throws out.
Evictions(c, blocks) ==
  Min({n \in 0 .. Len(c.methods) : /\ BlocksFit(c, blocks, n)
                                   /\ Len(c.methods) - n < MaxMethods})

\* The phase SIZE: the entry is made before the method is transferred.
Allocate(c, a) ==
  LET m == Method(a)
      n == Evictions(c, m.blocks)
      kept == SubSeq(c.methods, n + 1, Len(c.methods))
  IN  [c EXCEPT !.methods = Append(kept, m),
                !.activeBlocks =
                    @ - BlocksOf(SubSeq(c.methods, 1, n)) + m.blocks,
                !.phase = "TRANSFER",
                !.allocBlocks = m.blocks,
                !.methodSize = m.words]

TransferDone(c) == [c EXCEPT !.phase = "IDLE", !.allocBlocks = 0, !.methodSize = 0]

\* Faulty: the FIFO cache keeps the youngest method, as the LRU cache does.
FlushKeepsYoungest(c) ==
  IF Len(c.methods) < 2 THEN c
  ELSE [c EXCEPT !.methods = <<Last(c.methods)>>,
                 !.activeBlocks = Last(c.methods).blocks,
                 !.active = 0]

\* flush_cache keeps the active method, which the FIFO cache first swaps to
\* the place of the youngest.
Flush(c) ==
  IF Len(c.methods) < 2 THEN c
  ELSE [c EXCEPT !.methods = <<ActiveMethod(c)>>,
                 !.activeBlocks = ActiveMethod(c).blocks,
                 !.active = 0]

-----------------------------------------------------------------------------
(* History.                                                                *)

Latest(o, a) == Append(RemoveFirst(o, a), a)

\* A flush of the FIFO cache makes the active method the youngest.
AfterFlush(o, c) ==
  IF Len(c.methods) < 2 THEN o ELSE Latest(o, ActiveMethod(c).address)

-----------------------------------------------------------------------------
(* The cycle.                                                              *)

Init ==
  /\ kind \in Kinds
  /\ \E a \in Bases :
       /\ cache = [methods |-> <<Method(a)>>, activeBlocks |-> Method(a).blocks,
                   active |-> 0, phase |-> "IDLE",
                   allocBlocks |-> 0, methodSize |-> 0]
       /\ base = a /\ pc = a /\ nPC = a
       /\ order = <<a>>
  /\ turn = "IF" /\ disableIF = FALSE
  /\ mw = [op |-> "other"]
  /\ fault = FALSE

\* The check of do_fetch.
Fetchable ==
  /\ cache.phase = "IDLE"
  /\ pc >= ActiveMethod(cache).address
  /\ pc < ActiveMethod(cache).address + ActiveMethod(cache).words + FetchAhead

\* The program counter stays where it is when an interrupt is inserted.
Fetch ==
  /\ turn = "IF" /\ ~fault /\ ~disableIF
  /\ Fetchable
  /\ nPC' \in {pc} \cup {pc + w : w \in BundleWords}
  /\ disableIF' = TRUE
  /\ turn' = "MW"
  /\ UNCHANGED <<kind, cache, base, pc, mw, fault, order>>

IllegalPC ==
  /\ turn = "IF" /\ ~fault /\ ~disableIF
  /\ ~Fetchable
  /\ fault' = TRUE
  /\ UNCHANGED <<kind, cache, turn, disableIF, base, pc, nPC, mw, order>>

AlreadyFetched ==
  /\ turn = "IF" /\ ~fault /\ disableIF
  /\ turn' = "MW"
  /\ UNCHANGED <<kind, cache, disableIF, base, pc, nPC, mw, fault, order>>

Executing(op) == turn = "MW" /\ ~fault /\ mw.op = op

\* The end of a cycle that does not stall.
Advance(c, o, toBase, toPC) ==
  LET flushes == pc # toPC /\ toPC = FlushPC
  IN  /\ cache' = IF flushes THEN Flush(c) ELSE c
      /\ order' = IF flushes THEN AfterFlush(o, c) ELSE o
      /\ base' = toBase /\ pc' = toPC /\ nPC' = toPC
      /\ disableIF' = FALSE
      /\ mw' \in Instructions
      /\ turn' = "IF"
      /\ UNCHANGED <<kind, fault>>

\* Instructions that stay in the method; EX may execute a branch.
OtherMW ==
  /\ Executing("other")
  /\ \E n \in {nPC} \cup Branches : Advance(cache, order, base, n)

\* A store to the cache control register of the exception unit.
FlushMW ==
  /\ Executing("flush")
  /\ \E n \in {nPC} \cup Branches :
       Advance(Flush(cache), AfterFlush(order, cache), base, n)

\* fetch_and_dispatch of calls, returns, brcf, traps and interrupts.
EnterHit ==
  /\ Executing("enter") /\ cache.phase = "IDLE"
  /\ Resident(cache, mw.to.base)
  /\ Advance(Activate(Hit(cache, mw.to.base), mw.to.base),
             IF kind = "lru" THEN Latest(order, mw.to.base) ELSE order,
             mw.to.base, mw.to.pc)

Transfer(c, o) ==
  \/ Advance(Activate(TransferDone(c), mw.to.base), o, mw.to.base, mw.to.pc)
  \/ /\ cache' = c /\ order' = o
     /\ turn' = "IF"
     /\ UNCHANGED <<kind, disableIF, base, pc, nPC, mw, fault>>

EnterMiss ==
  /\ Executing("enter") /\ cache.phase = "IDLE"
  /\ ~Resident(cache, mw.to.base) /\ ~TooLarge(mw.to.base)
  /\ Transfer(Allocate(cache, mw.to.base), Latest(order, mw.to.base))

EnterTransfer ==
  /\ Executing("enter") /\ cache.phase = "TRANSFER"
  /\ Transfer(cache, order)

CodeExceeded ==
  /\ Executing("enter") /\ cache.phase = "IDLE"
  /\ ~Resident(cache, mw.to.base) /\ TooLarge(mw.to.base)
  /\ cache' = [cache EXCEPT !.phase = "SIZE",
                            !.allocBlocks = BlocksFor(SizeAt[mw.to.base]),
                            !.methodSize = SizeAt[mw.to.base]]
  /\ fault' = TRUE
  /\ UNCHANGED <<kind, turn, disableIF, base, pc, nPC, mw, order>>

Ended == fault /\ UNCHANGED vars

Next ==
  \/ Fetch \/ IllegalPC \/ AlreadyFetched
  \/ OtherMW \/ FlushMW
  \/ EnterHit \/ EnterMiss \/ EnterTransfer \/ CodeExceeded
  \/ Ended

Spec == Init /\ [][Next]_vars

-----------------------------------------------------------------------------
(* Properties.                                                             *)

\* The counter Num_active_blocks, kept by adding and subtracting, is the sum
\* over the entries; blocks and tags are not exceeded, except by the entry
\* function alone, which initialize admits unseen (load_method, flush_cache).
WithinLimits ==
  /\ cache.activeBlocks = BlocksOf(cache.methods)
  /\ Len(cache.methods) <= MaxMethods
  /\ Len(cache.methods) > 1 => cache.activeBlocks <= NumBlocks

\* The replacement policy: the entries are exactly the methods last used (LRU)
\* or last loaded (FIFO), in that order, with none left out in between.
ResidentAreLatest ==
  IsSuffix([i \in DOMAIN cache.methods |-> cache.methods[i].address], order)

\* The cache follows the pipeline.  Whenever an instruction is about to be fetched,
\* no load is under way and the method read from is the one the pipeline executes:
\* the index active_method has followed every shift and swap.  While a method is
\* transferred, the instruction in MW still asks for it, its entry is the youngest,
\* and the size asked of memory is its size: load_method repeats the request from
\* its arguments and members in every cycle (fetch_and_dispatch, load_method).
CacheFollowsPipeline ==
  /\ turn = "IF" /\ ~disableIF /\ ~fault =>
       /\ cache.phase = "IDLE"
       /\ Len(cache.methods) > cache.active
       /\ ActiveMethod(cache).address = base
  /\ cache.phase = "TRANSFER" =>
       /\ mw.op = "enter"
       /\ Last(cache.methods).address = mw.to.base
       /\ Last(cache.methods).words = cache.methodSize
       /\ Last(cache.methods).blocks = cache.allocBlocks

\* A load throws out no more methods than it has to: had it kept the youngest
\* of those thrown out, blocks or tags would not have sufficed (load_method).
EvictsAsFewAsNeeded ==
  [][ EnterMiss /\ cache'.phase = "TRANSFER" =>
        LET kept == Len(cache'.methods) - 1
            old == cache.methods
            oneMore == SubSeq(old, Len(old) - kept, Len(old))
        IN  \/ kept = Len(old)
            \/ BlocksOf(oneMore) + Last(cache'.methods).blocks > NumBlocks
            \/ kept + 1 >= MaxMethods ]_vars
=============================================================================
