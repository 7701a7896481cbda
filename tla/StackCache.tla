---------------------------- MODULE StackCache ------------------------------
(***************************************************************************)
(* The stack caches of the simulator (src/stack-cache.cc), driven the way  *)
(* the pipeline drives them: while one stack instruction is in the MW      *)
(* stage, transferring words to or from main memory and stalling, the EX   *)
(* stage of the instruction behind it is run again in every cycle.         *)
(*                                                                         *)
(* A cycle is two steps.  The "MW" step runs the MW function of the        *)
(* instruction in that stage; the "EX" step runs the EX function of the    *)
(* instruction behind, the DR function of the next one, and, unless the    *)
(* pipeline stalls, moves the instructions one stage on.  This is the      *)
(* order of the calls in simulator_t::run.                                 *)
(*                                                                         *)
(* Kind selects the class: ideal, block, ablock (aligned), lblock (lazy)   *)
(* or dcache (proxy), the values of the option --sckind.                   *)
(***************************************************************************)
EXTENDS StackCacheOps, Sequences

CONSTANTS
  Kind,        \* which stack cache is simulated
  StackBase,   \* ss and st as the program's startup code sets them with mts
  MaxAddr,     \* bound: highest word address of the stack region of memory
  Val, Zero,   \* values a word can hold; what resize() and memory start with
  Undef,       \* "no value promised": a word never stored since its reserve
  MaxSize,     \* bound: largest size a stack instruction of the program has
  Ops,         \* kinds of instruction the program contains
  Predicated,  \* whether the program disables stack instructions by predicates
  Adjacent,    \* whether two stack control instructions may follow each other
  MaxLatency,  \* bound: cycles main memory may take to answer
  MaxFetch     \* bound: cycles an instruction fetch may stall the pipeline

StackControl == {"reserve", "free", "ensure", "spill"}

ASSUME StackProgram ==
  /\ Kind \in {"ideal", "block", "ablock", "lblock", "dcache"}
  /\ MaxAddr \in Nat /\ StackBase \in 0 .. MaxAddr
  /\ AddrSpace > MaxAddr
  /\ Zero \in Val /\ Undef \notin Val
  /\ MaxSize \in Nat
  /\ Ops \subseteq StackControl \cup {"load", "store", "nop"}
  /\ Predicated \in BOOLEAN /\ Adjacent \in BOOLEAN
  /\ MaxLatency \in Nat /\ MaxFetch \in Nat

Addr == 0 .. MaxAddr
NoRequest == -1

VARIABLES
  turn,      \* which half of the cycle runs next: "MW" or "EX"
  stall,     \* the pipeline stalls in this cycle (Stall = SMW)
  ifWait,    \* cycles for which the instruction fetch still stalls
  mw, ex,    \* the instructions in the MW and EX stages
  ss, st,    \* the special registers, in words
  content,   \* Content: last element is the top of the stack
  phase,     \* Phase
  buffer,    \* the part of Buffer that a spill is writing, lowest address first
  lazyPtr, nextLazy, evict,  \* Lazy_pointer, Next_Lazy_pointer, Num_blocks_to_evict
  proxyTop,  \* stack_top of proxy_stack_cache_t
  mem,       \* main memory
  wait,      \* ticks the outstanding memory request still takes, or NoRequest
  fault,     \* a simulation exception ended the run
  loaded,    \* the value delivered by a load completing in this cycle
  written    \* history: addresses the program stored to since they were reserved

pipeVars  == <<turn, stall, ifWait, mw, ex>>
lazyVars  == <<lazyPtr, nextLazy, evict>>
cacheVars == <<content, phase, buffer, lazyPtr, nextLazy, evict, proxyTop>>
vars == <<turn, stall, ifWait, mw, ex, ss, st, content, phase, buffer, lazyPtr,
          nextLazy, evict, proxyTop, mem, wait, fault, loaded, written>>

-----------------------------------------------------------------------------
(***************************************************************************)
(* Instructions.  dr and ex fields are the operands of instruction_data_t: *)
(* the pointers read in DR, those written in EX, the result of EX (delta)  *)
(* and MW_Discard (done).  An instruction that is not a stack control      *)
(* instruction passes the pointers on.                                     *)
(***************************************************************************)
Sizes == 0 .. MaxSize

Idle(op) ==
  [op |-> op, size |-> 0, ragged |-> FALSE, addr |-> 0, val |-> Zero, pred |-> TRUE]

\* The instructions there are; operands an instruction does not use are fixed.
StackInstructions ==
  {i \in [op : StackControl \cup {"load", "store", "nop"}, size : Sizes,
          ragged : BOOLEAN, addr : Sizes, val : Val, pred : BOOLEAN] :
     /\ i.op \notin StackControl => i.size = 0
     /\ i.ragged => i.op \in {"ensure", "spill"}
     /\ i.op \notin {"load", "store"} => i.addr = 0
     /\ i.op # "store" => i.val = Zero
     /\ i.op = "nop" \/ ~Predicated => i.pred}

\* The instruction i as its DR stage leaves it.
Decoded(i, sspill, stop) ==
  [op |-> i.op, size |-> i.size, ragged |-> i.ragged, addr |-> i.addr,
   val |-> i.val, pred |-> i.pred, drSs |-> sspill, drSt |-> stop,
   exSs |-> sspill, exSt |-> stop, delta |-> 0, done |-> FALSE]

\* The instruction behind MW before its first EX call.  Which one it is makes
\* no difference until then, so it is chosen there: only the pointers count.
Upcoming(sspill, stop) == Decoded(Idle("next"), sspill, stop)

(***************************************************************************)
(* What the program may contain.  It does not free or ensure above the     *)
(* modelled region.  The ideal and the proxy cache check less than the     *)
(* block caches do; for them the program keeps the rules the block caches  *)
(* enforce: no pointer is moved below address 0, it accesses only words    *)
(* between the top and the spill pointer, and uses sizes of whole words.   *)
(***************************************************************************)
Issuable(i, sspill, stop) ==
  /\ i.op \in Ops
  /\ i.op \in {"free", "ensure"} => stop + i.size <= MaxAddr
  /\ Kind \in {"ideal", "dcache"} =>
       /\ ~i.ragged
       /\ i.op = "reserve" => i.size <= stop
       /\ i.op = "spill" => i.size <= sspill
       /\ i.op \in {"load", "store"} => stop + i.addr < sspill
  /\ i.op \in StackControl /\ ~Adjacent => mw.op \notin StackControl

\* The instructions the EX stage may hold now.
InEX ==
  IF ex.op # "next" THEN {ex}
  ELSE {Decoded(i, ex.drSs, ex.drSt) :
          i \in {j \in StackInstructions : Issuable(j, ex.drSs, ex.drSt)}}

-----------------------------------------------------------------------------
(***************************************************************************)
(* EX: i_stc_t::EX dispatches to the prepare function of the cache.        *)
(***************************************************************************)
PrepareReserve(i) ==
  CASE Kind \in {"ideal", "dcache"} -> IdealPrepareReserve(i.size, i.drSs, i.drSt)
    [] Kind = "block"  -> BlockPrepareReserve(i.size, i.drSs, i.drSt)
    [] Kind = "ablock" -> AlignedPrepareReserve(i.size, i.drSs, i.drSt)
    [] Kind = "lblock" -> LazyPrepareReserve(i.size, i.drSs, i.drSt, lazyPtr)

PrepareFree(i) ==
  CASE Kind \in {"ideal", "dcache"} -> IdealPrepareFree(i.size, i.drSs, i.drSt)
    [] Kind \in {"block", "lblock"} -> BlockPrepareFree(i.size, i.drSs, i.drSt)
    [] Kind = "ablock" -> AlignedPrepareFree(i.size, i.drSs, i.drSt)

PrepareEnsure(i) ==
  CASE Kind \in {"ideal", "dcache"} -> IdealPrepareEnsure(i.size, i.drSs, i.drSt)
    [] Kind \in {"block", "lblock"} ->
         BlockPrepareEnsure(i.size, i.ragged, i.drSs, i.drSt)
    [] Kind = "ablock" -> AlignedPrepareEnsure(i.size, i.ragged, i.drSs, i.drSt)

PrepareSpill(i) ==
  IF Kind \in {"ideal", "dcache"} THEN IdealPrepareSpill(i.size, i.drSs, i.drSt)
  ELSE BlockPrepareSpill(i.size, i.ragged, i.drSs, i.drSt)

Prepare(i) ==
  CASE i.op = "reserve" -> PrepareReserve(i)
    [] i.op = "free"    -> PrepareFree(i)
    [] i.op = "ensure"  -> PrepareEnsure(i)
    [] i.op = "spill"   -> PrepareSpill(i)

\* Next_Lazy_pointer and Num_blocks_to_evict as the lazy cache's EX leaves them.
PrepareLazy(i) ==
  \/ /\ Kind = "lblock" /\ i.op = "reserve"
     /\ nextLazy' = LazyNextAfterReserve(i.size, i.drSs, i.drSt, lazyPtr)
     /\ evict' = LazyBlocksToEvict(i.size, i.drSs, i.drSt, lazyPtr, evict)
  \/ /\ Kind = "lblock" /\ i.op = "free"
     /\ nextLazy' = LazyNextAfterFree(i.size, i.drSt, lazyPtr)
     /\ evict' = evict
  \/ /\ Kind # "lblock" \/ i.op \notin {"reserve", "free"}
     /\ UNCHANGED <<nextLazy, evict>>

(***************************************************************************)
(* The rest of the cycle once EX has left the instruction executed in the  *)
(* EX stage: DR of the next instruction, the move of the stages, and the   *)
(* memory's tick.                                                          *)
(***************************************************************************)
Advance(executed, sspill, stop) ==
  /\ IF stall
     THEN /\ ex' = executed
          /\ mw' = mw
          /\ ifWait' = IF ifWait = 0 THEN 0 ELSE ifWait - 1
     ELSE /\ mw' = executed
          /\ ex' = Upcoming(sspill, stop)
          /\ ifWait' \in 0 .. MaxFetch
  /\ stall' = FALSE
  /\ turn' = "MW"
  /\ wait' = IF wait > 0 THEN wait - 1 ELSE wait
  /\ ss' = sspill /\ st' = stop
  /\ loaded' = Undef
  /\ UNCHANGED <<content, phase, buffer, lazyPtr, proxyTop, mem, written>>

\* EX of a stack control instruction.  The predicate is not consulted.
StackControlEX ==
  /\ turn = "EX" /\ ~fault
  /\ \E i \in InEX :
       LET p == Prepare(i)
       IN  /\ i.op \in StackControl /\ p.ok
           /\ Advance([i EXCEPT !.exSs = p.ss, !.exSt = p.st, !.delta = p.delta],
                      p.ss, p.st)
           /\ PrepareLazy(i)
  /\ UNCHANGED fault

\* prepare throws stack_exceeded: the run ends, SPR keeps its values.
StackControlExceeds ==
  /\ turn = "EX" /\ ~fault
  /\ \E i \in InEX : i.op \in StackControl /\ ~Prepare(i).ok
  /\ fault' = TRUE
  /\ UNCHANGED <<pipeVars, ss, st, cacheVars, mem, wait, loaded, written>>

OtherEX ==
  /\ turn = "EX" /\ ~fault
  /\ \E i \in InEX : i.op \notin StackControl /\ Advance(i, ss, st)
  /\ UNCHANGED <<nextLazy, evict, fault>>

-----------------------------------------------------------------------------
(***************************************************************************)
(* MW.  Main memory answers a request after up to MaxLatency ticks; until  *)
(* then the access returns false, and is repeated in the next cycle.       *)
(***************************************************************************)
Answer(ready) ==
  \/ /\ wait = NoRequest
     /\ \E ticks \in 0 .. MaxLatency :
          /\ ready = (ticks = 0)
          /\ wait' = IF ticks = 0 THEN NoRequest ELSE ticks
  \/ /\ wait # NoRequest
     /\ ready = (wait = 0)
     /\ wait' = IF wait = 0 THEN NoRequest ELSE wait

\* The MW function is done, or calls pipeline_stall(SMW).
Finish == mw' = [mw EXCEPT !.done = TRUE] /\ stall' = (ifWait > 0)
Repeat == mw' = mw /\ stall' = TRUE

\* The MW stage holds an instruction op that is enabled and not finished.
Executing(op) ==
  /\ turn = "MW" /\ ~fault
  /\ mw.op = op /\ mw.pred /\ ~mw.done
  /\ turn' = "EX"
  /\ UNCHANGED <<ex, ss, st, ifWait>>

Throw == fault' = TRUE /\ mw' = mw /\ stall' = stall

\* Faulty: the new words have no value.
ResizedUninitialised(c, n) ==
  [k \in 1 .. n |-> IF k <= Len(c) THEN c[k] ELSE Undef]

\* Faulty: a shorter content loses words of its deep end, not of its top.
ResizedFromFront(c, n) ==
  [k \in 1 .. n |-> IF n < Len(c) THEN c[Len(c) - n + k]
                    ELSE IF k <= Len(c) THEN c[k] ELSE Zero]

\* Content.resize(n): the top of the stack is at the end of the vector.
Resized(c, n) ==
  [k \in 1 .. n |-> IF k <= Len(c) THEN c[k] ELSE Zero]

\* n zeros inserted at the front, the deep end.
Deepened(c, n) == [k \in 1 .. n |-> Zero] \o c

\* Faulty: one word too few is erased.
WithoutOne(c, n) == IF n = 0 THEN c ELSE SubSeq(c, n, Len(c))

Without(c, n) == SubSeq(c, n + 1, Len(c))   \* the n deepest words erased

\* Faulty: the words are put into Buffer in the order of Content.
DeepestUnreversed(c, n) == SubSeq(c, 1, n)

\* The n deepest words, lowest address first, as they are put into Buffer.
DeepestReversed(c, n) == [j \in 1 .. n |-> c[n + 1 - j]]

\* Memory.write(new_spill, Buffer, delta)
MemoryAfterSpill(buf) ==
  [a \in Addr |-> IF a \in mw.exSs .. mw.exSs + Len(buf) - 1
                  THEN buf[a - mw.exSs + 1] ELSE mem[a]]

\* Faulty: memory is read upwards.
FilledUpwards(c) ==
  [k \in 1 .. Len(c) |->
     IF k <= mw.delta THEN mem[mw.exSs - mw.delta + k - 1] ELSE c[k]]

\* The words deepest in the cache, as read from [new_spill - delta, new_spill).
FilledFrom(c) ==
  [k \in 1 .. Len(c) |-> IF k <= mw.delta THEN mem[mw.exSs - k] ELSE c[k]]

\* Faulty: the phase is not left when the transfer is over.
SpillCallAgain(buf) ==
  \E ready \in BOOLEAN :
    /\ Answer(ready)
    /\ mem' = IF ready THEN MemoryAfterSpill(buf) ELSE mem
    /\ phase' = "SPILL" /\ buffer' = buf /\ Repeat

\* A call that is in, or enters, phase SPILL with buf in Buffer.
SpillCall(buf) ==
  \E ready \in BOOLEAN :
    /\ Answer(ready)
    /\ IF ready
       THEN mem' = MemoryAfterSpill(buf) /\ phase' = "IDLE" /\ buffer' = <<>> /\ Finish
       ELSE mem' = mem /\ phase' = "SPILL" /\ buffer' = buf /\ Repeat

\* A call with nothing to transfer.
NoTransfer == Finish /\ UNCHANGED <<phase, buffer, mem, wait>>

(***************************************************************************)
(* sres.  block_lazy_stack_cache_t::reserve commits the lazy pointer and   *)
(* evicts the coherent words before the block cache's reserve runs, in     *)
(* every call, also in the calls repeated while the spill is waiting.      *)
(***************************************************************************)
LazyCommit ==
  /\ lazyPtr' = IF Kind = "lblock" THEN nextLazy ELSE lazyPtr
  /\ UNCHANGED nextLazy

Evicted == IF Kind = "lblock" THEN Without(content, evict) ELSE content

\* Faulty: the top the instruction found, not the one it leaves.
ReserveKeepsTop ==
  proxyTop' = IF Kind = "dcache" THEN mw.drSt ELSE proxyTop

ReserveSetsTop ==
  proxyTop' = IF Kind = "dcache" THEN mw.exSt ELSE proxyTop

ReserveIdle ==
  LET grown == Resized(Evicted, Len(Evicted) + mw.size)
  IN  /\ Executing("reserve") /\ phase = "IDLE"
      /\ LazyCommit
      /\ evict' = IF Kind = "lblock" THEN 0 ELSE evict
      /\ ReserveSetsTop
      /\ IF mw.delta = 0
         THEN content' = (IF Kind = "dcache" THEN content ELSE grown) /\ NoTransfer
         ELSE /\ mw.delta <= Len(grown)
              /\ content' = Without(grown, mw.delta)
              /\ SpillCall(DeepestReversed(grown, mw.delta))
      /\ UNCHANGED <<fault, loaded, written>>

\* Content.front() of an empty vector: undefined, taken to end the run.
ReserveUnderflows ==
  /\ Executing("reserve") /\ phase = "IDLE"
  /\ mw.delta > Len(Evicted) + mw.size
  /\ Throw
  /\ UNCHANGED <<cacheVars, mem, wait, loaded, written>>

ReserveSpilling ==
  /\ Executing("reserve") /\ phase = "SPILL"
  /\ LazyCommit
  /\ evict' = IF Kind = "lblock" THEN 0 ELSE evict
  /\ content' = Evicted
  /\ SpillCall(buffer)
  /\ UNCHANGED <<proxyTop, fault, loaded, written>>

-----------------------------------------------------------------------------
(***************************************************************************)
(* sens.                                                                   *)
(***************************************************************************)
BlockEnsure ==
  LET newSize == IF mw.exSs > mw.exSt THEN mw.exSs - mw.exSt ELSE 0
      missing == IF newSize > Len(content) THEN newSize - Len(content) ELSE 0
  IN  /\ Executing("ensure") /\ Kind \in {"block", "ablock", "lblock"}
      /\ IF mw.delta = 0
         THEN content' = content /\ NoTransfer
         ELSE \E ready \in BOOLEAN :
                /\ Answer(ready)
                /\ IF ready
                   THEN /\ content' = FilledFrom(Deepened(content, missing))
                        /\ phase' = "IDLE" /\ Finish
                   ELSE content' = content /\ phase' = "FILL" /\ Repeat
                /\ UNCHANGED <<buffer, mem>>
      /\ UNCHANGED <<lazyVars, proxyTop, fault, loaded, written>>

\* The ideal cache reads memory without simulating time; the proxy only notes st.
IdealEnsure ==
  LET missing == IF mw.size > Len(content) THEN mw.size - Len(content) ELSE 0
      c == Deepened(content, missing)
      filled == mw.exSs - mw.delta .. mw.exSs - 1
  IN  /\ Executing("ensure") /\ Kind \in {"ideal", "dcache"}
      /\ content' =
           IF Kind = "dcache" THEN content
           ELSE [k \in 1 .. Len(c) |->
                   IF mw.exSt + Len(c) - k \in filled
                   THEN mem[mw.exSt + Len(c) - k] ELSE c[k]]
      /\ ReserveSetsTop
      /\ NoTransfer
      /\ UNCHANGED <<lazyVars, fault, loaded, written>>

-----------------------------------------------------------------------------
(***************************************************************************)
(* sfree.                                                                  *)
(***************************************************************************)
\* What the program stored above the new top: the rest is gone for it.
StillPromised == {a \in written : a >= mw.exSt}

FreeWithoutFill ==
  /\ Executing("free") /\ Kind # "dcache" /\ mw.delta = 0
  /\ Kind = "ideal" => mw.size <= Len(content)
  /\ LazyCommit
  /\ content' = IF Len(content) <= mw.size THEN <<>>
                ELSE Resized(content, Len(content) - mw.size)
  /\ written' = StillPromised
  /\ NoTransfer
  /\ UNCHANGED <<evict, proxyTop, fault, loaded>>

\* block_aligned_stack_cache_t::free with its one-block fill: the content is
\* dropped, the block below the new spill pointer is read, and what lies
\* below the new top is cut off.
FreeWithFill ==
  /\ Executing("free") /\ Kind = "ablock" /\ mw.delta > 0
  /\ \E ready \in BOOLEAN :
       /\ Answer(ready)
       /\ IF ready
          THEN /\ content' = Resized(FilledFrom(Deepened(<<>>, mw.delta)),
                                    ReservedBlocks(mw.exSs, mw.exSt))
               /\ phase' = "IDLE" /\ Finish
          ELSE content' = <<>> /\ phase' = "FILL" /\ Repeat
  /\ written' = StillPromised
  /\ UNCHANGED <<buffer, mem, lazyVars, proxyTop, fault, loaded>>

ProxyFree ==
  /\ Executing("free") /\ Kind = "dcache"
  /\ proxyTop' = mw.exSt
  /\ written' = StillPromised
  /\ NoTransfer
  /\ UNCHANGED <<content, lazyVars, fault, loaded>>

\* ideal_stack_cache_t::free throws when less than size is in the cache.
FreeExceeds ==
  /\ Executing("free") /\ Kind = "ideal" /\ Len(content) < mw.size
  /\ Throw
  /\ UNCHANGED <<cacheVars, mem, wait, loaded, written>>

-----------------------------------------------------------------------------
(***************************************************************************)
(* sspill.                                                                 *)
(***************************************************************************)
BlockSpill ==
  /\ Executing("spill") /\ Kind \in {"block", "ablock", "lblock"}
  /\ \/ phase = "SPILL" /\ content' = content /\ SpillCall(buffer)
     \/ phase = "IDLE" /\ mw.delta = 0 /\ content' = content /\ NoTransfer
     \/ /\ phase = "IDLE" /\ mw.delta \in 1 .. Len(content)
        /\ content' = Without(content, mw.delta)
        /\ SpillCall(DeepestReversed(content, mw.delta))
  /\ UNCHANGED <<lazyVars, proxyTop, fault, loaded, written>>

\* "Trying to spill more than the current size of the stack."
SpillExceeds ==
  /\ Executing("spill") /\ Kind \in {"block", "ablock", "lblock"}
  /\ phase = "IDLE" /\ Len(content) < mw.delta
  /\ Throw
  /\ UNCHANGED <<cacheVars, mem, wait, loaded, written>>

IdealSpill ==
  LET size == IF Kind = "ideal" THEN mw.delta ELSE 0
  IN  /\ Executing("spill") /\ Kind \in {"ideal", "dcache"}
      /\ mem' = [a \in Addr |->
                   IF a \in mw.exSs .. mw.exSs + size - 1
                   THEN content[Len(content) - (a - mw.exSt)] ELSE mem[a]]
      /\ ReserveSetsTop
      /\ Finish
      /\ UNCHANGED <<content, phase, buffer, lazyVars, wait, fault, loaded, written>>

-----------------------------------------------------------------------------
(***************************************************************************)
(* lws and sws.  Address a is a words above the top of the stack.          *)
(***************************************************************************)
Load ==
  /\ Executing("load") /\ Kind # "dcache" /\ mw.addr < Len(content)
  /\ loaded' = content[Len(content) - mw.addr]
  /\ NoTransfer
  /\ UNCHANGED <<content, lazyVars, proxyTop, fault, written>>

\* block_lazy_stack_cache_t::write pushes the lazy pointer above the word.
Store ==
  /\ Executing("store") /\ Kind # "dcache" /\ mw.addr < Len(content)
  /\ lazyPtr' = IF Kind = "lblock" THEN Greater(lazyPtr, mw.addr + 1) ELSE lazyPtr
  /\ content' = [content EXCEPT ![Len(content) - mw.addr] = mw.val]
  /\ written' = written \cup {mw.exSt + mw.addr}
  /\ NoTransfer
  /\ UNCHANGED <<nextLazy, evict, proxyTop, fault, loaded>>

\* "Reading (writing) beyond the current size of the stack cache"
AccessExceeds ==
  /\ Executing("load") \/ Executing("store")
  /\ Kind # "dcache" /\ mw.addr >= Len(content)
  /\ Throw
  /\ UNCHANGED <<cacheVars, mem, wait, loaded, written>>

\* proxy_stack_cache_t hands the access to the memory behind it, at the top it
\* has noted; an access above the base of the stack is promised nothing.
ProxyLoad ==
  /\ Executing("load") /\ Kind = "dcache" /\ proxyTop + mw.addr \in Addr
  /\ \E ready \in BOOLEAN :
       /\ Answer(ready)
       /\ IF ready THEN loaded' = mem[proxyTop + mw.addr] /\ Finish
                   ELSE loaded' = loaded /\ Repeat
  /\ UNCHANGED <<cacheVars, mem, fault, written>>

ProxyStore ==
  LET a == proxyTop + mw.addr
  IN  /\ Executing("store") /\ Kind = "dcache" /\ a \in Addr
      /\ \E ready \in BOOLEAN :
           /\ Answer(ready)
           /\ IF ready
              THEN /\ mem' = [mem EXCEPT ![a] = mw.val]
                   /\ written' = written \cup {b \in Addr : b < StackBase
                                                    /\ b = mw.exSt + mw.addr}
                   /\ Finish
              ELSE mem' = mem /\ written' = written /\ Repeat
      /\ UNCHANGED <<cacheVars, fault, loaded>>

\* A bubble, a disabled instruction, or one that is done but held in MW by a
\* stalling instruction fetch.
NothingToDoInMW ==
  /\ turn = "MW" /\ ~fault
  /\ mw.op = "nop" \/ ~mw.pred \/ mw.done
  /\ turn' = "EX"
  /\ mw' = mw /\ stall' = (ifWait > 0)
  /\ UNCHANGED <<ex, ifWait, ss, st, cacheVars, mem, wait, fault, loaded, written>>

\* The run has ended.
Ended == fault /\ UNCHANGED vars

-----------------------------------------------------------------------------
Init ==
  /\ turn = "MW" /\ stall = FALSE /\ ifWait = 0
  /\ mw = Decoded(Idle("nop"), StackBase, StackBase)
  /\ ex = Upcoming(StackBase, StackBase)
  /\ ss = StackBase /\ st = StackBase
  /\ content = <<>> /\ phase = "IDLE" /\ buffer = <<>>
  /\ lazyPtr = 0 /\ nextLazy = 0 /\ evict = 0
  /\ proxyTop = 0
  /\ mem = [a \in Addr |-> Zero]
  /\ wait = NoRequest /\ fault = FALSE
  /\ loaded = Undef /\ written = {}

MWStep ==
  \/ ReserveIdle \/ ReserveSpilling \/ ReserveUnderflows
  \/ BlockEnsure \/ IdealEnsure
  \/ FreeWithoutFill \/ FreeWithFill \/ ProxyFree \/ FreeExceeds
  \/ BlockSpill \/ SpillExceeds \/ IdealSpill
  \/ Load \/ Store \/ AccessExceeds \/ ProxyLoad \/ ProxyStore
  \/ NothingToDoInMW

EXStep == StackControlEX \/ StackControlExceeds \/ OtherEX

Next == MWStep \/ EXStep \/ Ended

Spec == Init /\ [][Next]_vars

\* simulator_t::run calls the stages in every cycle.
FairSpec == Spec /\ WF_vars(Next)

-----------------------------------------------------------------------------
(***************************************************************************)
(* The stack as the program sees it.                                       *)
(***************************************************************************)
\* The top after the last stack instruction that took effect in MW.
ArchTop == IF mw.done \/ phase # "IDLE" THEN mw.exSt ELSE mw.drSt

\* The word at address a: in the cache, on its way to memory, or in memory.
WordAt(a) ==
  LET k == Len(content) - (a - ArchTop)
  IN  CASE k \in 1 .. Len(content) -> content[k]
        [] k \notin 1 .. Len(content)
             /\ a \in mw.exSs .. mw.exSs + Len(buffer) - 1 -> buffer[a - mw.exSs + 1]
        [] OTHER -> mem[a]

Promised == [a \in Addr |-> IF a \in written THEN WordAt(a) ELSE Undef]

Request == [op |-> mw.op, addr |-> mw.exSt + mw.addr, val |-> mw.val]

Program ==
  INSTANCE ProgramStack WITH top <- ArchTop, stack <- Promised, request <- Request

-----------------------------------------------------------------------------
(***************************************************************************)
(* Properties.                                                             *)
(***************************************************************************)
Decodings ==
  [op : StackControl \cup {"load", "store", "nop", "next"}, size : Sizes,
   ragged : BOOLEAN, addr : Sizes, val : Val, pred : BOOLEAN,
   drSs : Int, drSt : Int, exSs : Int, exSt : Int, delta : Int, done : BOOLEAN]

\* Every variable has the type of the field of the simulator it stands for.
TypeOK ==
  /\ turn \in {"MW", "EX"} /\ stall \in BOOLEAN /\ fault \in BOOLEAN
  /\ ifWait \in 0 .. MaxFetch
  /\ mw \in Decodings /\ ex \in Decodings
  /\ ss \in Int /\ st \in Int
  /\ content \in Seq(Val) /\ buffer \in Seq(Val)
  /\ phase \in {"IDLE", "SPILL", "FILL"}
  /\ lazyPtr \in Int /\ nextLazy \in Int /\ evict \in Int
  /\ proxyTop \in Int
  /\ mem \in [Addr -> Val]
  /\ wait \in {NoRequest} \cup 0 .. MaxLatency
  /\ loaded \in Val \cup {Undef}
  /\ written \subseteq Addr

\* The cache never holds more words than it has (block_stack_cache_t):
\* reserve spills, or evicts, exactly what no longer fits.
WithinCapacity == Len(content) <= NumBlocks

\* When an instruction leaves MW, the cache holds the words between the top
\* and the spill pointer that its EX stage computed, no more and no less; the
\* pointers are advanced in EX, the content in MW, cycles later.
PointersMatchContent ==
  turn = "EX" /\ ~stall /\ ~fault => Len(content) = mw.exSs - mw.exSt

\* A transfer is never larger than Buffer, which has Num_blocks blocks, and a
\* reserve never has to spill words the cache does not hold.
TransferFitsBuffer ==
  /\ Len(buffer) <= NumBlocks
  /\ phase = "FILL" => mw.delta <= NumBlocks
  /\ turn = "MW" /\ mw.op = "reserve" /\ ~mw.done /\ phase = "IDLE" =>
       mw.delta <= Len(content) + mw.size

\* "Pointer relative to stack top stack tracking data that has been modified":
\* a stored word the cache holds at or above the lazy pointer is in memory too.
CoherentAboveLazyPointer ==
  \A a \in written :
    a - ArchTop \in lazyPtr .. Len(content) - 1 => WordAt(a) = mem[a]

\* Whatever the kind, the program sees a stack.
RefinesProgramStack == Program!Spec

\* No stack instruction and no fetch stalls the pipeline for ever: again and
\* again a cycle leaves its MW stage without a stall and moves the stages on.
StallsEnd == []<>(fault \/ (turn = "EX" /\ ~stall))
=============================================================================
