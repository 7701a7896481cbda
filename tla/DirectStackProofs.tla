------------------------- MODULE DirectStackProofs -------------------------
(***************************************************************************)
(* Proofs about the two stack caches that serve the program directly, with *)
(* no capacity of their own: the ideal one (ideal_stack_cache_t), whose    *)
(* ensure and spill reach memory without simulated time, and the proxy     *)
(* (proxy_stack_cache_t), which keeps nothing but the top of the stack and *)
(* hands every access to the memory behind it.  Each implements the stack  *)
(* of ProgramStack, for every stack region, program of enabled             *)
(* instructions, memory latency and instruction-fetch latency.             *)
(***************************************************************************)
EXTENDS StackCacheProofs

\* The cache is ideal_stack_cache_t; every instruction of the program is enabled.
IdealProgram == Kind = "ideal" /\ Predicated = FALSE

\* The cache is proxy_stack_cache_t; every instruction of the program is enabled.
ProxyProgram == Kind = "dcache" /\ Predicated = FALSE

IdealOrProxy == Kind \in {"ideal", "dcache"} /\ Predicated = FALSE

(***************************************************************************)
(* The inductive invariant: first the pointers, then the words.            *)
(***************************************************************************)
\* The stack grows down from the spill pointer, inside the modelled region.
Pointers(sspill, stop) == stop \in 0 .. sspill /\ sspill <= MaxAddr

\* What prepare computed for the instruction i from the pointers of its DR.
PreparedDirectly(i) ==
  /\ i.op = "reserve" =>
       i.exSt = i.drSt - i.size /\ i.exSs = i.drSs /\ i.delta = 0
  /\ i.op = "free" =>
       i.exSt = i.drSt + i.size /\ i.exSs = Greater(i.drSs, i.exSt) /\ i.delta = 0
  /\ i.op = "ensure" =>
       /\ i.exSt = i.drSt /\ i.exSs = i.drSs + i.delta /\ i.delta \in Nat
       /\ i.delta > 0 => i.exSs = i.drSt + i.size
       /\ i.drSt + i.size <= i.exSs
  /\ i.op = "spill" =>
       i.exSt = i.drSt /\ i.exSs = i.drSs - i.delta /\ i.delta \in Nat
  /\ i.op \notin StackControl => i.exSt = i.drSt /\ i.exSs = i.drSs
  /\ i.op \in {"load", "store"} => i.drSt + i.addr < i.drSs
  /\ Pointers(i.exSs, i.exSt)

\* The rules the program keeps for these caches (Issuable).
Disciplined(i) ==
  /\ i.op = "reserve" => i.size <= i.drSt
  /\ i.op \in {"free", "ensure"} => i.drSt + i.size <= MaxAddr
  /\ i.op = "spill" => i.size <= i.drSs
  /\ i.op \in {"load", "store"} => i.drSt + i.addr < i.drSs

DirectMW ==
  /\ mw.op # "next" /\ mw.pred
  /\ Pointers(mw.drSs, mw.drSt)
  /\ PreparedDirectly(mw)

DirectEX ==
  /\ ex.pred /\ ~ex.done
  /\ ex.drSs = mw.exSs /\ ex.drSt = mw.exSt
  /\ ss = ex.exSs /\ st = ex.exSt
  /\ ex.op \notin StackControl => ex.exSs = ex.drSs /\ ex.exSt = ex.drSt
  /\ Disciplined(ex)

DirectTurn == turn = "EX" /\ ~fault /\ ~stall => mw.done \/ mw.op = "nop"

FrameInv ==
  /\ TypeOK /\ phase = "IDLE" /\ Len(buffer) < 1
  /\ DirectMW /\ DirectEX /\ DirectTurn

\* The spill pointer after the last instruction that took effect in MW.
ArchSpill == IF mw.done THEN mw.exSs ELSE mw.drSs

\* The ideal cache holds at least the words between the pointers; of the words
\* above the spill pointer, which it may hold as well, memory has the value.
IdealWords ==
  /\ Len(content) >= ArchSpill - ArchTop
  /\ \A a \in written : a >= ArchSpill => WordAt(a) = mem[a]

\* The proxy holds no words; it has noted the top unless the stack is empty.
ProxyWords ==
  /\ Len(content) < 1
  /\ ArchSpill > ArchTop => proxyTop = ArchTop
  /\ \A a \in written : a < StackBase

WordsInv ==
  /\ \A a \in written : a >= ArchTop
  /\ Kind = "ideal" => IdealWords
  /\ Kind = "dcache" => ProxyWords

DirectInv == FrameInv /\ WordsInv

-----------------------------------------------------------------------------
(***************************************************************************)
(* Facts that the actions share.                                           *)
(***************************************************************************)
LEMMA InitDirect ==
  ASSUME Init
  PROVE  DirectInv
<1>1. TypeOK
  BY InitTypes
<1>2. Len(buffer) = 0 /\ Len(content) = 0
  BY EmptySeq DEF Init
<1>3. StackBase \in Nat /\ StackBase <= MaxAddr /\ MaxAddr \in Nat
  BY StackProgram
<1>4. /\ mw.op = "nop" /\ mw.pred /\ ~mw.done /\ mw.drSs = StackBase /\ mw.drSt = StackBase
      /\ mw.exSs = StackBase /\ mw.exSt = StackBase
      /\ ex.op = "next" /\ ex.pred /\ ~ex.done /\ ex.drSs = StackBase /\ ex.drSt = StackBase
      /\ ex.exSs = StackBase /\ ex.exSt = StackBase
  BY DEF Init, Decoded, Idle, Upcoming
<1>5. /\ turn = "MW" /\ ss = StackBase /\ st = StackBase /\ phase = "IDLE" /\ written = {}
  BY DEF Init
<1>6. FrameInv
  <2>1. DirectMW
    BY <1>3, <1>4 DEF DirectMW, PreparedDirectly, Pointers, StackControl
  <2>2. DirectEX
    BY <1>4, <1>5 DEF DirectEX, Disciplined
  <2> QED BY <1>1, <1>2, <1>5, <2>1, <2>2 DEF FrameInv, DirectTurn
<1>7. ArchTop = StackBase /\ ArchSpill = StackBase
  BY <1>4, <1>5 DEF ArchTop, ArchSpill
<1> QED BY <1>2, <1>3, <1>5, <1>6, <1>7 DEF DirectInv, WordsInv, IdealWords, ProxyWords

\* The types of what Seen depends on.
LEMMA DirectTypes ==
  ASSUME FrameInv
  PROVE  /\ mw \in Decodings /\ mem \in [Addr -> Val]
         /\ content \in Seq(Val) /\ Len(content) \in Nat
         /\ buffer \in Seq(Val) /\ Len(buffer) < 1
         /\ ArchTop \in Int /\ ArchSpill \in Int /\ mw.exSs \in Int
         /\ mw.drSs \in Int /\ mw.drSt \in Int /\ mw.exSt \in Int
         /\ mw.delta \in Int /\ mw.size \in Nat /\ mw.addr \in Nat /\ mw.val \in Val
         /\ written \subseteq Addr /\ \A a \in written : a \in Int
         /\ MaxAddr \in Nat /\ StackBase \in Nat /\ proxyTop \in Int
<1>1. /\ mw \in Decodings /\ mem \in [Addr -> Val] /\ proxyTop \in Int
      /\ content \in Seq(Val) /\ buffer \in Seq(Val) /\ written \subseteq Addr
  BY DEF FrameInv, TypeOK
<1>2. /\ mw.drSs \in Int /\ mw.drSt \in Int /\ mw.exSt \in Int /\ mw.exSs \in Int
      /\ mw.delta \in Int /\ mw.size \in Nat /\ mw.addr \in Nat /\ mw.val \in Val
  BY <1>1, OperandTypes
<1>3. ArchTop \in Int /\ ArchSpill \in Int
  BY <1>2 DEF ArchTop, ArchSpill
<1>4. \A a \in Addr : a \in Int
  BY StackProgram DEF Addr
<1>5. Len(buffer) < 1
  BY DEF FrameInv
<1> QED BY <1>1, <1>2, <1>3, <1>4, <1>5, LenProperties, StackProgram

\* Before an instruction takes effect the program's pointers are those of its
\* DR stage, afterwards those of its EX stage.
LEMMA PointersBefore ==
  ASSUME FrameInv
  PROVE  /\ ~mw.done => ArchTop = mw.drSt /\ ArchSpill = mw.drSs
         /\ mw.done \/ mw.op = "nop" => ArchTop = mw.exSt /\ ArchSpill = mw.exSs
<1>1. phase = "IDLE"
  BY DEF FrameInv
<1>2. mw.op = "nop" => mw.exSt = mw.drSt /\ mw.exSs = mw.drSs
  BY DEF FrameInv, DirectMW, PreparedDirectly, StackControl
<1> QED BY <1>1, <1>2 DEF ArchTop, ArchSpill

\* The variables an MW action of these caches never changes.
DirectFrame == UNCHANGED <<ex, ss, st, ifWait, phase, buffer, lazyPtr, nextLazy, evict, fault>>

\* The values an MW action gives to the others.
DirectValues ==
  /\ turn' = "EX"
  /\ content' \in Seq(Val) /\ proxyTop' \in Int
  /\ mem' \in [Addr -> Val]
  /\ wait' \in {NoRequest} \cup 0 .. MaxLatency
  /\ loaded' \in Val \cup {Undef}
  /\ written' \subseteq Addr

\* An MW action that finishes the instruction moves the program's pointers to
\* those EX computed.
LEMMA DirectFinish ==
  ASSUME FrameInv, DirectFrame, DirectValues, Finish
  PROVE  FrameInv' /\ ArchTop' = mw.exSt /\ ArchSpill' = mw.exSs /\ mw'.exSs = mw.exSs
<1>1. mw \in Decodings /\ phase' = "IDLE" /\ buffer' = buffer /\ Len(buffer) < 1
  BY DEF FrameInv, TypeOK, DirectFrame
<1>2. /\ mw' \in Decodings /\ mw'.done /\ stall' \in BOOLEAN
      /\ mw'.op = mw.op /\ mw'.size = mw.size /\ mw'.pred = mw.pred
      /\ mw'.drSs = mw.drSs /\ mw'.drSt = mw.drSt
      /\ mw'.exSs = mw.exSs /\ mw'.exSt = mw.exSt /\ mw'.delta = mw.delta
  BY <1>1, FinishFields
<1>3. mw'.addr = mw.addr
  BY <1>1 DEF Finish, Decodings
<1>4. TypeOK'
  BY <1>1, <1>2 DEF FrameInv, TypeOK, DirectFrame, DirectValues
<1>5. DirectMW'
  BY <1>2, <1>3 DEF FrameInv, DirectMW, PreparedDirectly, Pointers
<1>6. DirectEX'
  BY <1>2 DEF FrameInv, DirectFrame, DirectEX, Disciplined
<1>7. ArchTop' = mw.exSt /\ ArchSpill' = mw.exSs
  BY <1>2 DEF ArchTop, ArchSpill
<1> QED BY <1>1, <1>2, <1>4, <1>5, <1>6, <1>7 DEF FrameInv, DirectTurn

\* An access that waits for memory leaves everything as it is.
LEMMA DirectRepeat ==
  ASSUME FrameInv, DirectFrame, DirectValues, Repeat
  PROVE  FrameInv' /\ ArchTop' = ArchTop /\ ArchSpill' = ArchSpill /\ mw'.exSs = mw.exSs
<1>1. mw' = mw /\ stall' = TRUE /\ phase' = phase /\ phase = "IDLE" /\ buffer' = buffer
  BY DEF Repeat, DirectFrame, FrameInv
<1>2. TypeOK'
  BY <1>1 DEF FrameInv, TypeOK, DirectFrame, DirectValues
<1>3. DirectMW' /\ DirectEX' /\ DirectTurn'
  BY <1>1 DEF FrameInv, DirectFrame, DirectMW, DirectEX, DirectTurn, PreparedDirectly,
              Pointers, Disciplined
<1>4. ArchTop' = ArchTop /\ ArchSpill' = ArchSpill
  BY <1>1 DEF ArchTop, ArchSpill
<1> QED BY <1>1, <1>2, <1>3, <1>4 DEF FrameInv

-----------------------------------------------------------------------------
(***************************************************************************)
(* Which step of the abstract stack an action is.                          *)
(***************************************************************************)
\* A step that keeps every promised word, with the top where it is or lower,
\* is a reserve of the abstract stack.
LEMMA DirectReserves ==
  ASSUME FrameInv, WordsInv, UNCHANGED <<written, loaded>>,
         ArchTop' \in Int, ArchTop' <= ArchTop,
         \A a \in written : WordAt(a)' = WordAt(a)
  PROVE  StackStep /\ \A a \in written' : a >= ArchTop'
<1>1. ArchTop \in Int /\ \A a \in written : a \in Int /\ a >= ArchTop
  BY DirectTypes DEF WordsInv
<1>2. \A a \in written' : a >= ArchTop'
  BY <1>1
<1>3. Promised' = Promised
  BY DEF Promised
<1>4. Program!Reserve
  BY <1>3 DEF Program!Reserve
<1> QED BY <1>2, <1>4 DEF StackStep, Program!Next

\* A step that moves the top up, and keeps the promised words above it, is a
\* free of the abstract stack.
LEMMA DirectFrees ==
  ASSUME FrameInv, WordsInv, written' = StillPromised, loaded' = loaded,
         ArchTop' = mw.exSt, ArchTop <= mw.exSt,
         \A a \in written' : WordAt(a)' = WordAt(a)
  PROVE  StackStep /\ \A a \in written' : a >= ArchTop'
<1>1. /\ ArchTop \in Int /\ mw.exSt \in Int
      /\ \A a \in written : a \in Int /\ a >= ArchTop
  BY DirectTypes DEF WordsInv
<1>2. written' = {a \in written : a >= mw.exSt}
  BY DEF StillPromised
<1>3. Promised' = [a \in Addr |-> IF a < ArchTop' THEN Undef ELSE Promised[a]]
  <2>1. \A a \in Addr : (IF a \in written' THEN WordAt(a)' ELSE Undef) =
                          IF a < ArchTop' THEN Undef ELSE Promised[a]
    <3> TAKE a \in Addr
    <3>1. a \in Int
      BY StackProgram DEF Addr
    <3>2. Promised[a] = IF a \in written THEN WordAt(a) ELSE Undef
      BY DEF Promised
    <3>3. CASE a < mw.exSt
      <4>1. a \notin written'
        BY <1>1, <1>2, <3>1, <3>3
      <4> QED BY <3>3, <4>1
    <3>4. CASE a >= mw.exSt /\ a \in written
      <4>1. a \in written' /\ WordAt(a)' = WordAt(a)
        BY <1>2, <3>4
      <4>2. ~(a < ArchTop')
        BY <1>1, <3>1, <3>4
      <4> QED BY <3>2, <3>4, <4>1, <4>2
    <3>5. CASE a >= mw.exSt /\ a \notin written
      BY <1>2, <3>2, <3>5
    <3> QED BY <1>1, <3>1, <3>3, <3>4, <3>5
  <2> QED BY <2>1 DEF Promised
<1>4. Program!Free
  BY <1>1, <1>3 DEF Program!Free
<1>5. \A a \in written' : a >= ArchTop'
  BY <1>2
<1> QED BY <1>4, <1>5 DEF StackStep, Program!Next

\* A load that delivers the word promised is a load of the abstract stack.
LEMMA DirectLoads ==
  ASSUME FrameInv, WordsInv, mw.op = "load", written' = written, ArchTop' = ArchTop,
         ArchTop = mw.exSt, loaded' \in Val,
         NEW a, a = mw.exSt + mw.addr, a \in written => loaded' = WordAt(a),
         \A b \in written : WordAt(b)' = WordAt(b)
  PROVE  StackStep /\ \A b \in written' : b >= ArchTop'
<1>1. mw.exSt \in Int /\ mw.addr \in Nat
  BY DirectTypes
<1>2. Request.addr = a /\ Request.op = "load" /\ a >= ArchTop
  BY <1>1 DEF Request
<1>3. Promised' = Promised
  BY DEF Promised
<1>4. a \in Addr => Promised[a] = IF a \in written THEN WordAt(a) ELSE Undef
  BY DEF Promised
<1>5. loaded' \in IF a \in Addr /\ Promised[a] # Undef THEN {Promised[a]} ELSE Val
  BY <1>4
<1>6. Program!Load
  BY <1>2, <1>3, <1>5 DEF Program!Load
<1> QED BY <1>6 DEF StackStep, Program!Next, WordsInv

\* A store that changes the word addressed, and no other promised word, is a
\* store of the abstract stack.
LEMMA DirectStores ==
  ASSUME FrameInv, WordsInv, mw.op = "store", ArchTop' = ArchTop, ArchTop = mw.exSt,
         loaded' = loaded, NEW a \in Addr, a = mw.exSt + mw.addr,
         written' = written \cup {a}, WordAt(a)' = mw.val,
         \A b \in written : b # a => WordAt(b)' = WordAt(b)
  PROVE  StackStep /\ \A b \in written' : b >= ArchTop'
<1>1. mw.exSt \in Int /\ mw.addr \in Nat
  BY DirectTypes
<1>2. Request.addr = a /\ Request.op = "store" /\ Request.val = mw.val /\ a >= ArchTop
  BY <1>1 DEF Request
<1>3. Promised' = [Promised EXCEPT ![a] = mw.val]
  <2>1. \A b \in Addr : (IF b \in written' THEN WordAt(b)' ELSE Undef) =
                          IF b = a THEN mw.val ELSE Promised[b]
    <3> TAKE b \in Addr
    <3>1. Promised[b] = IF b \in written THEN WordAt(b) ELSE Undef
      BY DEF Promised
    <3>2. CASE b = a
      BY <3>2
    <3>3. CASE b # a /\ b \in written
      <4>1. WordAt(b)' = WordAt(b) /\ b \in written'
        BY <3>3
      <4> QED BY <3>1, <3>3, <4>1
    <3>4. CASE b # a /\ b \notin written
      BY <3>1, <3>4
    <3> QED BY <3>2, <3>3, <3>4
  <2>2. [Promised EXCEPT ![a] = mw.val] =
          [b \in Addr |-> IF b = a THEN mw.val ELSE Promised[b]]
    BY DEF Promised
  <2> QED BY <2>1, <2>2 DEF Promised
<1>4. Program!Store
  BY <1>2, <1>3 DEF Program!Store
<1>5. \A b \in written' : b >= ArchTop'
  BY <1>2 DEF WordsInv
<1> QED BY <1>4, <1>5 DEF StackStep, Program!Next

-----------------------------------------------------------------------------
(***************************************************************************)
(* The words before and after a step of the ideal cache, and of the proxy. *)
(***************************************************************************)
\* A word at or above the top is in the cache if it is deep enough.
LEMMA IdealWordHeld ==
  ASSUME FrameInv, NEW a \in Int, a >= ArchTop
  PROVE  /\ a < ArchTop + Len(content) =>
              /\ Len(content) - (a - ArchTop) \in 1 .. Len(content)
              /\ WordAt(a) = content[Len(content) - (a - ArchTop)]
         /\ a >= ArchTop + Len(content) => WordAt(a) = mem[a]
<1>1. /\ content \in Seq(Val) /\ Len(content) \in Nat /\ buffer \in Seq(Val)
      /\ Len(buffer) < 1 /\ ArchTop \in Int /\ mw.exSs \in Int
  BY DirectTypes
<1>2. WordAt(a) = Seen(content, ArchTop, buffer, mw.exSs, mem, a)
  BY WordAtSeen
<1>3. CASE a < ArchTop + Len(content)
  <2>1. Len(content) - (a - ArchTop) \in 1 .. Len(content)
    BY <1>1, <1>3
  <2>2. Seen(content, ArchTop, buffer, mw.exSs, mem, a) =
          content[Len(content) - (a - ArchTop)]
    BY <1>1, <1>3, SeenCached
  <2> QED BY <1>1, <1>2, <1>3, <2>1, <2>2
<1>4. CASE a >= ArchTop + Len(content)
  BY <1>1, <1>2, <1>4, SeenUnbuffered
<1> QED BY <1>1, <1>3, <1>4

\* The proxy's words are in memory.
LEMMA ProxyWordInMemory ==
  ASSUME FrameInv, Len(content) < 1, NEW a \in Int, a >= ArchTop
  PROVE  WordAt(a) = mem[a]
<1>1. Len(content) \in Nat /\ ArchTop \in Int
  BY DirectTypes
<1>2. a >= ArchTop + Len(content)
  BY <1>1
<1> QED BY <1>2, IdealWordHeld
\* So are they after a step that leaves the cache empty.
LEMMA UnheldAfter ==
  ASSUME content' \in Seq(Val), Len(content') < 1, buffer' \in Seq(Val), Len(buffer') < 1,
         ArchTop' \in Int, mw'.exSs \in Int, NEW a \in Int, a >= ArchTop'
  PROVE  WordAt(a)' = mem'[a]
<1>1. PICK c, t, b, l, m : c = content' /\ t = ArchTop' /\ b = buffer' /\ l = mw'.exSs /\ m = mem'
  OBVIOUS
<1>2. WordAt(a)' = Seen(c, t, b, l, m, a)
  BY <1>1, WordAtSeen
<1>3. Len(c) \in Nat /\ c \in Seq(Val)
  BY <1>1, LenProperties
<1>4. a >= t + Len(c)
  BY <1>1, <1>3
<1>5. t \in Int /\ b \in Seq(Val) /\ Len(b) < 1 /\ l \in Int
  BY <1>1
<1>6. Seen(c, t, b, l, m, a) = m[a]
  BY <1>3, <1>4, <1>5, SeenUnbuffered
<1> QED BY <1>1, <1>2, <1>6

\* What written becomes when an instruction moves the top: down, or up.
TopMoves ==
  \/ written' = written /\ mw.exSt <= ArchTop
  \/ written' = StillPromised /\ ArchTop <= mw.exSt

\* A stack control instruction takes effect in the ideal cache.
LEMMA IdealTakesEffect ==
  ASSUME Kind = "ideal", DirectInv, DirectFrame, DirectValues, Finish, TopMoves,
         loaded' = loaded, Len(content') >= mw.exSs - mw.exSt,
         \A a \in written' : a >= mw.exSt =>
            WordAt(a)' = WordAt(a) /\ (a >= mw.exSs => WordAt(a) = mem'[a])
  PROVE  DirectInv' /\ StackStep
<1>1. FrameInv' /\ ArchTop' = mw.exSt /\ ArchSpill' = mw.exSs
  BY DirectFinish DEF DirectInv
<1>2. FrameInv /\ WordsInv /\ mw.exSt \in Int /\ ArchTop \in Int
      /\ \A a \in written : a \in Int /\ a >= ArchTop
  BY DirectTypes DEF DirectInv, WordsInv
<1>3. \A a \in written' : a \in Int /\ a >= mw.exSt
  <2>1. CASE written' = written /\ mw.exSt <= ArchTop
    BY <1>2, <2>1
  <2>2. CASE written' = StillPromised
    BY <1>2, <2>2 DEF StillPromised
  <2> QED BY <2>1, <2>2 DEF TopMoves
<1>4. \A a \in written' : WordAt(a)' = WordAt(a) /\ (a >= mw.exSs => WordAt(a) = mem'[a])
  BY <1>3
<1>5. StackStep /\ \A a \in written' : a >= ArchTop'
  <2>1. CASE written' = written /\ mw.exSt <= ArchTop
    BY <1>1, <1>2, <1>4, <2>1, DirectReserves
  <2>2. CASE written' = StillPromised /\ ArchTop <= mw.exSt
    BY <1>1, <1>2, <1>4, <2>2, DirectFrees
  <2> QED BY <2>1, <2>2 DEF TopMoves
<1>6. IdealWords'
  BY <1>1, <1>4 DEF IdealWords
<1>7. WordsInv'
  BY <1>5, <1>6 DEF WordsInv
<1> QED BY <1>1, <1>5, <1>7 DEF DirectInv

\* A stack control instruction takes effect in the proxy.
LEMMA ProxyTakesEffect ==
  ASSUME Kind = "dcache", DirectInv, DirectFrame, DirectValues, Finish, TopMoves,
         loaded' = loaded, content' = content, mem' = mem, proxyTop' = mw.exSt
  PROVE  DirectInv' /\ StackStep
<1>1. FrameInv' /\ ArchTop' = mw.exSt /\ ArchSpill' = mw.exSs /\ mw'.exSs = mw.exSs
  BY DirectFinish DEF DirectInv
<1>2. /\ FrameInv /\ WordsInv /\ mw.exSt \in Int /\ ArchTop \in Int /\ mw.exSs \in Int
      /\ content \in Seq(Val) /\ buffer \in Seq(Val) /\ Len(buffer) < 1
      /\ \A a \in written : a \in Int /\ a >= ArchTop
  BY DirectTypes DEF DirectInv, WordsInv
<1>3. ProxyWords
  BY DEF DirectInv, WordsInv
<1>4. \A a \in written' : a \in written /\ a \in Int /\ a >= mw.exSt
  <2>1. CASE written' = written /\ mw.exSt <= ArchTop
    BY <1>2, <2>1
  <2>2. CASE written' = StillPromised
    BY <1>2, <2>2 DEF StillPromised
  <2> QED BY <2>1, <2>2 DEF TopMoves
<1>5. \A a \in written' : WordAt(a)' = WordAt(a)
  <2> TAKE a \in written'
  <2>1. a \in Int /\ a >= mw.exSt /\ a >= ArchTop
    BY <1>2, <1>4
  <2>2. WordAt(a) = mem[a]
    BY <1>2, <1>3, <2>1, ProxyWordInMemory DEF ProxyWords
  <2>3. WordAt(a)' = mem'[a]
    <3>1. Len(content') < 1 /\ content' \in Seq(Val)
      BY <1>2, <1>3 DEF ProxyWords
    <3>2. buffer' \in Seq(Val) /\ Len(buffer') < 1
      BY <1>2 DEF DirectFrame
    <3>3. ArchTop' \in Int /\ mw'.exSs \in Int /\ a >= ArchTop'
      BY <1>1, <1>2, <2>1
    <3> QED BY <2>1, <3>1, <3>2, <3>3, UnheldAfter
  <2> QED BY <2>2, <2>3
<1>6. StackStep /\ \A a \in written' : a >= ArchTop'
  <2>1. CASE written' = written /\ mw.exSt <= ArchTop
    BY <1>1, <1>2, <1>5, <2>1, DirectReserves
  <2>2. CASE written' = StillPromised /\ ArchTop <= mw.exSt
    BY <1>1, <1>2, <1>5, <2>2, DirectFrees
  <2> QED BY <2>1, <2>2 DEF TopMoves
<1>7. ProxyWords'
  BY <1>1, <1>3, <1>4 DEF ProxyWords
<1>8. WordsInv'
  BY <1>6, <1>7 DEF WordsInv
<1> QED BY <1>1, <1>6, <1>8 DEF DirectInv

-----------------------------------------------------------------------------
(***************************************************************************)
(* The MW stage.                                                           *)
(***************************************************************************)
\* What the invariant says of a stack control instruction that takes effect now.
LEMMA DirectOperands ==
  ASSUME IdealOrProxy, DirectInv, ~mw.done
  PROVE  /\ ArchTop = mw.drSt /\ ArchSpill = mw.drSs
         /\ Pointers(mw.drSs, mw.drSt) /\ Pointers(mw.exSs, mw.exSt)
         /\ PreparedDirectly(mw)
         /\ \A a \in written : a >= mw.drSt
         /\ Kind = "ideal" => /\ Len(content) >= mw.drSs - mw.drSt
                              /\ \A a \in written : a >= mw.drSs => WordAt(a) = mem[a]
<1>1. ArchTop = mw.drSt /\ ArchSpill = mw.drSs
  BY PointersBefore DEF DirectInv
<1> QED BY <1>1 DEF DirectInv, FrameInv, DirectMW, PreparedDirectly, WordsInv, IdealWords

\* sres.
LEMMA DirectReserve ==
  ASSUME IdealOrProxy, DirectInv, ReserveIdle
  PROVE  DirectInv' /\ StackStep
<1>1. mw.op = "reserve" /\ ~mw.done
  BY DEF ReserveIdle, Executing
<1>2. /\ ArchTop = mw.drSt /\ ArchSpill = mw.drSs /\ mw.delta = 0
      /\ mw.exSt = mw.drSt - mw.size /\ mw.exSs = mw.drSs
      /\ \A a \in written : a >= mw.drSt
      /\ Kind = "ideal" => /\ Len(content) >= mw.drSs - mw.drSt
                           /\ \A a \in written : a >= mw.drSs => WordAt(a) = mem[a]
  BY <1>1, DirectOperands DEF PreparedDirectly
<1>3. /\ mw.drSs \in Int /\ mw.drSt \in Int /\ mw.exSs \in Int /\ mw.exSt \in Int
      /\ mw.size \in Nat /\ Len(content) \in Nat /\ content \in Seq(Val)
      /\ buffer \in Seq(Val) /\ Len(buffer) < 1 /\ proxyTop \in Int
      /\ \A a \in written : a \in Int
  BY DirectTypes DEF DirectInv
<1>4. Evicted = content
  BY DEF Evicted, IdealOrProxy
<1>5. PICK grown : grown = Resized(content, Len(content) + mw.size)
  OBVIOUS
<1>6. grown \in Seq(Val) /\ Len(grown) = Len(content) + mw.size
  <2>1. Len(content) + mw.size \in Nat
    BY <1>3
  <2> QED BY <1>3, <1>5, <2>1, ResizedType
<1>7. /\ content' = (IF Kind = "dcache" THEN content ELSE grown)
      /\ NoTransfer /\ turn' = "EX"
      /\ UNCHANGED <<ex, ss, st, ifWait, lazyPtr, nextLazy, evict, fault, loaded, written>>
      /\ proxyTop' = IF Kind = "dcache" THEN mw.exSt ELSE proxyTop
  BY <1>2, <1>4, <1>5 DEF ReserveIdle, Executing, LazyCommit, ReserveSetsTop, IdealOrProxy
<1>8. Finish /\ DirectFrame /\ UNCHANGED <<phase, buffer, mem, wait>>
  BY <1>7 DEF NoTransfer, DirectFrame
<1>9. DirectValues
  BY <1>3, <1>6, <1>7, <1>8 DEF DirectValues, DirectInv, FrameInv, TypeOK
<1>10. TopMoves
  BY <1>2, <1>3, <1>7 DEF TopMoves
<1>11. CASE Kind = "dcache"
  BY <1>7, <1>8, <1>9, <1>10, <1>11, ProxyTakesEffect
<1>12. CASE Kind = "ideal"
  <2>1. Len(content') >= mw.exSs - mw.exSt
    <3>1. content' = grown
      BY <1>7, <1>12
    <3> QED BY <1>2, <1>3, <1>6, <1>12, <3>1
  <2>2. ASSUME NEW a \in written'
        PROVE  WordAt(a)' = WordAt(a) /\ (a >= mw.exSs => WordAt(a) = mem'[a])
    <3>1. a \in Int /\ a >= mw.drSt /\ a \in written
      BY <1>2, <1>3, <1>7, <2>2
    <3>2. WordAt(a) = Seen(content, mw.drSt, buffer, mw.exSs, mem, a)
      BY <1>2, WordAtSeen
    <3>3. WordAt(a)' = Seen(grown, mw.drSt - mw.size, buffer, mw.exSs, mem, a)
      <4>1. ArchTop' = mw.exSt /\ mw'.exSs = mw.exSs
        BY <1>8, <1>9, DirectFinish DEF DirectInv
      <4>2. ArchTop' = mw.drSt - mw.size /\ content' = grown /\ buffer' = buffer /\ mem' = mem
        BY <1>2, <1>7, <1>8, <1>12, <4>1
      <4> QED BY <4>1, <4>2, WordAtSeen
    <3>4. Seen(grown, mw.drSt - mw.size, buffer, mw.exSs, mem, a) =
            Seen(content, mw.drSt, buffer, mw.exSs, mem, a)
      <4>1. PICK c, e, n, top, low : c = content /\ e = buffer /\ n = mw.size
                                     /\ top = mw.drSt /\ low = mw.exSs
        OBVIOUS
      <4>2. /\ c \in Seq(Val) /\ e \in Seq(Val) /\ Len(e) < 1
            /\ n \in Nat /\ top \in Int /\ low \in Int
        BY <1>3, <4>1
      <4>3. a \in Int /\ a >= top
        BY <3>1, <4>1
      <4>4. Seen(Resized(c, Len(c) + n), top - n, e, low, mem, a) =
              Seen(c, top, e, low, mem, a)
        BY <4>2, <4>3, SeenAfterReserve
      <4> QED BY <1>5, <4>1, <4>4
    <3>5. a >= mw.exSs => WordAt(a) = mem[a]
      BY <1>2, <1>12, <3>1
    <3> QED BY <1>8, <3>2, <3>3, <3>4, <3>5
  <2> QED BY <1>7, <1>8, <1>9, <1>10, <1>12, <2>1, <2>2, IdealTakesEffect
<1> QED BY <1>11, <1>12 DEF IdealOrProxy
\* The words c as ideal_stack_cache_t::ensure leaves them, with those from low up
\* to high read from memory m.
IdealFilled(c, top, low, high, m) ==
  [k \in 1 .. Len(c) |-> IF top + Len(c) - k \in low .. high - 1
                         THEN m[top + Len(c) - k] ELSE c[k]]

\* Deepened puts the new words below the others.
LEMMA DeepenedWords ==
  ASSUME NEW c \in Seq(Val), NEW n \in Nat
  PROVE  \A k \in 1 .. Len(c) : Deepened(c, n)[n + k] = c[k]
<1>1. Len(c) \in Nat
  BY LenProperties
<1>2. PICK z : z = [k \in 1 .. n |-> Zero]
  OBVIOUS
<1>3. z \in [1 .. n -> Val]
  BY <1>2, StackProgram
<1>4. z \in Seq(Val) /\ Len(z) = n
  BY <1>3, FunctionIsSeq
<1>5. Deepened(c, n) = z \o c
  BY <1>2 DEF Deepened
<1>6. \A i \in 1 .. Len(z) + Len(c) : (z \o c)[i] = IF i <= Len(z) THEN z[i] ELSE c[i - Len(z)]
  BY <1>4, ConcatProperties
<1>7. ASSUME NEW k \in 1 .. Len(c)
      PROVE  (z \o c)[n + k] = c[k]
  <2>1. n + k \in 1 .. Len(z) + Len(c) /\ ~(n + k <= Len(z)) /\ n + k - Len(z) = k
    BY <1>1, <1>4
  <2> QED BY <1>6, <2>1
<1> QED BY <1>5, <1>7

\* The words the ideal cache holds after sens: those between the old and the new
\* spill pointer come from memory, the others stay where they are.
LEMMA SeenAfterIdealFill ==
  ASSUME NEW c \in Seq(Val), NEW n \in Nat, NEW m \in [Addr -> Val],
         NEW top \in Addr, NEW low \in Int, NEW high \in Int,
         top <= low, low <= high, high <= MaxAddr,
         n > 0 => low <= top + Len(c) /\ top + (n + Len(c)) <= high
  PROVE  /\ IdealFilled(Deepened(c, n), top, low, high, m) \in Seq(Val)
         /\ Len(IdealFilled(Deepened(c, n), top, low, high, m)) = n + Len(c)
         /\ \A e \in Seq(Val), a \in Int, x \in Int, y \in Int :
              /\ Len(e) < 1 /\ a >= top
              /\ a >= low => Seen(c, top, e, x, m, a) = m[a]
              => Seen(IdealFilled(Deepened(c, n), top, low, high, m), top, e, y, m, a) =
                   Seen(c, top, e, x, m, a)
<1>1. Len(c) \in Nat /\ top \in Nat /\ MaxAddr \in Nat
  BY LenProperties, StackProgram DEF Addr
<1>2. PICK d, r : d = Deepened(c, n) /\ r = IdealFilled(d, top, low, high, m)
  OBVIOUS
<1>3. d \in Seq(Val) /\ Len(d) = n + Len(c) /\ Len(d) \in Nat
  BY <1>1, <1>2, DeepenedType
<1>4. \A k \in 1 .. Len(c) : d[n + k] = c[k]
  BY <1>2, DeepenedWords
<1>5. r \in [1 .. Len(d) -> Val]
  <2>1. \A k \in 1 .. Len(d) : d[k] \in Val
    BY <1>3, ElementOfSeq
  <2>2. \A k \in 1 .. Len(d) : top + Len(d) - k \in low .. high - 1 => top + Len(d) - k \in Addr
    BY <1>1, <1>3 DEF Addr
  <2> QED BY <1>2, <2>1, <2>2 DEF IdealFilled
<1>6. r \in Seq(Val) /\ Len(r) = Len(d)
  BY <1>3, <1>5, FunctionIsSeq
<1>7. \A k \in 1 .. Len(d) : r[k] = IF top + Len(d) - k \in low .. high - 1
                                    THEN m[top + Len(d) - k] ELSE d[k]
  BY <1>2 DEF IdealFilled
<1>8. ASSUME NEW e \in Seq(Val), NEW a \in Int, NEW x \in Int, NEW y \in Int,
             Len(e) < 1, a >= top, a >= low => Seen(c, top, e, x, m, a) = m[a]
      PROVE  Seen(r, top, e, y, m, a) = Seen(c, top, e, x, m, a)
  <2>0. top \in Int
    BY <1>1
  <2>1. CASE a < top + Len(d)
    <3>0. PICK k : k = Len(d) - (a - top)
      OBVIOUS
    <3>1. k \in 1 .. Len(d) /\ top + Len(d) - k = a
      BY <1>1, <1>3, <1>8, <2>1, <3>0
    <3>2. Seen(r, top, e, y, m, a) = r[k]
      <4>1. a < top + Len(r) /\ Len(r) - (a - top) = k
        BY <1>6, <2>1, <3>0
      <4>2. Seen(r, top, e, y, m, a) = r[Len(r) - (a - top)]
        BY <1>6, <1>8, <2>0, <4>1, SeenCached
      <4> QED BY <4>1, <4>2
    <3>3. r[k] = IF a \in low .. high - 1 THEN m[a] ELSE d[k]
      BY <1>7, <3>1
    <3>4. CASE a \in low .. high - 1
      <4>1. r[k] = m[a]
        BY <3>3, <3>4
      <4>2. a >= low
        BY <3>4
      <4> QED BY <1>8, <3>2, <4>1, <4>2
    <3>5. CASE a \notin low .. high - 1
      <4>1. a < top + Len(c)
        BY <1>1, <1>3, <1>8, <2>1, <3>5
      <4>2. Len(c) - (a - top) \in 1 .. Len(c) /\ n + (Len(c) - (a - top)) = k
        BY <1>1, <1>3, <1>8, <3>0, <4>1
      <4>3. d[k] = c[Len(c) - (a - top)]
        BY <1>4, <4>2
      <4>4. Seen(c, top, e, x, m, a) = c[Len(c) - (a - top)]
        BY <1>8, <2>0, <4>1, SeenCached
      <4> QED BY <3>2, <3>3, <3>5, <4>3, <4>4
    <3> QED BY <3>4, <3>5
  <2>2. CASE a >= top + Len(d)
    <3>1. a >= top + Len(r) /\ a >= top + Len(c)
      BY <1>1, <1>3, <1>6, <2>2
    <3>2. Seen(r, top, e, y, m, a) = m[a]
      BY <1>6, <1>8, <2>0, <3>1, SeenUnbuffered
    <3>3. Seen(c, top, e, x, m, a) = m[a]
      BY <1>8, <2>0, <3>1, SeenUnbuffered
    <3> QED BY <3>2, <3>3
  <2> QED BY <1>1, <1>3, <1>8, <2>1, <2>2
<1> QED BY <1>2, <1>3, <1>6, <1>8

\* sens.
LEMMA DirectEnsure ==
  ASSUME IdealOrProxy, DirectInv, IdealEnsure
  PROVE  DirectInv' /\ StackStep
<1>1. mw.op = "ensure" /\ ~mw.done
  BY DEF IdealEnsure, Executing
<1>2. /\ ArchTop = mw.drSt /\ ArchSpill = mw.drSs
      /\ mw.exSt = mw.drSt /\ mw.exSs = mw.drSs + mw.delta /\ mw.delta \in Nat
      /\ mw.delta > 0 => mw.exSs = mw.drSt + mw.size
      /\ mw.drSt + mw.size <= mw.exSs
      /\ Pointers(mw.drSs, mw.drSt) /\ Pointers(mw.exSs, mw.exSt)
      /\ \A a \in written : a >= mw.drSt
      /\ Kind = "ideal" => /\ Len(content) >= mw.drSs - mw.drSt
                           /\ \A a \in written : a >= mw.drSs => WordAt(a) = mem[a]
  BY <1>1, DirectOperands DEF PreparedDirectly
<1>3. /\ mw.drSs \in Int /\ mw.drSt \in Int /\ mw.exSs \in Int /\ mw.exSt \in Int
      /\ mw.size \in Nat /\ Len(content) \in Nat /\ content \in Seq(Val)
      /\ buffer \in Seq(Val) /\ Len(buffer) < 1 /\ proxyTop \in Int
      /\ mem \in [Addr -> Val] /\ \A a \in written : a \in Int
  BY DirectTypes DEF DirectInv
<1>4. PICK missing : missing = IF mw.size > Len(content) THEN mw.size - Len(content) ELSE 0
  OBVIOUS
<1>5. missing \in Nat
  BY <1>3, <1>4
<1>6. PICK d : d = Deepened(content, missing)
  OBVIOUS
<1>7. d \in Seq(Val) /\ Len(d) = missing + Len(content)
  BY <1>3, <1>5, <1>6, DeepenedType
<1>8. PICK r : r = IdealFilled(d, mw.exSt, mw.exSs - mw.delta, mw.exSs, mem)
  OBVIOUS
<1>9. /\ content' = (IF Kind = "dcache" THEN content ELSE r)
      /\ NoTransfer /\ turn' = "EX"
      /\ UNCHANGED <<ex, ss, st, ifWait, lazyPtr, nextLazy, evict, fault, loaded, written>>
      /\ proxyTop' = IF Kind = "dcache" THEN mw.exSt ELSE proxyTop
  BY <1>4, <1>6, <1>8 DEF IdealEnsure, IdealFilled, Executing, ReserveSetsTop, lazyVars
<1>10. Finish /\ DirectFrame /\ UNCHANGED <<phase, buffer, mem, wait>>
  BY <1>9 DEF NoTransfer, DirectFrame
<1>11. TopMoves
  BY <1>2, <1>3, <1>9 DEF TopMoves
<1>12. CASE Kind = "dcache"
  <2>1. DirectValues
    BY <1>3, <1>9, <1>10, <1>12 DEF DirectValues, DirectInv, FrameInv, TypeOK
  <2> QED BY <1>9, <1>10, <1>11, <1>12, <2>1, ProxyTakesEffect
<1>13. CASE Kind = "ideal"
  <2>1. /\ mw.drSt \in Addr /\ mw.drSt <= mw.drSs /\ mw.drSs <= mw.exSs
        /\ mw.exSs <= MaxAddr /\ mw.exSs - mw.delta = mw.drSs
    BY <1>2, <1>3, StackProgram DEF Pointers, Addr
  <2>2. missing > 0 => mw.drSs <= mw.drSt + Len(content) /\ mw.drSt + Len(d) <= mw.exSs
    BY <1>2, <1>3, <1>4, <1>7, <1>13
  <2>3. r = IdealFilled(Deepened(content, missing), mw.drSt, mw.drSs, mw.exSs, mem)
    BY <1>2, <1>6, <1>8, <2>1
  <2>4. /\ r \in Seq(Val) /\ Len(r) = Len(d)
        /\ \A e \in Seq(Val), a \in Int, x \in Int, y \in Int :
             /\ Len(e) < 1 /\ a >= mw.drSt
             /\ a >= mw.drSs => Seen(content, mw.drSt, e, x, mem, a) = mem[a]
             => Seen(r, mw.drSt, e, y, mem, a) = Seen(content, mw.drSt, e, x, mem, a)
    <3>1. mw.drSs \in Int /\ mw.exSs \in Int
      BY <1>3
    <3>2. missing > 0 => /\ mw.drSs <= mw.drSt + Len(content)
                         /\ mw.drSt + (missing + Len(content)) <= mw.exSs
      BY <1>7, <2>2
    <3>3. PICK g : g = IdealFilled(Deepened(content, missing), mw.drSt, mw.drSs, mw.exSs, mem)
      OBVIOUS
    <3>4. /\ g \in Seq(Val) /\ Len(g) = missing + Len(content)
          /\ \A e \in Seq(Val), a \in Int, x \in Int, y \in Int :
               /\ Len(e) < 1 /\ a >= mw.drSt
               /\ a >= mw.drSs => Seen(content, mw.drSt, e, x, mem, a) = mem[a]
               => Seen(g, mw.drSt, e, y, mem, a) = Seen(content, mw.drSt, e, x, mem, a)
      <4>1. content \in Seq(Val) /\ missing \in Nat /\ mem \in [Addr -> Val]
        BY <1>3, <1>5
      <4>2. mw.drSt <= mw.drSs /\ mw.drSs <= mw.exSs /\ mw.exSs <= MaxAddr /\ mw.drSt \in Addr
        BY <2>1
      <4> QED BY <3>1, <3>2, <3>3, <4>1, <4>2, SeenAfterIdealFill
    <3> QED BY <1>7, <2>3, <3>3, <3>4
  <2>5. content' = r
    BY <1>9, <1>13
  <2>6. DirectValues
    BY <1>3, <1>9, <1>10, <1>13, <2>4, <2>5 DEF DirectValues, DirectInv, FrameInv, TypeOK
  <2>7. Len(content') >= mw.exSs - mw.exSt
    <3>1. Len(content') = Len(d)
      BY <2>4, <2>5
    <3>2. Len(content) >= mw.drSs - mw.drSt
      BY <1>2, <1>13
    <3>3. Len(d) >= Len(content) /\ Len(d) >= mw.size
      BY <1>3, <1>4, <1>7
    <3>4. mw.exSs - mw.exSt <= mw.size \/ mw.exSs - mw.exSt = mw.drSs - mw.drSt
      BY <1>2, <1>3
    <3>5. Len(d) \in Int
      BY <1>3, <1>5, <1>7
    <3> QED BY <1>3, <3>1, <3>2, <3>3, <3>4, <3>5
  <2>8. ASSUME NEW a \in written'
        PROVE  WordAt(a)' = WordAt(a) /\ (a >= mw.exSs => WordAt(a) = mem'[a])
    <3>1. a \in Int /\ a >= mw.drSt /\ a \in written
      BY <1>2, <1>3, <1>9, <2>8
    <3>2. WordAt(a) = Seen(content, mw.drSt, buffer, mw.exSs, mem, a)
      BY <1>2, WordAtSeen
    <3>3. WordAt(a)' = Seen(r, mw.drSt, buffer, mw.exSs, mem, a)
      <4>1. ArchTop' = mw.exSt /\ mw'.exSs = mw.exSs
        BY <1>10, <2>6, DirectFinish DEF DirectInv
      <4>2. ArchTop' = mw.drSt /\ buffer' = buffer /\ mem' = mem
        BY <1>2, <1>10, <4>1
      <4> QED BY <2>5, <4>1, <4>2, WordAtSeen
    <3>4. a >= mw.drSs => WordAt(a) = mem[a]
      BY <1>2, <1>13, <3>1
    <3>5. WordAt(a)' = WordAt(a)
      BY <1>3, <2>4, <3>1, <3>2, <3>3, <3>4
    <3>6. a >= mw.exSs => a >= mw.drSs
      BY <1>3, <2>1, <3>1
    <3> QED BY <1>10, <3>4, <3>5, <3>6
  <2> QED BY <1>9, <1>10, <1>11, <1>13, <2>6, <2>7, <2>8, IdealTakesEffect
<1> QED BY <1>12, <1>13 DEF IdealOrProxy
\* sfree of the ideal cache.
LEMMA IdealFree ==
  ASSUME IdealOrProxy, DirectInv, FreeWithoutFill
  PROVE  DirectInv' /\ StackStep
<1>1. /\ mw.op = "free" /\ ~mw.done /\ Kind = "ideal" /\ mw.size <= Len(content)
      /\ NoTransfer /\ turn' = "EX" /\ written' = StillPromised
      /\ UNCHANGED <<ex, ss, st, ifWait, lazyPtr, nextLazy, evict, proxyTop, fault, loaded>>
      /\ content' = IF Len(content) <= mw.size THEN <<>>
                    ELSE Resized(content, Len(content) - mw.size)
  BY DEF FreeWithoutFill, Executing, LazyCommit, IdealOrProxy
<1>2. /\ ArchTop = mw.drSt /\ ArchSpill = mw.drSs
      /\ mw.exSt = mw.drSt + mw.size /\ mw.exSs = Greater(mw.drSs, mw.exSt)
      /\ Len(content) >= mw.drSs - mw.drSt
      /\ \A a \in written : a >= mw.drSs => WordAt(a) = mem[a]
  BY <1>1, DirectOperands DEF PreparedDirectly
<1>3. /\ mw.drSs \in Int /\ mw.drSt \in Int /\ mw.exSs \in Int /\ mw.exSt \in Int
      /\ mw.size \in Nat /\ Len(content) \in Nat /\ content \in Seq(Val)
      /\ buffer \in Seq(Val) /\ Len(buffer) < 1
      /\ \A a \in written : a \in Int
  BY DirectTypes DEF DirectInv
<1>4. Finish /\ DirectFrame /\ UNCHANGED <<phase, buffer, mem, wait>>
  BY <1>1 DEF NoTransfer, DirectFrame
<1>5. /\ content' \in Seq(Val) /\ Len(content') = Len(content) - mw.size
      /\ \/ Len(content) <= mw.size /\ Len(content') < 1
         \/ Len(content) > mw.size /\ content' = Resized(content, Len(content) - mw.size)
  <2>1. CASE Len(content) <= mw.size
    <3>1. <<>> \in Seq(Val) /\ Len(<<>>) = 0
      BY EmptySeq
    <3>2. content' = <<>>
      BY <1>1, <2>1
    <3>3. content' \in Seq(Val) /\ Len(content') = 0
      BY <3>1, <3>2, Zenon
    <3>4. Len(content) - mw.size = 0
      BY <1>1, <1>3, <2>1
    <3> QED BY <2>1, <3>3, <3>4
  <2>2. CASE Len(content) > mw.size
    <3>1. Len(content) - mw.size \in Nat
      BY <1>3, <2>2
    <3>2. content' = Resized(content, Len(content) - mw.size)
      BY <1>1, <1>3, <2>2
    <3> QED BY <1>3, <2>2, <3>1, <3>2, ResizedType
  <2> QED BY <1>3, <2>1, <2>2
<1>6. DirectValues
  BY <1>1, <1>4, <1>5 DEF DirectValues, DirectInv, FrameInv, TypeOK, StillPromised
<1>7. TopMoves
  BY <1>1, <1>2, <1>3 DEF TopMoves
<1>8. mw.exSs >= mw.drSs /\ mw.exSs - mw.exSt <= Len(content) - mw.size
  BY <1>1, <1>2, <1>3 DEF Greater
<1>9. ASSUME NEW a \in written', a >= mw.exSt
      PROVE  WordAt(a)' = WordAt(a) /\ (a >= mw.exSs => WordAt(a) = mem'[a])
  <2>1. a \in Int /\ a \in written
    BY <1>1, <1>3, <1>9 DEF StillPromised
  <2>2. WordAt(a) = Seen(content, mw.drSt, buffer, mw.exSs, mem, a)
    BY <1>2, WordAtSeen
  <2>3. WordAt(a)' = Seen(content', mw.exSt, buffer, mw.exSs, mem, a)
    <3>1. ArchTop' = mw.exSt /\ mw'.exSs = mw.exSs
      BY <1>4, <1>6, DirectFinish DEF DirectInv
    <3> QED BY <1>4, <3>1, WordAtSeen
  <2>4. Seen(content', mw.exSt, buffer, mw.exSs, mem, a) =
          Seen(content, mw.drSt, buffer, mw.exSs, mem, a)
    BY <1>2, <1>3, <1>5, <1>9, <2>1, SeenAfterFree
  <2>5. a >= mw.exSs => WordAt(a) = mem[a]
    BY <1>2, <1>3, <1>8, <2>1
  <2> QED BY <1>4, <2>2, <2>3, <2>4, <2>5
<1>10. Len(content') >= mw.exSs - mw.exSt
  BY <1>3, <1>5, <1>8
<1> QED BY <1>1, <1>4, <1>6, <1>7, <1>9, <1>10, IdealTakesEffect

\* sfree of the proxy.
LEMMA ProxyFreeKeeps ==
  ASSUME IdealOrProxy, DirectInv, ProxyFree
  PROVE  DirectInv' /\ StackStep
<1>1. /\ mw.op = "free" /\ ~mw.done /\ Kind = "dcache" /\ NoTransfer /\ turn' = "EX"
      /\ written' = StillPromised /\ proxyTop' = mw.exSt
      /\ UNCHANGED <<ex, ss, st, ifWait, content, lazyPtr, nextLazy, evict, fault, loaded>>
  BY DEF ProxyFree, Executing, lazyVars
<1>2. ArchTop = mw.drSt /\ mw.exSt = mw.drSt + mw.size
  BY <1>1, DirectOperands DEF PreparedDirectly
<1>3. mw.drSt \in Int /\ mw.exSt \in Int /\ mw.size \in Nat
  BY DirectTypes DEF DirectInv
<1>4. Finish /\ DirectFrame /\ UNCHANGED <<phase, buffer, mem, wait>>
  BY <1>1 DEF NoTransfer, DirectFrame
<1>5. DirectValues
  BY <1>1, <1>3, <1>4 DEF DirectValues, DirectInv, FrameInv, TypeOK, StillPromised
<1>6. TopMoves
  BY <1>1, <1>2, <1>3 DEF TopMoves
<1> QED BY <1>1, <1>4, <1>5, <1>6, ProxyTakesEffect

\* sspill: the ideal cache writes the words below the spill pointer to memory and
\* keeps them, the proxy has nothing to write.
LEMMA DirectSpill ==
  ASSUME IdealOrProxy, DirectInv, IdealSpill
  PROVE  DirectInv' /\ StackStep
<1> DEFINE size == IF Kind = "ideal" THEN mw.delta ELSE 0
<1>1. /\ mw.op = "spill" /\ ~mw.done /\ Finish /\ turn' = "EX"
      /\ mem' = [a \in Addr |->
                   IF a \in mw.exSs .. mw.exSs + size - 1
                   THEN content[Len(content) - (a - mw.exSt)] ELSE mem[a]]
      /\ UNCHANGED <<ex, ss, st, ifWait, content, phase, buffer, lazyPtr, nextLazy, evict,
                     wait, fault, loaded, written>>
      /\ proxyTop' = IF Kind = "dcache" THEN mw.exSt ELSE proxyTop
  BY DEF IdealSpill, Executing, lazyVars, ReserveSetsTop
<1>2. /\ ArchTop = mw.drSt /\ ArchSpill = mw.drSs /\ mw.exSt = mw.drSt
      /\ mw.exSs = mw.drSs - mw.delta /\ mw.delta \in Nat
      /\ Pointers(mw.drSs, mw.drSt) /\ Pointers(mw.exSs, mw.exSt)
      /\ \A a \in written : a >= mw.drSt
      /\ Kind = "ideal" => /\ Len(content) >= mw.drSs - mw.drSt
                           /\ \A a \in written : a >= mw.drSs => WordAt(a) = mem[a]
  BY <1>1, DirectOperands DEF PreparedDirectly
<1>3. /\ mw.drSs \in Int /\ mw.drSt \in Int /\ mw.exSs \in Int /\ mw.exSt \in Int
      /\ Len(content) \in Nat /\ content \in Seq(Val) /\ proxyTop \in Int
      /\ buffer \in Seq(Val) /\ Len(buffer) < 1 /\ mem \in [Addr -> Val]
      /\ written \subseteq Addr /\ \A a \in written : a \in Int
  BY DirectTypes DEF DirectInv
<1>4. DirectFrame
  BY <1>1 DEF DirectFrame
<1>5. TopMoves
  BY <1>1, <1>2, <1>3 DEF TopMoves
<1>6. CASE Kind = "dcache"
  <2>1. mem' = mem
    <3>1. \A a \in Addr : a \notin mw.exSs .. mw.exSs + size - 1
      BY <1>3, <1>6, StackProgram DEF Addr
    <3> HIDE DEF size
    <3>2. mem' = [a \in Addr |-> mem[a]]
      BY <1>1, <3>1
    <3> QED BY <1>3, <3>2
  <2> HIDE DEF size
  <2>2. DirectValues
    BY <1>1, <1>3, <1>6, <2>1 DEF DirectValues, DirectInv, FrameInv, TypeOK
  <2> QED BY <1>1, <1>4, <1>5, <1>6, <2>1, <2>2, ProxyTakesEffect
<1>7. CASE Kind = "ideal"
  <2>1. mw.exSs + size - 1 = mw.drSs - 1 /\ mw.exSt <= mw.exSs
    BY <1>2, <1>3, <1>7 DEF Pointers
  <2> HIDE DEF size
  <2>2. \A a \in mw.exSs .. mw.drSs - 1 :
          Len(content) - (a - mw.exSt) \in 1 .. Len(content)
    BY <1>2, <1>3, <1>7, <2>1
  <2>3. \A a \in Addr : mem'[a] = IF a \in mw.exSs .. mw.drSs - 1
                                 THEN content[Len(content) - (a - mw.exSt)] ELSE mem[a]
    BY <1>1, <2>1
  <2>4. mem' \in [Addr -> Val]
    <3>1. \A a \in mw.exSs .. mw.drSs - 1 : content[Len(content) - (a - mw.exSt)] \in Val
      BY <1>3, <2>2, ElementOfSeq
    <3> QED BY <1>1, <1>3, <2>1, <3>1
  <2>5. DirectValues
    BY <1>1, <1>3, <1>7, <2>4 DEF DirectValues, DirectInv, FrameInv, TypeOK
  <2>6. ArchTop' = mw.exSt /\ mw'.exSs = mw.exSs
    BY <1>1, <1>4, <2>5, DirectFinish DEF DirectInv
  <2>7. ASSUME NEW a \in written'
        PROVE  WordAt(a)' = WordAt(a) /\ (a >= mw.exSs => WordAt(a) = mem'[a])
    <3>1. a \in Int /\ a >= mw.drSt /\ a \in written /\ a \in Addr
      BY <1>1, <1>2, <1>3, <2>7
    <3>2. PICK c, top, m : c = content /\ top = mw.drSt /\ m = mem'
      OBVIOUS
    <3>3. /\ WordAt(a) = Seen(c, top, buffer, mw.exSs, mem, a)
          /\ WordAt(a)' = Seen(c, top, buffer, mw.exSs, m, a)
      BY <1>1, <1>2, <2>6, <3>2, WordAtSeen
    <3>4. c \in Seq(Val) /\ top \in Int /\ a >= top
      BY <1>3, <3>1, <3>2
    <3>5. CASE a < top + Len(c)
      <4>1. /\ Seen(c, top, buffer, mw.exSs, mem, a) = c[Len(c) - (a - top)]
            /\ Seen(c, top, buffer, mw.exSs, m, a) = c[Len(c) - (a - top)]
        BY <1>3, <3>1, <3>4, <3>5, SeenCached
      <4>2. ASSUME a >= mw.exSs PROVE WordAt(a) = mem'[a]
        <5>1. CASE a < mw.drSs
          <6>1. a \in mw.exSs .. mw.drSs - 1
            BY <1>3, <3>1, <4>2, <5>1
          <6>2. mem'[a] = content[Len(content) - (a - mw.exSt)]
            BY <2>3, <3>1, <6>1
          <6> QED BY <1>2, <3>2, <3>3, <4>1, <6>2
        <5>2. CASE a >= mw.drSs
          <6>1. a \notin mw.exSs .. mw.drSs - 1
            BY <1>3, <3>1, <5>2
          <6>2. mem'[a] = mem[a]
            BY <2>3, <3>1, <6>1
          <6> QED BY <1>2, <1>7, <3>1, <5>2, <6>2
        <5> QED BY <1>3, <3>1, <5>1, <5>2
      <4> QED BY <3>3, <4>1, <4>2
    <3>6. CASE a >= top + Len(c)
      <4>1. /\ Seen(c, top, buffer, mw.exSs, mem, a) = mem[a]
            /\ Seen(c, top, buffer, mw.exSs, m, a) = m[a]
        BY <1>3, <3>1, <3>4, <3>6, SeenUnbuffered
      <4>2. a \notin mw.exSs .. mw.drSs - 1
        BY <1>2, <1>3, <1>7, <3>1, <3>2, <3>6
      <4>3. mem'[a] = mem[a]
        BY <2>3, <3>1, <4>2
      <4> QED BY <3>2, <3>3, <4>1, <4>3
    <3>7. Len(c) \in Nat
      BY <1>3, <3>2
    <3> QED BY <3>1, <3>4, <3>5, <3>6, <3>7
  <2>8. Len(content') >= mw.exSs - mw.exSt
    BY <1>1, <1>2, <1>3, <1>7
  <2> QED BY <1>1, <1>4, <1>5, <1>7, <2>5, <2>7, <2>8, IdealTakesEffect
<1> QED BY <1>6, <1>7 DEF IdealOrProxy
\* What loads and stores find: their address lies between the pointers.
LEMMA DirectAccess ==
  ASSUME IdealOrProxy, DirectInv, ~mw.done, mw.op \in {"load", "store"}
  PROVE  /\ ArchTop = mw.exSt /\ ArchSpill = mw.exSs
         /\ mw.exSt + mw.addr \in Addr
         /\ mw.exSt + mw.addr >= mw.exSt /\ mw.exSt + mw.addr < mw.exSs
<1>1. /\ ArchTop = mw.drSt /\ ArchSpill = mw.drSs /\ mw.exSt = mw.drSt /\ mw.exSs = mw.drSs
      /\ mw.drSt + mw.addr < mw.drSs /\ Pointers(mw.exSs, mw.exSt)
  BY DirectOperands DEF PreparedDirectly, StackControl
<1>2. /\ mw.drSs \in Int /\ mw.drSt \in Int /\ mw.addr \in Nat /\ MaxAddr \in Nat
  BY DirectTypes DEF DirectInv
<1> QED BY <1>1, <1>2 DEF Pointers, Addr

\* lws and sws of the ideal cache find the word they address in the cache: neither
\* is ever refused.
LEMMA IdealAccessHeld ==
  ASSUME IdealOrProxy, DirectInv, Kind = "ideal", ~mw.done, mw.op \in {"load", "store"}
  PROVE  mw.addr < Len(content)
<1>1. mw.exSt + mw.addr < mw.exSs /\ ArchTop = mw.exSt /\ ArchSpill = mw.exSs
  BY DirectAccess
<1>2. Len(content) >= mw.exSs - mw.exSt
  BY <1>1 DEF DirectInv, WordsInv, IdealWords
<1>3. mw.exSs \in Int /\ mw.exSt \in Int /\ mw.addr \in Nat /\ Len(content) \in Nat
  BY DirectTypes DEF DirectInv
<1> QED BY <1>1, <1>2, <1>3

\* lws of the ideal cache.
LEMMA IdealLoad ==
  ASSUME IdealOrProxy, DirectInv, Load
  PROVE  DirectInv' /\ StackStep
<1>1. /\ mw.op = "load" /\ ~mw.done /\ Kind = "ideal" /\ mw.addr < Len(content)
      /\ loaded' = content[Len(content) - mw.addr] /\ NoTransfer /\ turn' = "EX"
      /\ UNCHANGED <<ex, ss, st, ifWait, content, lazyPtr, nextLazy, evict, proxyTop,
                     fault, written>>
  BY DEF Load, Executing, IdealOrProxy, lazyVars
<1>2. PICK a : a = mw.exSt + mw.addr
  OBVIOUS
<1>3. /\ ArchTop = mw.exSt /\ ArchSpill = mw.exSs
      /\ a \in Addr /\ a >= mw.exSt /\ a < mw.exSs
  BY <1>1, <1>2, DirectAccess
<1>4. /\ FrameInv /\ WordsInv /\ mw.exSs \in Int /\ mw.exSt \in Int /\ mw.addr \in Nat
      /\ Len(content) \in Nat /\ content \in Seq(Val)
      /\ \A b \in written : b \in Int
  BY DirectTypes DEF DirectInv
<1>5. Finish /\ DirectFrame /\ UNCHANGED <<phase, buffer, mem, wait>>
  BY <1>1 DEF NoTransfer, DirectFrame
<1>6. loaded' \in Val
  <2>1. Len(content) - mw.addr \in 1 .. Len(content)
    BY <1>1, <1>4
  <2> QED BY <1>1, <1>4, <2>1, ElementOfSeq
<1>7. DirectValues
  BY <1>1, <1>5, <1>6 DEF DirectValues, DirectInv, FrameInv, TypeOK
<1>8. FrameInv' /\ ArchTop' = mw.exSt /\ ArchSpill' = mw.exSs /\ mw'.exSs = mw.exSs
  BY <1>4, <1>5, <1>7, DirectFinish
<1>9. \A b : WordAt(b)' = WordAt(b)
  BY <1>1, <1>3, <1>5, <1>8, WordAtSeen
<1>10. loaded' = WordAt(a)
  <2>1. a \in Int /\ a < ArchTop + Len(content) /\ Len(content) - (a - ArchTop) = Len(content) - mw.addr
    BY <1>1, <1>2, <1>3, <1>4
  <2>2. WordAt(a) = content[Len(content) - (a - ArchTop)]
    BY <1>3, <1>4, <2>1, IdealWordHeld
  <2> QED BY <1>1, <2>1, <2>2
<1>11. StackStep /\ \A b \in written' : b >= ArchTop'
  BY <1>1, <1>2, <1>3, <1>4, <1>6, <1>8, <1>9, <1>10, DirectLoads
<1>12. IdealWords'
  BY <1>1, <1>3, <1>4, <1>5, <1>8, <1>9 DEF WordsInv, IdealWords
<1>13. WordsInv'
  BY <1>1, <1>11, <1>12 DEF WordsInv
<1> QED BY <1>8, <1>11, <1>13 DEF DirectInv

\* sws of the ideal cache.
LEMMA IdealStore ==
  ASSUME IdealOrProxy, DirectInv, Store
  PROVE  DirectInv' /\ StackStep
<1>0. PICK n : n = Len(content) - mw.addr
  OBVIOUS
<1>1. PICK a : a = mw.exSt + mw.addr
  OBVIOUS
<1>2. /\ mw.op = "store" /\ ~mw.done /\ Kind = "ideal" /\ mw.addr < Len(content)
      /\ content' = [content EXCEPT ![n] = mw.val] /\ NoTransfer /\ turn' = "EX"
      /\ written' = written \cup {a}
      /\ UNCHANGED <<ex, ss, st, ifWait, lazyPtr, nextLazy, evict, proxyTop, fault, loaded>>
  BY <1>0, <1>1 DEF Store, Executing, IdealOrProxy
<1>3. /\ ArchTop = mw.exSt /\ ArchSpill = mw.exSs
      /\ a \in Addr /\ a >= mw.exSt /\ a < mw.exSs
  BY <1>1, <1>2, DirectAccess
<1>4. /\ FrameInv /\ WordsInv /\ mw.exSs \in Int /\ mw.exSt \in Int /\ mw.addr \in Nat
      /\ Len(content) \in Nat /\ content \in Seq(Val) /\ mw.val \in Val
      /\ buffer \in Seq(Val) /\ Len(buffer) < 1 /\ written \subseteq Addr
      /\ \A b \in written : b \in Int /\ b >= mw.exSt
  BY <1>3, DirectTypes DEF DirectInv, WordsInv
<1>5. Finish /\ DirectFrame /\ UNCHANGED <<phase, buffer, mem, wait>>
  BY <1>2 DEF NoTransfer, DirectFrame
<1>6. n \in 1 .. Len(content) /\ a \in Int /\ Len(content) - (a - mw.exSt) = n
      /\ a < mw.exSt + Len(content)
  <2>1. mw.exSt \in Int /\ mw.addr \in Nat /\ Len(content) \in Nat
    BY <1>4
  <2>2. mw.addr < Len(content)
    BY <1>2
  <2> QED BY <1>0, <1>1, <2>1, <2>2
<1>7. /\ content' \in Seq(Val) /\ Len(content') = Len(content)
      /\ content'[n] = mw.val
      /\ \A k \in 1 .. Len(content) : k # n => content'[k] = content[k]
  <2> DEFINE updated == [content EXCEPT ![n] = mw.val]
  <2>1. /\ updated \in Seq(Val) /\ Len(updated) = Len(content)
        /\ \A k \in 1 .. Len(content) : updated[k] = IF k = n THEN mw.val ELSE content[k]
    BY <1>4, <1>6, ExceptSeq
  <2>2. content' = updated
    BY <1>2
  <2> HIDE DEF updated
  <2> QED BY <1>6, <2>1, <2>2
<1>8. DirectValues
  BY <1>2, <1>3, <1>5, <1>7 DEF DirectValues, DirectInv, FrameInv, TypeOK
<1>9. FrameInv' /\ ArchTop' = mw.exSt /\ ArchSpill' = mw.exSs /\ mw'.exSs = mw.exSs
  BY <1>4, <1>5, <1>8, DirectFinish
<1>10. WordAt(a)' = mw.val
  <2>1. WordAt(a)' = Seen(content', mw.exSt, buffer, mw.exSs, mem, a)
    BY <1>5, <1>9, WordAtSeen
  <2>2. content' \in Seq(Val) /\ a < mw.exSt + Len(content')
        /\ Len(content') - (a - mw.exSt) = n
    BY <1>6, <1>7
  <2>3. Seen(content', mw.exSt, buffer, mw.exSs, mem, a) =
          content'[Len(content') - (a - mw.exSt)]
    BY <1>3, <1>4, <1>6, <2>2, SeenCached
  <2> QED BY <1>7, <2>1, <2>2, <2>3
<1>11. \A b \in written : b # a => WordAt(b)' = WordAt(b)
  <2> SUFFICES ASSUME NEW b \in written, b # a PROVE WordAt(b)' = WordAt(b)
    OBVIOUS
  <2>1. b \in Int /\ b >= mw.exSt
    BY <1>4
  <2>2. /\ WordAt(b)' = Seen(content', mw.exSt, buffer, mw.exSs, mem, b)
        /\ WordAt(b) = Seen(content, mw.exSt, buffer, mw.exSs, mem, b)
    BY <1>3, <1>5, <1>9, WordAtSeen
  <2>3. CASE b < mw.exSt + Len(content)
    <3>0. PICK k : k = Len(content) - (b - mw.exSt)
      OBVIOUS
    <3>1. k \in 1 .. Len(content) /\ k # n
      <4>1. mw.exSt \in Int /\ Len(content) \in Nat
        BY <1>4
      <4>2. a \in Int /\ Len(content) - (a - mw.exSt) = n
        BY <1>6
      <4> QED BY <2>1, <2>3, <3>0, <4>1, <4>2
    <3>2. b < mw.exSt + Len(content') /\ Len(content') - (b - mw.exSt) = k
      BY <1>7, <2>3, <3>0
    <3>3. Seen(content, mw.exSt, buffer, mw.exSs, mem, b) = content[k]
      BY <1>4, <2>1, <2>3, <3>0, SeenCached
    <3>4. Seen(content', mw.exSt, buffer, mw.exSs, mem, b) =
            content'[Len(content') - (b - mw.exSt)]
      BY <1>4, <1>7, <2>1, <3>2, SeenCached
    <3>5. content'[k] = content[k]
      BY <1>7, <3>1
    <3> QED BY <2>2, <3>2, <3>3, <3>4, <3>5
  <2>4. CASE b >= mw.exSt + Len(content)
    <3>1. b >= mw.exSt + Len(content')
      BY <1>7, <2>4
    <3>2. Seen(content, mw.exSt, buffer, mw.exSs, mem, b) = mem[b]
      BY <1>4, <2>1, <2>4, SeenUnbuffered
    <3>3. Seen(content', mw.exSt, buffer, mw.exSs, mem, b) = mem[b]
      BY <1>4, <1>7, <2>1, <3>1, SeenUnbuffered
    <3> QED BY <2>2, <3>2, <3>3
  <2> QED BY <1>4, <2>1, <2>3, <2>4
<1>12. StackStep /\ \A b \in written' : b >= ArchTop'
  BY <1>1, <1>2, <1>3, <1>4, <1>9, <1>10, <1>11, DirectStores
<1>13. IdealWords'
  <2>1. Len(content') >= ArchSpill' - ArchTop'
    BY <1>2, <1>3, <1>4, <1>7, <1>9 DEF WordsInv, IdealWords
  <2>2. ASSUME NEW b \in written', b >= ArchSpill'
        PROVE  WordAt(b)' = mem'[b]
    <3>1. b # a /\ b \in written
      BY <1>2, <1>3, <1>4, <1>6, <1>9, <2>2
    <3>2. WordAt(b) = mem[b]
      BY <1>2, <1>3, <1>4, <1>9, <2>2, <3>1 DEF WordsInv, IdealWords
    <3> QED BY <1>5, <1>11, <3>1, <3>2
  <2> QED BY <2>1, <2>2 DEF IdealWords
<1>14. WordsInv'
  BY <1>2, <1>12, <1>13 DEF WordsInv
<1> QED BY <1>9, <1>12, <1>14 DEF DirectInv

\* An access of the proxy takes the top it has noted, which is the program's.
LEMMA ProxyAccess ==
  ASSUME IdealOrProxy, DirectInv, Kind = "dcache", ~mw.done, mw.op \in {"load", "store"}
  PROVE  proxyTop + mw.addr = mw.exSt + mw.addr
<1>1. ArchTop = mw.exSt /\ ArchSpill = mw.exSs /\ mw.exSt + mw.addr < mw.exSs
  BY DirectAccess
<1>2. mw.exSs \in Int /\ mw.exSt \in Int /\ mw.addr \in Nat
  BY DirectTypes DEF DirectInv
<1> QED BY <1>1, <1>2 DEF DirectInv, WordsInv, ProxyWords

\* The program sees the proxy's words in memory, before and after an access.
LEMMA ProxySees ==
  ASSUME DirectInv, Kind = "dcache", DirectFrame, content' = content,
         ArchTop' = ArchTop, mw'.exSs = mw.exSs
  PROVE  \A b \in Int : b >= ArchTop => WordAt(b) = mem[b] /\ WordAt(b)' = mem'[b]
<1>1. /\ FrameInv /\ Len(content) < 1 /\ content \in Seq(Val) /\ buffer \in Seq(Val)
      /\ Len(buffer) < 1 /\ ArchTop \in Int /\ mw.exSs \in Int
  BY DirectTypes DEF DirectInv, WordsInv, ProxyWords
<1>2. TAKE b \in Int
<1>3. HAVE b >= ArchTop
<1>4. WordAt(b) = mem[b]
  BY <1>1, <1>3, ProxyWordInMemory
<1>5. /\ content' \in Seq(Val) /\ Len(content') < 1 /\ buffer' \in Seq(Val) /\ Len(buffer') < 1
      /\ ArchTop' \in Int /\ mw'.exSs \in Int /\ b >= ArchTop'
  BY <1>1, <1>3 DEF DirectFrame
<1> QED BY <1>4, <1>5, UnheldAfter

\* An access of the proxy that waits for memory shows the program nothing.
LEMMA ProxyWaits ==
  ASSUME IdealOrProxy, DirectInv, Kind = "dcache", DirectFrame, DirectValues, Repeat,
         UNCHANGED <<content, proxyTop, mem, loaded, written>>
  PROVE  DirectInv' /\ StackStep
<1>1. FrameInv' /\ ArchTop' = ArchTop /\ ArchSpill' = ArchSpill /\ mw'.exSs = mw.exSs
  BY DirectRepeat DEF DirectInv
<1>2. /\ FrameInv /\ WordsInv /\ ArchTop \in Int
      /\ \A b \in written : b \in Int /\ b >= ArchTop
  BY DirectTypes DEF DirectInv, WordsInv
<1>3. \A b \in written : WordAt(b)' = WordAt(b)
  BY <1>1, <1>2, ProxySees
<1>4. StackStep /\ \A b \in written' : b >= ArchTop'
  BY <1>1, <1>2, <1>3, DirectReserves
<1>5. WordsInv'
  BY <1>1, <1>4 DEF DirectInv, WordsInv, ProxyWords
<1> QED BY <1>1, <1>4, <1>5 DEF DirectInv

\* lws of the proxy.
LEMMA ProxyLoadKeeps ==
  ASSUME IdealOrProxy, DirectInv, ProxyLoad
  PROVE  DirectInv' /\ StackStep
<1>1. PICK ready \in BOOLEAN :
        /\ Answer(ready)
        /\ IF ready THEN loaded' = mem[proxyTop + mw.addr] /\ Finish
                    ELSE loaded' = loaded /\ Repeat
  BY DEF ProxyLoad
<1>2. /\ mw.op = "load" /\ ~mw.done /\ Kind = "dcache" /\ turn' = "EX"
      /\ UNCHANGED <<ex, ss, st, ifWait, content, phase, buffer, lazyPtr, nextLazy, evict,
                     proxyTop, mem, fault, written>>
  BY DEF ProxyLoad, Executing, cacheVars
<1>3. PICK a : a = mw.exSt + mw.addr
  OBVIOUS
<1>4. /\ ArchTop = mw.exSt /\ ArchSpill = mw.exSs
      /\ a \in Addr /\ a >= mw.exSt /\ a < mw.exSs /\ proxyTop + mw.addr = a
  BY <1>2, <1>3, DirectAccess, ProxyAccess
<1>5. /\ FrameInv /\ WordsInv /\ mem \in [Addr -> Val] /\ TypeOK
      /\ \A b \in written : b \in Int /\ b >= ArchTop
  BY DirectTypes DEF DirectInv, WordsInv, FrameInv
<1>6. wait' \in {NoRequest} \cup 0 .. MaxLatency
  BY <1>1, <1>5, AnswerType
<1>7. loaded' \in Val \cup {Undef}
  BY <1>1, <1>4, <1>5 DEF TypeOK
<1>8. DirectFrame /\ DirectValues
  BY <1>2, <1>5, <1>6, <1>7 DEF DirectFrame, DirectValues, TypeOK
<1>9. CASE ~ready
  BY <1>1, <1>2, <1>8, <1>9, ProxyWaits
<1>10. CASE ready
  <2>1. loaded' = mem[a] /\ Finish /\ loaded' \in Val
    BY <1>1, <1>4, <1>5, <1>10
  <2>2. FrameInv' /\ ArchTop' = mw.exSt /\ ArchSpill' = mw.exSs /\ mw'.exSs = mw.exSs
    BY <1>5, <1>8, <2>1, DirectFinish
  <2>3. \A b \in Int : b >= ArchTop => WordAt(b) = mem[b] /\ WordAt(b)' = mem'[b]
    BY <1>2, <1>4, <1>8, <2>2, ProxySees
  <2>4. a \in written => loaded' = WordAt(a)
    BY <1>4, <1>5, <2>1, <2>3
  <2>5. \A b \in written : WordAt(b)' = WordAt(b)
    BY <1>2, <1>5, <2>3
  <2>6. StackStep /\ \A b \in written' : b >= ArchTop'
    BY <1>2, <1>3, <1>4, <1>5, <2>1, <2>2, <2>4, <2>5, DirectLoads
  <2>7. WordsInv'
    BY <1>2, <1>4, <1>5, <2>2, <2>6 DEF WordsInv, ProxyWords
  <2> QED BY <2>2, <2>6, <2>7 DEF DirectInv
<1> QED BY <1>9, <1>10

\* sws of the proxy.
LEMMA ProxyStoreKeeps ==
  ASSUME IdealOrProxy, DirectInv, ProxyStore
  PROVE  DirectInv' /\ StackStep
<1>1. PICK a : a = mw.exSt + mw.addr
  OBVIOUS
<1>2. /\ mw.op = "store" /\ ~mw.done /\ Kind = "dcache" /\ turn' = "EX"
      /\ UNCHANGED <<ex, ss, st, ifWait, content, phase, buffer, lazyPtr, nextLazy, evict,
                     proxyTop, fault, loaded>>
  BY DEF ProxyStore, Executing, cacheVars
<1>3. /\ ArchTop = mw.exSt /\ ArchSpill = mw.exSs
      /\ a \in Addr /\ a >= mw.exSt /\ a < mw.exSs /\ proxyTop + mw.addr = a
  BY <1>1, <1>2, DirectAccess, ProxyAccess
<1>4. PICK ready \in BOOLEAN :
        /\ Answer(ready)
        /\ IF ready
           THEN /\ mem' = [mem EXCEPT ![a] = mw.val]
                /\ written' = written \cup {b \in Addr : b < StackBase /\ b = a}
                /\ Finish
           ELSE mem' = mem /\ written' = written /\ Repeat
  BY <1>1, <1>3 DEF ProxyStore
<1>5. /\ FrameInv /\ WordsInv /\ mem \in [Addr -> Val] /\ TypeOK /\ mw.val \in Val
      /\ written \subseteq Addr /\ ArchTop \in Int
      /\ \A b \in written : b \in Int /\ b >= ArchTop
      /\ \A b \in written : b < StackBase
      /\ a \in Int /\ StackBase \in Int
  BY <1>2, <1>3, DirectTypes, StackProgram DEF DirectInv, WordsInv, ProxyWords, FrameInv, Addr
<1>6. wait' \in {NoRequest} \cup 0 .. MaxLatency
  BY <1>4, <1>5, AnswerType
<1>7. mem' \in [Addr -> Val] /\ written' \subseteq Addr
  BY <1>4, <1>5
<1>8. DirectFrame /\ DirectValues
  BY <1>2, <1>5, <1>6, <1>7 DEF DirectFrame, DirectValues, TypeOK
<1>9. CASE ~ready
  BY <1>2, <1>4, <1>8, <1>9, ProxyWaits
<1>10. CASE ready
  <2>1. /\ mem' = [mem EXCEPT ![a] = mw.val] /\ Finish
        /\ written' = IF a < StackBase THEN written \cup {a} ELSE written
    BY <1>3, <1>4, <1>10
  <2>2. FrameInv' /\ ArchTop' = mw.exSt /\ ArchSpill' = mw.exSs /\ mw'.exSs = mw.exSs
    BY <1>5, <1>8, <2>1, DirectFinish
  <2>3. \A b \in Int : b >= ArchTop => WordAt(b) = mem[b] /\ WordAt(b)' = mem'[b]
    BY <1>2, <1>3, <1>8, <2>2, ProxySees
  <2>4. \A b \in written : b # a => WordAt(b)' = WordAt(b)
    BY <1>5, <2>1, <2>3
  <2>5. WordAt(a)' = mw.val
    <3>1. WordAt(a)' = mem'[a]
      BY <1>3, <1>5, <2>3
    <3> QED BY <1>3, <1>5, <2>1, <3>1
  <2>6. StackStep /\ \A b \in written' : b >= ArchTop'
    <3>1. CASE a < StackBase
      BY <1>1, <1>2, <1>3, <1>5, <2>1, <2>2, <2>4, <2>5, <3>1, DirectStores
    <3>2. CASE ~(a < StackBase)
      <4>1. a \notin written /\ written' = written
        BY <1>5, <2>1, <3>2
      <4>2. ArchTop' = ArchTop
        BY <1>3, <2>2
      <4> QED BY <1>2, <1>5, <2>4, <4>1, <4>2, DirectReserves
    <3> QED BY <3>1, <3>2
  <2>7. ProxyWords'
    <3>1. \A b \in written' : b < StackBase
      BY <1>5, <2>1
    <3> QED BY <1>2, <1>3, <1>5, <2>2, <3>1 DEF WordsInv, ProxyWords
  <2>8. WordsInv'
    BY <1>2, <2>6, <2>7 DEF WordsInv
  <2> QED BY <2>2, <2>6, <2>8 DEF DirectInv
<1> QED BY <1>9, <1>10
\* A simulation exception, in MW or in EX, and an MW stage with nothing to do,
\* change nothing the program sees.
LEMMA DirectQuiet ==
  ASSUME IdealOrProxy, DirectInv,
         \/ ReserveUnderflows \/ FreeExceeds \/ AccessExceeds \/ NothingToDoInMW
         \/ StackControlExceeds \/ UNCHANGED vars
  PROVE  DirectInv' /\ StackStep
<1>1. /\ UNCHANGED <<mw, ex, ss, st, ifWait, content, phase, buffer, lazyPtr, nextLazy,
                     evict, proxyTop, mem, wait, loaded, written>>
      /\ turn' \in {"MW", "EX"} /\ stall' \in BOOLEAN /\ fault' \in BOOLEAN
      /\ fault' \/ UNCHANGED <<turn, stall, fault>> \/ mw.op = "nop" \/ ~mw.pred \/ mw.done
  <2>0. turn \in {"MW", "EX"} /\ stall \in BOOLEAN /\ fault \in BOOLEAN
    BY DEF DirectInv, FrameInv, TypeOK
  <2>1. CASE ReserveUnderflows \/ FreeExceeds \/ AccessExceeds
    BY <2>0, <2>1 DEF ReserveUnderflows, FreeExceeds, AccessExceeds, Executing, Throw, cacheVars
  <2>2. CASE NothingToDoInMW
    BY <2>0, <2>2 DEF NothingToDoInMW, cacheVars
  <2>3. CASE StackControlExceeds
    BY <2>0, <2>3 DEF StackControlExceeds, cacheVars, pipeVars
  <2>4. CASE UNCHANGED vars
    BY <2>0, <2>4 DEF vars
  <2> QED BY <2>1, <2>2, <2>3, <2>4
<1>7. phase' = phase /\ phase = "IDLE" /\ Len(buffer') < 1
  BY <1>1 DEF DirectInv, FrameInv
<1>2. /\ ArchTop' = ArchTop /\ ArchSpill' = ArchSpill
      /\ \A a : WordAt(a)' = WordAt(a)
  <2>1. ArchTop' = ArchTop /\ ArchSpill' = ArchSpill
    BY <1>1 DEF ArchTop, ArchSpill
  <2> QED BY <1>1, <2>1, WordAtSeen
<1>3. FrameInv'
  <2>1. TypeOK'
    BY <1>1 DEF DirectInv, FrameInv, TypeOK
  <2>2. DirectMW' /\ DirectEX'
    BY <1>1 DEF DirectInv, FrameInv, DirectMW, DirectEX, PreparedDirectly, Pointers,
                Disciplined
  <2>3. DirectTurn'
    BY <1>1 DEF DirectInv, FrameInv, DirectMW, DirectTurn
  <2> QED BY <1>7, <2>1, <2>2, <2>3 DEF FrameInv
<1>4. ArchTop \in Int
  BY DirectTypes DEF DirectInv
<1>5. StackStep /\ \A a \in written' : a >= ArchTop'
  BY <1>1, <1>2, <1>4, DirectReserves DEF DirectInv
<1>6. WordsInv'
  BY <1>1, <1>2, <1>5 DEF DirectInv, WordsInv, IdealWords, ProxyWords
<1> QED BY <1>3, <1>5, <1>6 DEF DirectInv

-----------------------------------------------------------------------------
(***************************************************************************)
(* The EX stage.                                                           *)
(***************************************************************************)
\* The instruction i with the operands prepare computes for it.
WithOperands(i) ==
  [i EXCEPT !.exSs = Prepare(i).ss, !.exSt = Prepare(i).st, !.delta = Prepare(i).delta]

\* What the prepare functions, which the proxy inherits from the ideal cache,
\* compute for an instruction of a program that keeps the rules.
LEMMA DirectPrepared ==
  ASSUME IdealOrProxy, NEW i \in Decodings, Pointers(i.drSs, i.drSt), Disciplined(i),
         i.op \in StackControl, Prepare(i).ok
  PROVE  /\ Prepare(i).ss \in Int /\ Prepare(i).st \in Int
         /\ WithOperands(i) \in Decodings /\ WithOperands(i).op = i.op
         /\ WithOperands(i).size = i.size /\ WithOperands(i).addr = i.addr
         /\ WithOperands(i).pred = i.pred /\ WithOperands(i).done = i.done
         /\ WithOperands(i).drSs = i.drSs /\ WithOperands(i).drSt = i.drSt
         /\ WithOperands(i).exSs = Prepare(i).ss /\ WithOperands(i).exSt = Prepare(i).st
         /\ PreparedDirectly(WithOperands(i))
<1>0. PICK p, d : p = Prepare(i) /\ d = WithOperands(i)
  OBVIOUS
<1>1. /\ i.drSs \in Int /\ i.drSt \in Int /\ i.size \in Nat /\ MaxAddr \in Nat
      /\ AddrSpace \in Int
  BY StackProgram, StackSizes DEF Decodings, Sizes
<1>2. 0 <= i.drSt /\ i.drSt <= i.drSs /\ i.drSs <= MaxAddr
  BY <1>1 DEF Pointers
<1>3. /\ p.ss \in Int /\ p.st \in Int /\ p.delta \in Int
      /\ i.op = "reserve" => p.st = i.drSt - i.size /\ p.ss = i.drSs /\ p.delta = 0
      /\ i.op = "free" => /\ p.st = i.drSt + i.size /\ p.ss = Greater(i.drSs, p.st)
                          /\ p.delta = 0
      /\ i.op = "ensure" => /\ p.st = i.drSt /\ p.ss = i.drSs + p.delta /\ p.delta \in Nat
                            /\ p.delta > 0 => p.ss = i.drSt + i.size
                            /\ i.drSt + i.size <= p.ss
      /\ i.op = "spill" => p.st = i.drSt /\ p.ss = i.drSs - p.delta /\ p.delta \in Nat
      /\ Pointers(p.ss, p.st)
  <2>1. CASE i.op = "reserve"
    <3>1. p = Prepared(i.drSs, Minus(i.drSt, i.size), 0)
      BY <1>0, <2>1 DEF Prepare, PrepareReserve, IdealPrepareReserve, IdealOrProxy
    <3>2. i.size <= i.drSt
      BY <2>1 DEF Disciplined
    <3>3. p.ss = i.drSs /\ p.st = Minus(i.drSt, i.size) /\ p.delta = 0
      BY <3>1 DEF Prepared
    <3>4. p.st = i.drSt - i.size
      BY <1>1, <3>2, <3>3 DEF Minus
    <3>5. Pointers(p.ss, p.st)
      BY <1>1, <1>2, <3>2, <3>3, <3>4 DEF Pointers
    <3> QED BY <1>1, <2>1, <3>3, <3>4, <3>5
  <2>2. CASE i.op = "free"
    <3>1. p = Prepared(Greater(i.drSs, i.drSt + i.size), i.drSt + i.size, 0)
      BY <1>0, <2>2 DEF Prepare, PrepareFree, IdealPrepareFree, IdealOrProxy
    <3>2. i.drSt + i.size <= MaxAddr
      BY <2>2 DEF Disciplined
    <3>3. p.st = i.drSt + i.size /\ p.ss = Greater(i.drSs, p.st) /\ p.delta = 0
      BY <3>1 DEF Prepared
    <3>4. Pointers(p.ss, p.st) /\ p.ss \in Int
      BY <1>1, <1>2, <3>2, <3>3 DEF Pointers, Greater
    <3> QED BY <1>1, <2>2, <3>3, <3>4
  <2>3. CASE i.op = "ensure"
    <3>1. /\ ~(i.drSs < i.drSt)
          /\ p = Prepared(Greater(i.drSs, i.drSt + i.size), i.drSt,
                          IF i.drSs < i.drSt + i.size THEN i.drSt + i.size - i.drSs ELSE 0)
      BY <1>0, <1>1, <1>2, <2>3 DEF Prepare, PrepareEnsure, IdealPrepareEnsure, IdealOrProxy
    <3>2. i.drSt + i.size <= MaxAddr
      BY <2>3 DEF Disciplined
    <3>3. /\ p.ss = Greater(i.drSs, i.drSt + i.size) /\ p.st = i.drSt
          /\ p.delta = IF i.drSs < i.drSt + i.size THEN i.drSt + i.size - i.drSs ELSE 0
      BY <3>1 DEF Prepared
    <3>4. /\ p.ss = i.drSs + p.delta /\ p.delta \in Nat
          /\ p.delta > 0 => p.ss = i.drSt + i.size
          /\ i.drSt + i.size <= p.ss
      BY <1>1, <3>3 DEF Greater
    <3>5. Pointers(p.ss, p.st)
      BY <1>1, <1>2, <3>2, <3>3 DEF Pointers, Greater
    <3> QED BY <1>1, <2>3, <3>3, <3>4, <3>5
  <2>4. CASE i.op = "spill"
    <3>1. p = IF i.drSt > Minus(i.drSs, i.size) THEN Exceeded
              ELSE Prepared(Minus(i.drSs, i.size), i.drSt, i.size)
      BY <1>0, <2>4 DEF Prepare, PrepareSpill, IdealPrepareSpill, IdealOrProxy
    <3>2. i.drSt <= Minus(i.drSs, i.size)
      <4>1. Minus(i.drSs, i.size) \in Int
        BY <1>1 DEF Minus
      <4>2. CASE i.drSt > Minus(i.drSs, i.size)
        BY <1>0, <3>1, <4>2 DEF Exceeded
      <4> QED BY <1>1, <4>1, <4>2
    <3>3. i.size <= i.drSs
      BY <2>4 DEF Disciplined
    <3>4. Minus(i.drSs, i.size) = i.drSs - i.size
      BY <1>1, <3>3 DEF Minus
    <3>5. ~(i.drSt > Minus(i.drSs, i.size))
      BY <1>1, <3>2, <3>4
    <3>6. p.ss = i.drSs - i.size /\ p.st = i.drSt /\ p.delta = i.size
      BY <3>1, <3>4, <3>5 DEF Prepared
    <3>7. Pointers(p.ss, p.st)
      BY <1>1, <1>2, <3>2, <3>4, <3>6 DEF Pointers
    <3> QED BY <1>1, <2>4, <3>6, <3>7
  <2> QED BY <2>1, <2>2, <2>3, <2>4 DEF StackControl
<1>4. /\ d \in Decodings /\ d.op = i.op /\ d.size = i.size /\ d.addr = i.addr
      /\ d.pred = i.pred /\ d.done = i.done /\ d.drSs = i.drSs /\ d.drSt = i.drSt
      /\ d.exSs = p.ss /\ d.exSt = p.st /\ d.delta = p.delta
  BY <1>0, <1>3 DEF WithOperands, Decodings
<1>5. PreparedDirectly(d)
  BY <1>3, <1>4 DEF PreparedDirectly, StackControl
<1> QED BY <1>0, <1>3, <1>4, <1>5

\* What the invariant says of every instruction EX may hold.
LEMMA DirectInEX ==
  ASSUME IdealOrProxy, FrameInv, NEW i \in InEX
  PROVE  /\ i \in Decodings /\ i.op # "next" /\ i.pred /\ ~i.done
         /\ i.drSs = mw.exSs /\ i.drSt = mw.exSt
         /\ i.op \notin StackControl =>
              i.exSs = i.drSs /\ i.exSt = i.drSt /\ i.exSs = ss /\ i.exSt = st
         /\ Disciplined(i) /\ Pointers(i.drSs, i.drSt)
<1>1. /\ ex \in Decodings /\ ex.drSs \in Int /\ ex.drSt \in Int
      /\ DirectEX /\ Pointers(mw.exSs, mw.exSt)
  BY DEF FrameInv, DirectMW, PreparedDirectly, TypeOK, Decodings
<1>2. CASE ex.op # "next"
  BY <1>1, <1>2 DEF InEX, DirectEX
<1>3. CASE ex.op = "next"
  <2>1. PICK j \in StackInstructions :
          Issuable(j, ex.drSs, ex.drSt) /\ i = Decoded(j, ex.drSs, ex.drSt)
    BY <1>3 DEF InEX
  <2>2. /\ i \in Decodings /\ i.op = j.op /\ i.op # "next" /\ i.size = j.size
        /\ i.pred = j.pred /\ ~i.done
        /\ i.drSs = ex.drSs /\ i.drSt = ex.drSt /\ i.exSs = ex.drSs /\ i.exSt = ex.drSt
    BY <1>1, <2>1, DecodedFields
  <2>3. i.addr = j.addr
    BY <2>1 DEF Decoded
  <2>4. ss = ex.drSs /\ st = ex.drSt /\ ex.drSs = mw.exSs /\ ex.drSt = mw.exSt
    BY <1>1, <1>3 DEF DirectEX, StackControl
  <2>5. j.pred
    BY DEF StackInstructions, IdealOrProxy
  <2>6. Disciplined(i)
    BY <2>1, <2>2, <2>3 DEF Issuable, Disciplined, IdealOrProxy
  <2> QED BY <1>1, <2>1, <2>2, <2>4, <2>5, <2>6
<1> QED BY <1>2, <1>3

\* The move of the stages: the next instruction comes into MW, or a stalled one is
\* repeated, and the program sees nothing of it.
LEMMA DirectAdvance ==
  ASSUME IdealOrProxy, DirectInv, turn = "EX", ~fault, UNCHANGED <<nextLazy, evict, fault>>,
         NEW i \in Decodings, NEW sspill \in Int, NEW stop \in Int,
         Advance(i, sspill, stop),
         i.op # "next", i.pred, ~i.done, i.drSs = mw.exSs, i.drSt = mw.exSt,
         i.exSs = sspill, i.exSt = stop, PreparedDirectly(i), Disciplined(i)
  PROVE  DirectInv' /\ StackStep
<1>1. /\ stall' = FALSE /\ turn' = "MW" /\ ss' = sspill /\ st' = stop /\ loaded' = Undef
      /\ wait' = IF wait > 0 THEN wait - 1 ELSE wait
      /\ UNCHANGED <<content, phase, buffer, lazyPtr, proxyTop, mem, written>>
  BY DEF Advance
<1>2. wait' \in {NoRequest} \cup 0 .. MaxLatency
  BY <1>1, StackProgram DEF DirectInv, FrameInv, TypeOK, NoRequest
<1>3. FrameInv /\ WordsInv /\ phase = "IDLE" /\ Len(buffer) < 1
  BY DEF DirectInv, FrameInv
<1>4. /\ FrameInv' /\ ArchTop' = ArchTop /\ ArchSpill' = ArchSpill /\ mw'.exSs \in Int
  <2>1. CASE stall
    <3>1. mw' = mw /\ ex' = i /\ ifWait' \in 0 .. MaxFetch
      BY <2>1, StackProgram DEF Advance, DirectInv, FrameInv, TypeOK
    <3>2. TypeOK'
      BY <1>1, <1>2, <3>1 DEF DirectInv, FrameInv, TypeOK
    <3>3. DirectMW' /\ DirectTurn'
      BY <1>1, <3>1 DEF DirectInv, FrameInv, DirectMW, DirectTurn, PreparedDirectly, Pointers
    <3>4. DirectEX'
      BY <1>1, <3>1 DEF DirectEX, PreparedDirectly, Disciplined
    <3>5. ArchTop' = ArchTop /\ ArchSpill' = ArchSpill /\ mw'.exSs \in Int
      BY <1>1, <1>3, <3>1, DirectTypes DEF ArchTop, ArchSpill
    <3> QED BY <1>1, <1>3, <3>2, <3>3, <3>4, <3>5 DEF FrameInv
  <2>2. CASE ~stall
    <3>1. mw' = i /\ ex' = Upcoming(sspill, stop) /\ ifWait' \in 0 .. MaxFetch
      BY <2>2 DEF Advance
    <3>2. /\ ex' \in Decodings /\ ex'.op = "next" /\ ex'.pred /\ ~ex'.done
          /\ ex'.drSs = sspill /\ ex'.drSt = stop /\ ex'.exSs = sspill /\ ex'.exSt = stop
      BY <3>1, StackProgram DEF Upcoming, Decoded, Idle, Decodings, Sizes
    <3>3. TypeOK'
      BY <1>1, <1>2, <3>1, <3>2 DEF DirectInv, FrameInv, TypeOK
    <3>4. DirectEX'
      BY <1>1, <3>1, <3>2 DEF DirectEX, Disciplined
    <3>5. Pointers(mw.exSs, mw.exSt)
      BY <1>3 DEF FrameInv, DirectMW, PreparedDirectly
    <3>6. DirectMW'
      BY <3>1, <3>5 DEF DirectMW, PreparedDirectly, Pointers
    <3>7. DirectTurn'
      BY <1>1 DEF DirectTurn
    <3>8. mw.done \/ mw.op = "nop"
      BY <1>3, <2>2 DEF FrameInv, DirectTurn
    <3>9. ArchTop = mw.exSt /\ ArchSpill = mw.exSs
      BY <1>3, <3>8, PointersBefore
    <3>10. ArchTop' = i.drSt /\ ArchSpill' = i.drSs
      BY <1>1, <1>3, <3>1 DEF ArchTop, ArchSpill
    <3>11. mw'.exSs \in Int
      BY <3>1
    <3> QED BY <1>1, <1>3, <3>3, <3>4, <3>6, <3>7, <3>9, <3>10, <3>11 DEF FrameInv
  <2> QED BY <2>1, <2>2
<1>5. \A a \in written : WordAt(a)' = WordAt(a)
  <2> TAKE a \in written
  <2>1. /\ WordAt(a)' = Seen(content, ArchTop, buffer, mw'.exSs, mem, a)
        /\ WordAt(a) = Seen(content, ArchTop, buffer, mw.exSs, mem, a)
    BY <1>1, <1>4, WordAtSeen
  <2>2. /\ content \in Seq(Val) /\ buffer \in Seq(Val) /\ ArchTop \in Int
        /\ mw.exSs \in Int /\ a \in Int /\ a >= ArchTop
    BY <1>3, DirectTypes DEF WordsInv
  <2>3. PICK low \in Int : low = mw'.exSs
    BY <1>4
  <2>4. Seen(content, ArchTop, buffer, low, mem, a) =
          Seen(content, ArchTop, buffer, mw.exSs, mem, a)
    BY <1>3, <2>2, SeenAnyLow
  <2> QED BY <2>1, <2>3, <2>4
<1>6. Program!Consume
  <2>1. Promised' = Promised
    BY <1>1, <1>5 DEF Promised
  <2> QED BY <1>1, <1>4, <2>1 DEF Program!Consume
<1>7. WordsInv'
  BY <1>1, <1>3, <1>4, <1>5 DEF WordsInv, IdealWords, ProxyWords
<1> QED BY <1>4, <1>6, <1>7 DEF DirectInv, StackStep, Program!Next

\* EX of a stack control instruction moves ss and st, not the program's top.
LEMMA DirectControlEX ==
  ASSUME IdealOrProxy, DirectInv, StackControlEX
  PROVE  DirectInv' /\ StackStep
<1>1. PICK i \in InEX :
        /\ i.op \in StackControl /\ Prepare(i).ok
        /\ Advance(WithOperands(i), Prepare(i).ss, Prepare(i).st)
        /\ PrepareLazy(i)
  BY DEF StackControlEX, WithOperands
<1>2. /\ i \in Decodings /\ i.op # "next" /\ i.pred /\ ~i.done
      /\ i.drSs = mw.exSs /\ i.drSt = mw.exSt
      /\ Disciplined(i) /\ Pointers(i.drSs, i.drSt)
  BY DirectInEX DEF DirectInv
<1>3. PICK d, sspill, stop : /\ d = WithOperands(i)
                             /\ sspill = Prepare(i).ss /\ stop = Prepare(i).st
  OBVIOUS
<1>4. /\ sspill \in Int /\ stop \in Int
      /\ d \in Decodings /\ d.op = i.op /\ d.size = i.size /\ d.addr = i.addr
      /\ d.pred = i.pred /\ d.done = i.done /\ d.drSs = i.drSs /\ d.drSt = i.drSt
      /\ d.exSs = sspill /\ d.exSt = stop /\ PreparedDirectly(d)
  BY <1>1, <1>2, <1>3, DirectPrepared
<1>5. Advance(d, sspill, stop)
  BY <1>1, <1>3
<1>6. turn = "EX" /\ ~fault /\ UNCHANGED <<nextLazy, evict, fault>>
  BY <1>1 DEF StackControlEX, PrepareLazy, IdealOrProxy
<1>7. Disciplined(d)
  BY <1>2, <1>4 DEF Disciplined
<1> QED BY <1>2, <1>4, <1>5, <1>6, <1>7, DirectAdvance

\* Nor does EX of any other instruction.
LEMMA DirectOtherEX ==
  ASSUME IdealOrProxy, DirectInv, OtherEX
  PROVE  DirectInv' /\ StackStep
<1>1. PICK i \in InEX : i.op \notin StackControl /\ Advance(i, ss, st)
  BY DEF OtherEX
<1>2. /\ turn = "EX" /\ ~fault /\ UNCHANGED <<nextLazy, evict, fault>>
      /\ ss \in Int /\ st \in Int
  BY DEF OtherEX, DirectInv, FrameInv, TypeOK
<1>3. /\ i \in Decodings /\ i.op # "next" /\ i.pred /\ ~i.done
      /\ i.drSs = mw.exSs /\ i.drSt = mw.exSt
      /\ i.exSs = i.drSs /\ i.exSt = i.drSt /\ i.exSs = ss /\ i.exSt = st
      /\ Disciplined(i) /\ Pointers(i.drSs, i.drSt)
  BY <1>1, DirectInEX DEF DirectInv
<1>4. PreparedDirectly(i)
  BY <1>1, <1>3 DEF PreparedDirectly, Disciplined, StackControl
<1> QED BY <1>1, <1>2, <1>3, <1>4, DirectAdvance

-----------------------------------------------------------------------------
(***************************************************************************)
(* The results.                                                            *)
(***************************************************************************)
LEMMA DirectNext ==
  ASSUME IdealOrProxy, DirectInv, [Next]_vars
  PROVE  DirectInv' /\ StackStep
<1>1. CASE UNCHANGED vars \/ Ended
  BY <1>1, DirectQuiet DEF Ended
<1>2. CASE MWStep
  <2>1. CASE ReserveIdle \/ IdealEnsure
    BY <2>1, DirectReserve, DirectEnsure
  <2>2. CASE FreeWithoutFill \/ ProxyFree
    BY <2>2, IdealFree, ProxyFreeKeeps
  <2>3. CASE IdealSpill
    BY <2>3, DirectSpill
  <2>4. CASE Load \/ ProxyLoad
    BY <2>4, IdealLoad, ProxyLoadKeeps
  <2>5. CASE Store \/ ProxyStore
    BY <2>5, IdealStore, ProxyStoreKeeps
  <2>6. CASE ReserveUnderflows \/ FreeExceeds \/ AccessExceeds \/ NothingToDoInMW
    BY <2>6, DirectQuiet
  <2>7. ~(BlockEnsure \/ FreeWithFill \/ BlockSpill \/ SpillExceeds)
    BY DEF IdealOrProxy, BlockEnsure, FreeWithFill, BlockSpill, SpillExceeds
  <2>8. ~ReserveSpilling
    BY DEF ReserveSpilling, Executing, DirectInv, FrameInv
  <2> QED BY <1>2, <2>1, <2>2, <2>3, <2>4, <2>5, <2>6, <2>7, <2>8 DEF MWStep
<1>3. CASE EXStep
  BY <1>3, DirectControlEX, DirectQuiet, DirectOtherEX DEF EXStep
<1> QED BY <1>1, <1>2, <1>3 DEF Next

LEMMA DirectInvariance == ASSUME IdealOrProxy PROVE Spec => []DirectInv
<1>1. Init => DirectInv
  BY InitDirect
<1>2. DirectInv /\ [Next]_vars => DirectInv'
  BY DirectNext
<1> QED BY <1>1, <1>2, PTL DEF Spec

LEMMA DirectRefinesStack == ASSUME IdealOrProxy PROVE Spec => RefinesProgramStack
<1>1. Init => Program!Init
  BY InitKeeps
<1>2. DirectInv /\ [Next]_vars => StackStep
  BY DirectNext
<1> QED BY <1>1, <1>2, DirectInvariance, PTL DEF Spec, RefinesProgramStack, Program!Spec, StackStep

\* ideal_stack_cache_t implements the abstract stack: an ensure that reads memory
\* without simulated time finds there what the program stored, also where the
\* cache still holds the words, since a spill keeps them.
THEOREM IdealRefinesStack ==
  ASSUME IdealProgram PROVE Spec => RefinesProgramStack
<1>1. IdealOrProxy
  BY DEF IdealProgram, IdealOrProxy
<1> QED BY <1>1, DirectRefinesStack

\* proxy_stack_cache_t implements the abstract stack: the top it has noted in MW
\* is the program's whenever an access uses it, although st moved in EX before.
THEOREM ProxyRefinesStack ==
  ASSUME ProxyProgram PROVE Spec => RefinesProgramStack
<1>1. IdealOrProxy
  BY DEF ProxyProgram, IdealOrProxy
<1> QED BY <1>1, DirectRefinesStack

\* Type correctness of the pipeline with the ideal cache or the proxy.
THEOREM DirectTypeOK ==
  ASSUME IdealProgram \/ ProxyProgram PROVE Spec => []TypeOK
<1>1. IdealOrProxy
  BY DEF IdealProgram, ProxyProgram, IdealOrProxy
<1>2. DirectInv => TypeOK
  BY DEF DirectInv, FrameInv
<1> QED BY <1>1, <1>2, DirectInvariance, PTL

\* An access in MW finds its word: the ideal cache holds it, whatever has been
\* spilled and freed before, and the proxy has noted the top it counts from.
AccessServed ==
  ~mw.done /\ mw.op \in {"load", "store"} =>
    /\ Kind = "ideal" => mw.addr < Len(content)
    /\ Kind = "dcache" => proxyTop = mw.exSt

\* No load or store of a program that keeps within its pointers is refused by the
\* ideal cache ("beyond the current size of the stack cache"), and the proxy
\* sends none to a wrong address.
THEOREM DirectAccessServed ==
  ASSUME IdealProgram \/ ProxyProgram PROVE Spec => []AccessServed
<1>1. IdealOrProxy
  BY DEF IdealProgram, ProxyProgram, IdealOrProxy
<1>2. DirectInv => AccessServed
  <2> SUFFICES ASSUME DirectInv, ~mw.done, mw.op \in {"load", "store"}
               PROVE  /\ Kind = "ideal" => mw.addr < Len(content)
                      /\ Kind = "dcache" => proxyTop = mw.exSt
    BY DEF AccessServed
  <2>1. Kind = "ideal" => mw.addr < Len(content)
    BY <1>1, IdealAccessHeld
  <2>2. ASSUME Kind = "dcache" PROVE proxyTop = mw.exSt
    <3>1. proxyTop + mw.addr = mw.exSt + mw.addr
      BY <1>1, <2>2, ProxyAccess
    <3>2. proxyTop \in Int /\ mw.exSt \in Int /\ mw.addr \in Int
      BY DirectTypes DEF DirectInv
    <3>3. \A t, e, a \in Int : t + a = e + a => t = e
      OBVIOUS
    <3> QED BY <3>1, <3>2, <3>3
  <2> QED BY <2>1, <2>2
<1> QED BY <1>1, <1>2, DirectInvariance, PTL
=============================================================================
