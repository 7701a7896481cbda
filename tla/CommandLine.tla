----------------------------- MODULE CommandLine ------------------------------
(***************************************************************************)
(* The options of pasim (command-line.cc), how they are read and written,   *)
(* and the memories and caches that are built from them (pasim.cc).         *)
(*                                                                         *)
(* The text of an option is a word for an enumeration, a word with a number   *)
(* for the kind of a set-associative cache, a number with a unit for a size,  *)
(* and a number or a name for an address.  Reading a text gives the set of    *)
(* its values: none if it is refused.  Upper and lower case are the same.     *)
(***************************************************************************)
EXTENDS Integers, TLC

None == ""     \* no number, no unit, no name, no option

-----------------------------------------------------------------------------
(* Enumerations: each value with the word it is written as.                 *)

DebugFormat ==
  [DF_SHORT |-> "short", DF_TRACE |-> "trace", DF_INSTRUCTIONS |-> "instr",
   DF_BLOCKS |-> "blocks", DF_CALLS |-> "calls", DF_CALLS_INDENT |-> "calls-indent",
   DF_DEFAULT |-> "default", DF_LONG |-> "long", DF_ALL |-> "all"]
DebugCache == [DC_NONE |-> "none", DC_MISS |-> "miss", DC_ALL |-> "all"]
MemCheck ==
  [MCK_NONE |-> "none", MCK_WARN |-> "warn", MCK_ERROR |-> "err",
   MCK_WARN_ADDR |-> "warn-addr", MCK_ERROR_ADDR |-> "err-addr"]
InstrCache == [IC_MCACHE |-> "mcache", IC_ICACHE |-> "icache"]
MethodCacheKind == [MC_IDEAL |-> "ideal", MC_LRU |-> "lru", MC_FIFO |-> "fifo"]
StackCacheKind ==
  [SC_IDEAL |-> "ideal", SC_BLOCK |-> "block", SC_DCACHE |-> "dcache",
   SC_ABLOCK |-> "ablock", SC_LBLOCK |-> "lblock"]
MemoryKind ==
  [GM_SIMPLE |-> "simple", GM_RAMUL_DDR3 |-> "ddr3", GM_RAMUL_DDR4 |-> "ddr4",
   GM_RAMUL_LPDDR3 |-> "lpddr3", GM_RAMUL_LPDDR4 |-> "lpddr4"]
Policy ==
  [SAC_IDEAL |-> "ideal", SAC_NO |-> "no", SAC_DM |-> "dm", SAC_LRU |-> "lru",
   SAC_FIFO |-> "fifo"]

ReadWord(kind, word) == {v \in DOMAIN kind : kind[v] = word}

\* Two words have a longer form.
ReadMemCheck(word) ==
  ReadWord(MemCheck, CASE word = "error" -> "err"
                       [] word = "error-addr" -> "err-addr"
                       [] OTHER -> word)

-----------------------------------------------------------------------------
(* Set-associative caches: lru and fifo with no number are fully associative. *)

Ways == {1, 2, 4, 8, 16, 32, 64, 128, 256}
Replacing == {"SAC_LRU", "SAC_FIFO"}

ReadCache(text) ==
  {[policy |-> p,
    associativity |-> CASE p \notin Replacing -> 1
                        [] p \in Replacing /\ text.ways = 0 -> 0
                        [] OTHER -> text.ways] :
     p \in {q \in ReadWord(Policy, text.kind) :
              text.ways = 0 \/ (q \in Replacing /\ text.ways \in Ways)}}

\* Faulty: the number is left out.
WriteCachePlain(c) == [kind |-> Policy[c.policy], ways |-> 0]

WriteCache(c) ==
  [kind |-> Policy[c.policy],
   ways |-> IF c.policy \in Replacing THEN c.associativity ELSE 0]

-----------------------------------------------------------------------------
(* Sizes in bytes, of 32 bits, and addresses.                               *)

Units == (None :> 0) @@ ("k" :> 10) @@ ("kb" :> 10) @@ ("m" :> 20) @@ ("mb" :> 20)
           @@ ("g" :> 30) @@ ("gb" :> 30)

\* The shift drops the bits above the 32nd.
ReadSize(text) ==
  {(text.number % 2^(32 - s)) * 2^s : s \in {Units[u] : u \in DOMAIN Units \cap {text.unit}}
                                              \ {0}}
    \cup IF text.unit = None THEN {text.number} ELSE {}

\* Sizes of whole gigabytes are shifted by 10 only.
WriteSize(v) ==
  CASE v = 0            -> [number |-> 0, unit |-> None]
    [] v # 0 /\ v % 2^30 = 0 -> [number |-> v \div 2^10, unit |-> "g"]
    [] v % 2^30 # 0 /\ v % 2^20 = 0 -> [number |-> v \div 2^20, unit |-> "m"]
    [] v % 2^20 # 0 /\ v % 2^10 = 0 -> [number |-> v \div 2^10, unit |-> "k"]
    [] OTHER            -> [number |-> v, unit |-> None]

\* A name is resolved later.
ReadAddress(text) == {[value |-> text.number, symbol |-> text.name]}
WriteAddress(a) == [number |-> a.value, name |-> None]

-----------------------------------------------------------------------------
(* What is built.                                                          *)

\* Faulty: the last block is lost if it is not full.
BlocksRoundedDown(size, bytes) == size \div bytes

\* Faulty: for a size of 0 the remainder of 2^30 is forgotten.
BlocksOfZeroRoundedDown(size, bytes) ==
  IF size = 0 THEN 4 * (2^30 \div bytes) ELSE (size - 1) \div bytes + 1

\* (size - 1) / bytes + 1 in unsigned words.  For a size of 0 the difference wraps, and
\* the cache gets the whole address space; the quotient of 2^32 - 1 is taken in parts.
BlocksIn(size, bytes) ==
  IF size = 0 THEN 4 * (2^30 \div bytes) + (4 * (2^30 % bytes) - 1) \div bytes + 1
  ELSE (size - 1) \div bytes + 1

SetAssociative(c, size, line) ==
  LET blocks == BlocksIn(size, line)
      ways == IF c.associativity > 0 THEN c.associativity ELSE blocks
  IN
  CASE c.policy = "SAC_IDEAL" -> [kind |-> "ideal"]
    [] c.policy = "SAC_NO" -> [kind |-> "no"]
    [] OTHER -> [kind |-> IF c.policy = "SAC_FIFO" THEN "fifo" ELSE "lru",
                 ways |-> ways, sets |-> blocks \div ways, bytes |-> line,
                 even |-> blocks % ways = 0]

\* The kind of memory option is read, but not used.
GlobalMemory(o) ==
  [kind |-> CASE o.cores > 1 -> "tdm"
              [] o.cores = 1 /\ o.gtime = 0 /\ o.tdelay = 0 -> "ideal"
              [] o.cores = 1 /\ o.gtime + o.tdelay > 0 /\ o.psize = 0 -> "fixed"
              [] OTHER -> "variable",
   size |-> o.gsize, burst |-> o.bsize, page |-> o.psize,
   time |-> o.gtime, delay |-> o.tdelay, cores |-> o.cores]

LineSize(asked, o) == IF asked # 0 THEN asked ELSE o.bsize

MethodCacheOf(o) ==
  [kind |-> MethodCacheKind[o.mckind], blocks |-> BlocksIn(o.mcsize, o.mbsize),
   bytes |-> o.mbsize,
   methods |-> IF o.mcmethods = 0 THEN BlocksIn(o.mcsize, o.mbsize) ELSE o.mcmethods]

InstrCacheOf(o) ==
  [cache |-> IF o.icache = "IC_MCACHE" THEN MethodCacheOf(o)
             ELSE SetAssociative(o.ickind, o.mcsize, LineSize(o.ilsize, o)),
   spm |-> o.ispmsize]

DataCacheOf(o) == SetAssociative(o.dckind, o.dcsize, LineSize(o.dlsize, o))

StackCacheOf(o) ==
  LET bytes == IF o.sckind = "SC_ABLOCK" THEN o.bsize ELSE 4 IN
  IF o.sckind \in {"SC_IDEAL", "SC_DCACHE"} THEN [kind |-> o.sckind]
  ELSE [kind |-> o.sckind, blocks |-> BlocksIn(o.scsize, bytes), bytes |-> bytes]

System(o) ==
  [memory |-> GlobalMemory(o), instr |-> InstrCacheOf(o), data |-> DataCacheOf(o),
   stack |-> StackCacheOf(o)]

\* What stops it: no core, or sets that do not divide the blocks.
CannotBuild(o) ==
  \/ o.cores = 0
  \/ LET caches == {DataCacheOf(o)} \cup {InstrCacheOf(o).cache} IN
     \E c \in caches : c.kind \in {"lru", "fifo"} /\ "ways" \in DOMAIN c /\ ~ c.even
=============================================================================
