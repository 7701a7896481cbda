------------------------------ MODULE DataCache -------------------------------
(***************************************************************************)
(* The data cache (data-cache.cc), and the instruction cache built from a   *)
(* data cache (instr-cache.cc, with instr-spm.cc in front), accessed as the *)
(* pipeline does: in every cycle IF fetches the words of an instruction,    *)
(* and MW repeats its load or store until it is answered.                   *)
(*                                                                         *)
(* A cache keeps only tags: its data is read from memory when the access is *)
(* answered.  The two caches have one memory, which finds a request by      *)
(* address, size and direction, and answers it when it likes.               *)
(***************************************************************************)
EXTENDS Naturals, SequencesExt

CONSTANTS
  Systems,        \* the kinds of caches, see SystemType
  BlockWords, NumBlocks, Associativity, NumIndexes,
  Slots,          \* NUM_SLOTS
  Counters,       \* addresses of instructions
  Loads, Stores,  \* the accesses of MW
  FlushData, FlushInstr,   \* the cache control writes of MW
  SpmWords,       \* the size of the instruction scratchpad
  Val, Zero, NoAccess, NoResult

Blocks == 0 .. NumBlocks - 1
Addr == 0 .. NumBlocks * BlockWords - 1
Port == {"IF", "MW"}
SystemType == [Port -> {"ideal", "none", "lru", "fifo"}]

Transfers == Loads \cup Stores
Flushes == {FlushData, FlushInstr}

Words(a) == a.addr .. a.addr + a.size - 1

ASSUME CacheAssumption ==
  /\ Systems \subseteq SystemType
  /\ {BlockWords, NumBlocks, Associativity, NumIndexes, Slots} \subseteq Nat \ {0}
  /\ SpmWords \in Nat
  /\ Zero \in Val
  /\ Counters \subseteq Nat
  /\ \A first \in Counters : first .. first + Slots - 1 \subseteq Addr
  \* get_block_address asserts that an access stays in its block
  /\ \A a \in Transfers :
       /\ a.addr \in Addr /\ Words(a) \subseteq Addr /\ a.val \in Val
       /\ a.addr \div BlockWords = (a.addr + a.size - 1) \div BlockWords
  /\ \A a \in Loads : a.load
  /\ \A a \in Stores : ~ a.load
  /\ Flushes \cap Transfers = {}
  /\ NoAccess \notin Transfers \cup Flushes
  /\ NoAccess \notin [addr : Nat, size : Nat, load : BOOLEAN, val : Val]

VARIABLES
  system,      \* the kind of cache each port was started with
  turn,        \* whose call comes next, or the end of the cycle
  stall,       \* the pipeline stalls in this cycle
  pc, wordsFetched, disableIF,   \* PC, Fetched, Disable_IF
  access,      \* the access MW still has to make
  tags,        \* Content of each cache: for every index its valid tags in order
  requests,    \* Requests of the memory
  mem,         \* Content of the memory
  result,      \* the words a read answered in this step returned
  since        \* history, see SinceUse

cacheVars == <<tags, since>>
cachesVars ==
  <<system, turn, stall, pc, wordsFetched, disableIF, access, tags, requests, mem,
    result, since>>

-----------------------------------------------------------------------------
(* The tags.                                                               *)

Associative(p) == system[p] \in {"lru", "fifo"}

Block(a) == a.addr \div BlockWords
Index(b) == b % NumIndexes
TagsAt(p, b) == tags[p][Index(b)]
Hit(p, a) == Block(a) \in ToSet(TagsAt(p, Block(a)))

\* Faulty: a hit moves all tags, as a miss does.
LastChangedAll(q, b, hit) == IF Len(q) < Associativity THEN Len(q) + 1 ELSE Associativity

\* last_index_changed, counted from 1.
LastChanged(q, b, hit) ==
  IF hit THEN CHOOSE k \in 1 .. Len(q) : q[k] = b
  ELSE IF Len(q) < Associativity THEN Len(q) + 1 ELSE Associativity

\* b becomes the first; the tags before the last that changes move back.
Shifted(q, b, last) ==
  [k \in 1 .. (IF last > Len(q) THEN last ELSE Len(q)) |->
     IF k = 1 THEN b ELSE IF k <= last THEN q[k - 1] ELSE q[k]]

\* A FIFO cache moves nothing on a hit.
Touched(p, b, hit) ==
  IF hit /\ system[p] = "fifo" THEN tags
  ELSE [tags EXCEPT ![p][Index(b)] = Shifted(@, b, LastChanged(@, b, hit))]

\* For every block what other blocks of its index have been used since it was
\* used last (LRU) or loaded since it was loaded last (FIFO); itself when it never
\* was since the cache was flushed.
SinceUse(p, b, hit) ==
  IF hit /\ system[p] = "fifo" THEN since
  ELSE [since EXCEPT ![p] =
          [c \in Blocks |-> IF c = b THEN {}
                            ELSE IF Index(c) = Index(b) THEN @[c] \cup {b}
                            ELSE @[c]]]

-----------------------------------------------------------------------------
(* Calls of the memory: a request is made by the first call that names it,  *)
(* and taken away by the call that is answered.                             *)

BlockRequest(b, load) == [addr |-> b * BlockWords, size |-> BlockWords, load |-> load]
Request(a) == [addr |-> a.addr, size |-> a.size, load |-> a.load]

Answered(r) == requests' = requests \ {r}
NotAnswered(r) == requests' = requests \cup {r}

ReadPeek(a) == [x \in Words(a) |-> mem[x]]
WritePeek(a) == [x \in Addr |-> IF x \in Words(a) THEN a.val ELSE mem[x]]

-----------------------------------------------------------------------------
(* read and write of the data caches for port p.                           *)

\* ideal_data_cache_t
IdealRead(p, a) ==
  /\ system[p] = "ideal"
  /\ result' = ReadPeek(a)
  /\ UNCHANGED <<cacheVars, requests>>

\* no_data_cache_t
PlainRead(p, a) ==
  /\ system[p] = "none"
  /\ Answered(Request(a))
  /\ result' = ReadPeek(a)
  /\ UNCHANGED cacheVars

\* set_assoc_data_cache_t
ReadHit(p, a) ==
  /\ Associative(p) /\ Hit(p, a)
  /\ tags' = Touched(p, Block(a), TRUE)
  /\ since' = SinceUse(p, Block(a), TRUE)
  /\ result' = ReadPeek(a)
  /\ UNCHANGED requests

ReadMiss(p, a) ==
  /\ Associative(p) /\ ~ Hit(p, a)
  /\ Answered(BlockRequest(Block(a), TRUE))
  /\ tags' = Touched(p, Block(a), FALSE)
  /\ since' = SinceUse(p, Block(a), FALSE)
  /\ result' = ReadPeek(a)

Read(p, a) == IdealRead(p, a) \/ PlainRead(p, a) \/ ReadHit(p, a) \/ ReadMiss(p, a)

ReadWaits(p, a) ==
  /\ system[p] # "ideal" /\ ~ (Associative(p) /\ Hit(p, a))
  /\ NotAnswered(IF Associative(p) THEN BlockRequest(Block(a), TRUE) ELSE Request(a))
  /\ result' = NoResult
  /\ UNCHANGED cacheVars

WriteRequest(a) == IF Associative("MW") THEN BlockRequest(Block(a), FALSE) ELSE Request(a)

\* Faulty: the block that is written back is the one read before the store.
WriteBlockOnly(a) ==
  /\ IF system["MW"] = "ideal" THEN UNCHANGED requests ELSE Answered(WriteRequest(a))
  /\ mem' = IF Associative("MW") THEN mem ELSE WritePeek(a)
  /\ result' = NoResult
  /\ UNCHANGED cacheVars

\* A store through an associative cache writes the block as it is and then the
\* value; the tags stay as they are.
Write(a) ==
  /\ IF system["MW"] = "ideal" THEN UNCHANGED requests ELSE Answered(WriteRequest(a))
  /\ mem' = WritePeek(a)
  /\ result' = NoResult
  /\ UNCHANGED cacheVars

WriteWaits(a) ==
  /\ system["MW"] # "ideal"
  /\ NotAnswered(WriteRequest(a))
  /\ result' = NoResult
  /\ UNCHANGED <<cacheVars, mem>>

-----------------------------------------------------------------------------
(* IF: no_instr_cache_t::fetch through the wrapper, or the scratchpad.       *)

FetchAccess == [addr |-> pc + wordsFetched, size |-> 1, load |-> TRUE, val |-> Zero]
SpmAccess == [addr |-> pc, size |-> Slots, load |-> TRUE, val |-> Zero]

FetchDone == wordsFetched' = 0 /\ disableIF' = TRUE /\ turn' = "MW"

\* The words of a bundle that starts in the scratchpad are all read at once.
FetchSpm ==
  /\ turn = "IF" /\ ~ disableIF /\ pc < SpmWords
  /\ result' = ReadPeek(SpmAccess)
  /\ FetchDone
  /\ UNCHANGED <<system, stall, pc, access, cacheVars, requests, mem>>

FetchWord ==
  /\ turn = "IF" /\ ~ disableIF /\ pc >= SpmWords
  /\ Read("IF", FetchAccess)
  /\ IF wordsFetched + 1 = Slots THEN FetchDone
     ELSE wordsFetched' = wordsFetched + 1 /\ UNCHANGED <<disableIF, turn>>
  /\ UNCHANGED <<system, stall, pc, access, mem>>

FetchWaits ==
  /\ turn = "IF" /\ ~ disableIF /\ pc >= SpmWords
  /\ ReadWaits("IF", FetchAccess)
  /\ stall' = TRUE
  /\ turn' = "MW"
  /\ UNCHANGED <<system, pc, wordsFetched, disableIF, access, mem>>

NoFetch ==
  /\ turn = "IF" /\ disableIF
  /\ turn' = "MW"
  /\ result' = NoResult
  /\ UNCHANGED <<system, stall, pc, wordsFetched, disableIF, access, cacheVars, requests, mem>>

(* MW.                                                                     *)

AccessDone ==
  /\ turn = "MW" /\ access \in Transfers
  /\ \/ access.load /\ Read("MW", access) /\ UNCHANGED mem
     \/ ~ access.load /\ Write(access)
  /\ access' = NoAccess
  /\ turn' = "end"
  /\ UNCHANGED <<system, stall, pc, wordsFetched, disableIF>>

AccessWaits ==
  /\ turn = "MW" /\ access \in Transfers
  /\ \/ access.load /\ ReadWaits("MW", access) /\ UNCHANGED mem
     \/ ~ access.load /\ WriteWaits(access)
  /\ stall' = TRUE
  /\ turn' = "end"
  /\ UNCHANGED <<system, pc, wordsFetched, disableIF, access>>

NoAccessInMW ==
  /\ turn = "MW" /\ access = NoAccess
  /\ turn' = "end"
  /\ result' = NoResult
  /\ UNCHANGED <<system, stall, pc, wordsFetched, disableIF, access, cacheVars, requests, mem>>

-----------------------------------------------------------------------------
(* Flushing.                                                               *)

Empty == [i \in 0 .. NumIndexes - 1 |-> <<>>]
NeverUsed == [b \in Blocks |-> {c \in Blocks : Index(c) = Index(b)}]

\* flush_cache of the caches of these ports.
Flush(caches) ==
  /\ tags' = [p \in Port |-> IF p \in caches THEN Empty ELSE tags[p]]
  /\ since' = [p \in Port |-> IF p \in caches THEN NeverUsed ELSE since[p]]

\* A write to the cache control register, at once and even while IF waits.
FlushMW ==
  /\ turn = "MW" /\ access \in Flushes
  /\ Flush(IF access = FlushData THEN {"MW"} ELSE {"IF"})
  /\ access' = NoAccess
  /\ turn' = "end"
  /\ result' = NoResult
  /\ UNCHANGED <<system, stall, pc, wordsFetched, disableIF, requests, mem>>

-----------------------------------------------------------------------------
(* The end of a cycle.                                                     *)

\* The next instruction is fetched; flush_caches, when it is at the address to
\* flush at.
EndCycle ==
  /\ turn = "end"
  /\ IF stall THEN UNCHANGED <<pc, access, disableIF, cacheVars>>
     ELSE /\ pc' \in Counters
          /\ access' \in Transfers \cup Flushes \cup {NoAccess}
          /\ disableIF' = FALSE
          /\ UNCHANGED cacheVars \/ Flush(Port)
  /\ turn' = "IF" /\ stall' = FALSE
  /\ result' = NoResult
  /\ UNCHANGED <<system, wordsFetched, requests, mem>>

CachesInit ==
  /\ system \in Systems
  /\ turn = "IF" /\ stall = FALSE
  /\ pc \in Counters /\ wordsFetched = 0 /\ disableIF = FALSE
  /\ access = NoAccess
  /\ tags = [p \in Port |-> Empty]
  /\ since = [p \in Port |-> NeverUsed]
  /\ requests = {}
  /\ mem = [a \in Addr |-> Zero]
  /\ result = NoResult

CachesNext == FetchSpm \/ FetchWord \/ FetchWaits \/ NoFetch
          \/ AccessDone \/ AccessWaits \/ NoAccessInMW \/ FlushMW \/ EndCycle

CachesSpec == CachesInit /\ [][CachesNext]_cachesVars

-----------------------------------------------------------------------------
(* Properties.                                                             *)

Pending ==
  [p \in Port |->
     IF p = "MW" THEN IF access \in Transfers THEN access ELSE NoAccess
     ELSE IF disableIF THEN NoAccess
     ELSE IF pc < SpmWords THEN SpmAccess ELSE FetchAccess]

Promise == INSTANCE ProgramMemory WITH pending <- Pending

\* A cache holds a block exactly if fewer than Associativity other blocks of its
\* index were used (LRU) or loaded (FIFO) since, whatever
\* misses overlapped and whenever it was flushed.
DataHoldsMostRecent ==
  \A p \in Port : Associative(p) =>
    \A b \in Blocks :
      b \in ToSet(TagsAt(p, b)) <=>
        LET s == since[p][b] IN b \notin s /\ Cardinality(s) < Associativity

\* Every load and fetch gets the words the memory holds, and every store changes
\* its own words only, once, although it writes the whole block.
DataRefinesProgramMemory == Promise!Spec
=============================================================================
