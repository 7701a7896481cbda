----------------------------- MODULE MainMemory ------------------------------
(***************************************************************************)
(* Main memory and its request queue (src/memory.cc), accessed the way the *)
(* pipeline does: in every cycle the fetch stage asks for the words of the *)
(* next instruction (no_instr_cache_t), the MW stage repeats the access of *)
(* its instruction until it is answered (a load or store past the data     *)
(* cache, a spill or fill, a method), and then a tick passes.              *)
(*                                                                         *)
(* An access names no requester: the memory finds its request by address,  *)
(* size and direction.                                                     *)
(*                                                                         *)
(* Kind is the class of memory: fixed (fixed_delay_memory_t), variable     *)
(* (variable_burst_memory_t) or tdm (tdm_memory_t).                        *)
(***************************************************************************)
EXTENDS MemoryTiming, Sequences, FiniteSets

CONSTANTS
  Kind,           \* which memory is simulated
  Posted,         \* Num_posted_writes, the option --posted
  Slots,          \* NUM_SLOTS: words fetched at a time
  Counters,       \* addresses instructions are fetched from
  DataAccesses,   \* the accesses instructions make in MW
  MaxAddr,        \* bound: highest word address
  Val, Zero,      \* values of a word; what memory starts with
  InCache,        \* an instruction the instruction cache holds
  NoAccess, NoResult

Addr == 0 .. MaxAddr

Accesses == [addr : Addr, size : Nat \ {0}, load : BOOLEAN, val : Val]

ASSUME MemoryProgram ==
  /\ Kind \in {"fixed", "variable", "tdm"}
  \* the constructor of tdm_memory_t aborts otherwise
  /\ Kind = "tdm" => TicksPerBurst + ReadDelay < RoundLength
  /\ Posted \in Nat /\ Slots \in Nat \ {0} /\ MaxAddr \in Nat
  /\ Zero \in Val /\ NoAccess \notin Accesses
  /\ InCache \notin Counters
  /\ \A counter \in Counters : counter \in Nat /\ counter + Slots - 1 <= MaxAddr
  /\ DataAccesses \subseteq Accesses
  /\ \A access \in DataAccesses : access.addr + access.size - 1 <= MaxAddr

Port == {"IF", "MW"}

VARIABLES
  turn,          \* whose call comes next: "IF", "MW", or the "tick"
  pc,            \* PC, or InCache
  fetched,       \* Fetched
  disableIF,     \* Disable_IF
  access,        \* the access the MW instruction still has to make
  stall,         \* the pipeline stalls in this cycle
  requests,      \* Requests
  roundCounter, transferring,   \* Round_counter, Is_Transferring
  mem,           \* Content
  result,        \* the words a read answered in this step returned
  due            \* history: cycles until a waiting access should be answered

pipeVars == <<pc, fetched, disableIF, access>>
tdmVars == <<roundCounter, transferring>>
vars == <<turn, pc, fetched, disableIF, access, stall, requests, roundCounter,
          transferring, mem, result, due>>

NotWaiting == -1

-----------------------------------------------------------------------------
(***************************************************************************)
(* Requests.                                                               *)
(***************************************************************************)
Matches(request, a) ==
  request.addr = a.addr /\ request.size = a.size /\ request.load = a.load

\* get_transfer_ticks
TransferTicks(a, posted) ==
  CASE Kind = "fixed"    -> FixedTicks(a.addr, a.size, a.load, posted)
    [] Kind = "variable" -> VariableTicks(a.addr, a.size, a.load, posted)
    [] Kind = "tdm"      -> TDMTicks(a.addr, a.size)

\* write() passes its flag for posted writes as is_fetch, the parameter before
\* is_posted: no request is ever a posted one.
NewRequest(a) ==
  [addr |-> a.addr, size |-> a.size, load |-> a.load, posted |-> FALSE,
   ticks |-> TransferTicks(a, FALSE)]

Matching(a) == {i \in 1 .. Len(requests) : Matches(requests[i], a)}

\* find_or_create_request
Found(a) == IF Matching(a) = {} THEN Append(requests, NewRequest(a)) ELSE requests

First(a) ==
  IF Matching(a) = {} THEN Len(requests) + 1
  ELSE CHOOSE i \in Matching(a) : \A j \in Matching(a) : i <= j

Finished(a) == Found(a)[First(a)].ticks = 0

\* Faulty: the last request is erased.
WithoutLast(queue) == SubSeq(queue, 1, Len(queue) - 1)

WithoutFirst(queue) == Tail(queue)   \* Requests.erase(Requests.begin())

\* Faulty: one word is written.
WrittenFirst(a) == [mem EXCEPT ![a.addr] = a.val]

Words(a) == a.addr .. a.addr + a.size - 1

Written(a) == [x \in Addr |-> IF x \in Words(a) THEN a.val ELSE mem[x]]

-----------------------------------------------------------------------------
(***************************************************************************)
(* The duration of an access as the README of the simulator gives it, for  *)
(* the clock of the port that makes the access: the requests found in the  *)
(* queue are finished first.                                               *)
(***************************************************************************)
BurstsOf(a) == {x \div BurstSize : x \in Words(a)}
WordsTransferred(a) == UNION {b * BurstSize .. (b + 1) * BurstSize - 1 : b \in BurstsOf(a)}
PagesOf(a) == {x \div PageSize : x \in WordsTransferred(a)}

\* t_REQ of the fixed delay and of the variable burst memory.
RequestTime(a) ==
  CASE Kind = "fixed" -> ReadDelay + Cardinality(BurstsOf(a)) * TicksPerBurst
    [] Kind = "variable" ->
         ReadDelay + Cardinality(PagesOf(a)) * TicksPerBurst
           + Cardinality(WordsTransferred(a)) - Cardinality(PagesOf(a)) * BurstSize

\* Ticks, or rounds, of the request an access finds before it.
Earlier == IF requests = <<>> THEN 0 ELSE requests[1].ticks

\* t_Wait, the ticks until the next slot of this core begins.
WaitForSlot == ((RoundStart - roundCounter - 1) % RoundLength) + 1

\* t_REQ of the TDM memory for n bursts.
RoundsTime(n, wait) == wait + (n - 1) * RoundLength + ReadDelay + TicksPerBurst

\* One burst of the request before may be under way when the access is made.
Duration(a) ==
  IF Kind # "tdm" THEN Earlier + RequestTime(a)
  ELSE RoundsTime(Earlier - (IF transferring THEN 1 ELSE 0) + Cardinality(BurstsOf(a)),
                  WaitForSlot)

\* The clock of port p's access when the access is answered, or not yet.
Answered(p) == due' = [due EXCEPT ![p] = NotWaiting]

Unanswered(p, a) ==
  due' = [due EXCEPT ![p] = IF @ # NotWaiting THEN @ ELSE Duration(a)]

-----------------------------------------------------------------------------
(***************************************************************************)
(* read and write: one call of port p.                                     *)
(***************************************************************************)
ReadReady(p, a) ==
  /\ a.load /\ Finished(a)
  /\ requests' = WithoutFirst(Found(a))
  /\ result' = [x \in Words(a) |-> mem[x]]
  /\ mem' = mem
  /\ Answered(p)

WriteReady(p, a) ==
  /\ ~a.load /\ Finished(a)
  /\ requests' = WithoutFirst(Found(a))
  /\ mem' = Written(a)
  /\ result' = NoResult
  /\ Answered(p)

\* A posted write is answered while the queue is short; nothing is written.
WritePosted(p, a) ==
  /\ ~a.load /\ ~Finished(a)
  /\ Posted > 0 /\ Len(Found(a)) <= Posted
  /\ requests' = Found(a)
  /\ mem' = mem
  /\ result' = NoResult
  /\ Answered(p)

NotReady(p, a) ==
  /\ ~Finished(a)
  /\ a.load \/ Posted = 0 \/ Len(Found(a)) > Posted
  /\ requests' = Found(a)
  /\ mem' = mem
  /\ result' = NoResult
  /\ Unanswered(p, a)

Ready(p, a) == ReadReady(p, a) \/ WriteReady(p, a) \/ WritePosted(p, a)

-----------------------------------------------------------------------------
(***************************************************************************)
(* The fetch stage: no_instr_cache_t::fetch reads the words of an          *)
(* instruction one after the other, and keeps those it has.                *)
(***************************************************************************)
FetchAccess == [addr |-> pc + fetched, size |-> 1, load |-> TRUE, val |-> Zero]

\* Faulty: the words counted are not reset for the next instruction.
FetchWordKeepsCount ==
  /\ turn = "IF" /\ ~disableIF /\ pc # InCache
  /\ Ready("IF", FetchAccess)
  /\ fetched' = fetched + 1
  /\ IF fetched' < Slots THEN disableIF' = FALSE /\ turn' = "IF"
                         ELSE disableIF' = TRUE /\ turn' = "MW"
  /\ UNCHANGED <<pc, access, stall, tdmVars>>

FetchWord ==
  /\ turn = "IF" /\ ~disableIF /\ pc # InCache
  /\ Ready("IF", FetchAccess)
  /\ IF fetched + 1 < Slots
     THEN fetched' = fetched + 1 /\ disableIF' = FALSE /\ turn' = "IF"
     ELSE fetched' = 0 /\ disableIF' = TRUE /\ turn' = "MW"
  /\ UNCHANGED <<pc, access, stall, tdmVars>>

FetchStalls ==
  /\ turn = "IF" /\ ~disableIF /\ pc # InCache
  /\ NotReady("IF", FetchAccess)
  /\ stall' = TRUE
  /\ turn' = "MW"
  /\ UNCHANGED <<pipeVars, tdmVars>>

\* The fetch has its words already, or finds them in the cache.
NoFetch ==
  /\ turn = "IF" /\ (disableIF \/ pc = InCache)
  /\ disableIF' = TRUE
  /\ turn' = "MW"
  /\ result' = NoResult
  /\ UNCHANGED <<pc, fetched, access, stall, requests, tdmVars, mem, due>>

(***************************************************************************)
(* The MW stage.                                                           *)
(***************************************************************************)
AccessDone ==
  /\ turn = "MW" /\ access # NoAccess
  /\ Ready("MW", access)
  /\ access' = NoAccess
  /\ turn' = "tick"
  /\ UNCHANGED <<pc, fetched, disableIF, stall, tdmVars>>

AccessStalls ==
  /\ turn = "MW" /\ access # NoAccess
  /\ NotReady("MW", access)
  /\ stall' = TRUE
  /\ turn' = "tick"
  /\ UNCHANGED <<pipeVars, tdmVars>>

NoAccessInMW ==
  /\ turn = "MW" /\ access = NoAccess
  /\ turn' = "tick"
  /\ result' = NoResult
  /\ UNCHANGED <<pipeVars, stall, requests, tdmVars, mem, due>>

-----------------------------------------------------------------------------
(***************************************************************************)
(* The end of a cycle.  Unless the pipeline stalls, the instruction in MW  *)
(* leaves it and the fetch of another one begins.                          *)
(***************************************************************************)
\* Faulty: the next fetch begins while MW stalls.
MovePipelineEnablesIF ==
  /\ disableIF' = FALSE
  /\ IF stall THEN pc' = pc /\ access' = access
     ELSE pc' \in Counters \cup {InCache} /\ access' \in DataAccesses \cup {NoAccess}

MovePipeline ==
  IF stall THEN pc' = pc /\ access' = access /\ disableIF' = disableIF
  ELSE /\ pc' \in Counters \cup {InCache}
       /\ access' \in DataAccesses \cup {NoAccess}
       /\ disableIF' = FALSE

\* Faulty: every request of the queue makes progress.
TickWholeQueue(ticks) ==
  requests' = [i \in 1 .. Len(requests) |->
                 [requests[i] EXCEPT !.ticks = IF @ = 0 THEN 0 ELSE @ - 1]]

\* fixed_delay_memory_t::tick, with the ticks of the first request as
\* tick_request leaves them; a posted request that is finished is erased.
TickQueue(ticks) ==
  IF requests = <<>> \/ requests[1].ticks = 0 THEN requests' = requests
  ELSE IF ticks = 0 /\ requests[1].posted THEN requests' = Tail(requests)
  ELSE requests' = [requests EXCEPT ![1].ticks = ticks]

TickFixed ==
  /\ Kind # "tdm"
  /\ TickQueue(IF requests = <<>> THEN 0 ELSE requests[1].ticks - 1)
  /\ UNCHANGED tdmVars

TickTDM ==
  LET counter == (roundCounter + 1) % RoundLength
      started == IF counter = RoundStart THEN requests # <<>> ELSE transferring
      completes == /\ requests # <<>> /\ requests[1].ticks > 0
                   /\ counter = RoundEnd(requests[1].posted)
                   /\ started
  IN  /\ Kind = "tdm"
      /\ roundCounter' = counter
      /\ IF completes
         THEN TickQueue(requests[1].ticks - 1) /\ transferring' = FALSE
         ELSE requests' = requests /\ transferring' = started

Tick ==
  /\ turn = "tick"
  /\ TickFixed \/ TickTDM
  /\ MovePipeline
  /\ turn' = "IF" /\ stall' = FALSE
  /\ result' = NoResult
  /\ due' = [p \in Port |-> IF due[p] > 0 THEN due[p] - 1 ELSE due[p]]
  /\ UNCHANGED <<fetched, mem>>

-----------------------------------------------------------------------------
Init ==
  /\ turn = "IF" /\ stall = FALSE
  /\ pc \in Counters /\ fetched = 0 /\ disableIF = FALSE
  /\ access = NoAccess
  /\ requests = <<>>
  /\ roundCounter = 0 /\ transferring = FALSE
  /\ mem = [a \in Addr |-> Zero]
  /\ result = NoResult
  /\ due = [p \in Port |-> NotWaiting]

FetchStage == FetchWord \/ FetchStalls \/ NoFetch
MWStage == AccessDone \/ AccessStalls \/ NoAccessInMW

Next == FetchStage \/ MWStage \/ Tick

Spec == Init /\ [][Next]_vars

\* simulator_t::run calls the stages and the tick in every cycle.
FairSpec == Spec /\ WF_vars(Next)

-----------------------------------------------------------------------------
(***************************************************************************)
(* What the ports wait for.                                                *)
(***************************************************************************)
Pending == [p \in Port |-> CASE p = "IF" -> IF disableIF \/ pc = InCache THEN NoAccess ELSE FetchAccess
                             [] p = "MW" -> access]

Promise == INSTANCE ProgramMemory WITH pending <- Pending

\* The program does not read its own instructions as data.
CodeApart ==
  \A pc1 \in Counters, a \in DataAccesses :
    Words(a) \cap (pc1 .. pc1 + Slots - 1) = {}

-----------------------------------------------------------------------------
(***************************************************************************)
(* Properties.                                                             *)
(***************************************************************************)
\* Every variable has the type of the field of the simulator it stands for.
TypeOK ==
  /\ turn \in {"IF", "MW", "tick"}
  /\ pc \in Counters \cup {InCache} /\ fetched \in 0 .. Slots - 1 /\ disableIF \in BOOLEAN
  /\ access \in DataAccesses \cup {NoAccess}
  /\ stall \in BOOLEAN
  /\ requests \in Seq([addr : Addr, size : Nat \ {0}, load : BOOLEAN,
                       posted : BOOLEAN, ticks : Nat])
  /\ roundCounter \in Nat /\ (Kind = "tdm" => roundCounter < RoundLength)
  /\ transferring \in BOOLEAN
  /\ mem \in [Addr -> Val]
  /\ due \in [Port -> Int]

\* "assert(tmp.Address == req.Address && ...)": the request read() and write()
\* find finished is the first of the queue, the one they erase.
FinishedIsFirst ==
  \A i \in 1 .. Len(requests) : requests[i].ticks = 0 => i = 1

\* Every request in the queue is one a port still waits for, and no two are
\* the same port's: the pipeline never abandons an access, so no finished
\* request stays at the head of the queue and blocks it.
NoOrphans ==
  /\ \A i \in 1 .. Len(requests) : \E p \in Port :
       Pending[p] # NoAccess /\ Matches(requests[i], Pending[p])
  /\ \A i, j \in 1 .. Len(requests) :
       requests[i].addr = requests[j].addr /\ requests[i].size = requests[j].size
         /\ requests[i].load = requests[j].load => i = j

\* "A read or non-posted write request consisting of n bursts takes ..." (the
\* README of the simulator): an access is answered exactly when the requests
\* before it and its own are through, neither before nor after.
AnswersOnTime ==
  \A p \in Port : due[p] # NotWaiting => (due'[p] = NotWaiting <=> turn = p /\ due[p] = 0)
AnsweredOnTime == [][AnswersOnTime]_vars

\* "A core must wait t_Wait < t_Round cycles for its TDM slot" (the README of the
\* simulator): an access that finds no other request is answered before its bursts
\* and a wait of a whole round are over.  due is the time to the answer
\* (AnswersOnTime).
WaitsBelowRound ==
  [][\A p \in Port :
       requests = <<>> /\ due[p] = NotWaiting /\ due'[p] # NotWaiting =>
         due'[p] < RoundsTime(requests'[1].ticks, RoundLength)]_vars

\* "Overlapping transfers are not supported": when this core's slot begins, its
\* previous transfer is over.
NoOverlap ==
  turn = "tick" /\ (roundCounter + 1) % RoundLength = RoundStart => ~transferring

\* Main memory answers each access once and changes what the access says.
RefinesProgramMemory == Promise!Spec

\* No access, and no fetch, is left waiting for ever: again and again a cycle answers both.
AccessesAnswered == []<>(access = NoAccess /\ disableIF)
=============================================================================
