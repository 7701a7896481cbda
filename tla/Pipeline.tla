------------------------------- MODULE Pipeline -------------------------------
(***************************************************************************)
(* The pipeline of simulator_t (simulation-core.cc) with the control-flow   *)
(* instructions (instructions.h) and the exception unit: fetching, stalls,  *)
(* delay slots, flushing, interrupts, traps and halting.                    *)
(*                                                                         *)
(* A cycle is the four steps of simulator_t::run in their order: IF, MW,    *)
(* EX, and DR with the end of the cycle.  The program is whatever IF        *)
(* fetches: at every fetch any instruction may turn up that a program may   *)
(* contain there.  How long the instruction cache and the memory take is    *)
(* open, and so is when a device fires.  Addresses count bundles, of which  *)
(* only the slot with the transfer or access is kept.                       *)
(***************************************************************************)
EXTENDS ProgramOrder

CONSTANTS
  Programs,     \* the kinds of programs, each the set of its instructions
  HaltingSlots, \* a return to 0 may have delay slots, a branch to 0 may have none
  MaxNesting,   \* modes that may be kept at once, the program's own among them
  StatusSpan, NoIsr

\* The modes of the handlers, the current one in the lowest two bits.
Encoded(modes) == FoldRight(LAMBDA m, n : m + (4 * n), modes, 0)

ASSUME PipelineAssumption ==
  /\ UNION Programs \subseteq Ops
  /\ AddrSpace \in Nat /\ AddrSpace > 1
  /\ Methods \cup Branches \cup {Handler, Entry} \subseteq 1 .. AddrSpace - 1
  /\ Ops \subseteq {"alu", "mem", "sts", "br", "brcf", "call", "callr", "ret",
                    "xret", "trap"}
  /\ StatusValues \subseteq 0 .. 3
  /\ HaltingSlots \in BOOLEAN
  /\ MaxNesting \in Nat \ {0} /\ StatusSpan \in Nat
  /\ \A modes \in BoundedSeq(0 .. 3, MaxNesting) : Encoded(modes) < StatusSpan

VARIABLES
  pipe,       \* Pipeline: the instruction in each stage
  turn,       \* the part of the cycle that is next
  stalled,    \* Stall = SMW, the only stage that ever stalls
  disableIF,  \* Disable_IF
  pc, nPC,    \* PC, nPC
  base,       \* BASE
  delay,      \* Delay_counter
  handling,   \* Exception_handling_counter
  halt,       \* Halt
  running,    \* no exception of the simulator has ended the run
  regs,       \* the return registers: link is srb and sro, saved is sxb and sxo
  unit,       \* the exception unit
  program     \* the kind of program that runs

vars == <<pipe, turn, stalled, disableIF, pc, nPC, base, delay, handling, halt,
          running, regs, unit, program, arch>>

control == <<pc, nPC, base, halt, regs, unit>>
fetching == <<disableIF, delay, handling>>

Device == 16
Unit == INSTANCE ExceptionUnit WITH Exceptions <- {Device}

Stages == {"IF", "DR", "EX", "MW"}
CacheFlows == {"brcf", "call", "callr", "ret", "xret", "trap", "intr"}
Flows == CacheFlows \cup {"br"}

\* An instruction in the pipeline; done is MW_Discard of an access, MW_Initialized
\* of a transfer, and for others that EX has had its effect.
NoInstruction ==
  [op |-> "bubble", delayed |-> FALSE, guard |-> FALSE, dest |-> Nowhere,
   addr |-> 0, done |-> FALSE]

\* An instruction of the program as IF puts it into the pipeline.
Issued(i, at) ==
  [op |-> i.op, delayed |-> i.delayed, guard |-> i.guard, dest |-> i.dest,
   addr |-> at, done |-> FALSE]

-----------------------------------------------------------------------------
(* The programs.                                                           *)

InFlight == {pipe[s] : s \in {"DR", "EX", "MW"}}

\* The instruction at pc is in a delay slot.
InDelaySlot ==
  \/ pipe["DR"].op \in Flows /\ pipe["DR"].delayed
  \/ pipe["EX"].op \in Flows /\ pipe["EX"].delayed
  \/ pipe["MW"].op \in CacheFlows /\ pipe["MW"].delayed

\* The instruction at pc is going to be flushed.
InShadow ==
  \E s \in {"DR", "EX", "MW"} :
    /\ pipe[s].op \in IF s = "MW" THEN CacheFlows ELSE Flows
    /\ pipe[s].guard /\ ~ pipe[s].delayed

ModeChanges == {"sts", "xret", "trap", "intr"}
ModeIsSettled == \A i \in InFlight : i.op \notin ModeChanges

\* What a program may not do: transfer control in a delay slot, return from a
\* handler it is not in, write Status while interrupts may come.  What is going
\* to be flushed does not matter, so little of it is tried.
MayFetch(i) ==
  /\ i.op \in program
  /\ i.op = "trap" => ~ i.delayed
  /\ InDelaySlot => i.op \notin Flows
  /\ InShadow => i.op \in {"alu", "br"} /\ i.guard
  /\ i.op = "sts" =>
       /\ ModeIsSettled
       /\ arch.modes[1] = 2
       /\ i.dest.base % 2 = 1 => Len(arch.modes) < MaxNesting
  /\ i.op = "xret" => ModeIsSettled /\ Len(arch.modes) > 1
  /\ i.op = "trap" => ModeIsSettled /\ Len(arch.modes) < MaxNesting
  /\ ~ HaltingSlots =>
       /\ i.op = "ret" /\ i.delayed => arch.link # Nowhere
       /\ i.op = "brcf" => i.dest # Nowhere

-----------------------------------------------------------------------------
(* IF: instruction_fetch.                                                  *)

\* get_intr_delay_slots
IntrDelaySlots(i) ==
  CASE i.op = "br" -> 2
    [] i.op \in CacheFlows -> 3
    [] OTHER -> 0

\* Faulty: the count ends at 1.
DelayStuck(i) ==
  IF IntrDelaySlots(i) >= delay THEN IntrDelaySlots(i)
  ELSE IF delay > 1 THEN delay - 1 ELSE delay

\* Delay_counter after the decoding of i.
DelayAfter(i) ==
  IF IntrDelaySlots(i) >= delay THEN IntrDelaySlots(i) ELSE delay - 1

\* Nothing is fetched while the last fetch has not moved on.
SkipFetch ==
  /\ disableIF
  /\ UNCHANGED <<pipe, stalled, disableIF, delay, handling, control>>

\* The instruction cache has not got the instruction: the whole pipeline waits.
FetchMiss ==
  /\ ~ disableIF /\ ~ halt
  /\ stalled' = TRUE
  /\ UNCHANGED <<pipe, disableIF, delay, handling, control>>

FetchHalt ==
  /\ ~ disableIF /\ halt
  /\ pipe' = [pipe EXCEPT !["IF"] =
                Issued(Instruction("halt", TRUE, TRUE, Nowhere), 0)]
  /\ UNCHANGED <<stalled, disableIF, delay, handling, control>>

FetchHit == ~ disableIF /\ ~ halt /\ disableIF' = TRUE /\ UNCHANGED stalled

TakesInterrupt == Unit!InterruptPending(unit) /\ delay = 0 /\ handling = 0

\* The instruction that was fetched is dropped, and intr takes its place.
TakeInterrupt ==
  /\ FetchHit /\ TakesInterrupt
  /\ unit' = Unit!NextInterrupt(unit)
  /\ pipe' = [pipe EXCEPT !["IF"] =
                Issued(Instruction("intr", FALSE, TRUE, Place(Handler, Handler)), pc)]
  /\ handling' = 3
  /\ UNCHANGED <<delay, pc, nPC, base, halt, regs>>

FetchBubble ==
  /\ FetchHit /\ ~ TakesInterrupt /\ handling > 0
  /\ pipe' = [pipe EXCEPT !["IF"] = NoInstruction]
  /\ handling' = handling - 1
  /\ UNCHANGED <<delay, control>>

Decode ==
  /\ FetchHit /\ ~ TakesInterrupt /\ handling = 0
  /\ \E i \in Instructions :
       /\ MayFetch(i)
       /\ pipe' = [pipe EXCEPT !["IF"] = Issued(i, pc)]
       /\ delay' = DelayAfter(i)
  /\ nPC' = (pc + 1) % AddrSpace
  /\ UNCHANGED <<handling, pc, base, halt, regs, unit>>

IF_ ==
  /\ running /\ turn = "IF"
  /\ turn' = "MW"
  /\ SkipFetch \/ FetchMiss \/ FetchHalt \/ TakeInterrupt \/ FetchBubble \/ Decode
  /\ UNCHANGED <<running, arch>>

-----------------------------------------------------------------------------
(* MW.                                                                     *)

MW == pipe["MW"]

\* pipeline_flush(SMW), pipeline_flush(SEX)
Before(stage) == IF stage = "MW" THEN {"IF", "DR", "EX"} ELSE {"IF", "DR"}
Flushed(stage) == [s \in Stages |-> IF s \in Before(stage) THEN NoInstruction
                                                           ELSE pipe[s]]

\* fetch_and_dispatch: the method cache says whether it has the method.
FetchAndDispatch(loaded) ==
  /\ stalled' = (stalled \/ (MW.guard /\ ~ loaded))
  /\ IF MW.guard /\ ~ stalled'
     THEN base' = MW.dest.base /\ nPC' = MW.dest.pc
     ELSE UNCHANGED <<base, nPC>>

\* store_return_address; register is "link" or "saved".
StoreReturnAddress(register, from) ==
  regs' = IF MW.guard /\ ~ stalled THEN [regs EXCEPT ![register] = Place(base, from)]
                                    ELSE regs

\* The address behind a call: nPC behind its slots, or what EX holds.
ReturnPC == IF MW.delayed THEN nPC ELSE pipe["EX"].addr

\* Faulty: what follows a call is thrown out only when the call leaves MW.
CallFlushesLate(loaded) ==
  /\ MW.op = "call"
  /\ StoreReturnAddress("link", ReturnPC)
  /\ FetchAndDispatch(loaded)
  /\ pipe' = IF MW.guard /\ ~ MW.delayed /\ ~ stalled' THEN Flushed("MW") ELSE pipe
  /\ UNCHANGED <<pc, halt, unit>>

\* Faulty: the address that EX held is lost with the flush.
CallForgetsReturn(loaded) ==
  /\ MW.op = "call"
  /\ StoreReturnAddress("link", ReturnPC)
  /\ FetchAndDispatch(loaded)
  /\ pipe' = IF MW.guard /\ ~ MW.delayed THEN Flushed("MW") ELSE pipe
  /\ UNCHANGED <<pc, halt, unit>>

CallMW(loaded) ==
  /\ MW.op = "call"
  /\ StoreReturnAddress("link", ReturnPC)
  /\ FetchAndDispatch(loaded)
  /\ pipe' = IF MW.guard /\ ~ MW.delayed
             THEN [Flushed("MW") EXCEPT !["EX"].addr = ReturnPC]
             ELSE pipe
  /\ UNCHANGED <<pc, halt, unit>>

CallRegisterMW(loaded) ==
  /\ MW.op = "callr"
  /\ StoreReturnAddress("link", ReturnPC)
  /\ FetchAndDispatch(loaded)
  /\ pipe' = IF MW.guard /\ ~ MW.delayed /\ ~ stalled' THEN Flushed("MW") ELSE pipe
  /\ UNCHANGED <<pc, halt, unit>>

\* brcf and brcfr; base 0 halts.
BranchCacheMW(loaded) ==
  /\ MW.op = "brcf"
  /\ IF MW.guard /\ MW.dest.base = 0
     THEN halt' = TRUE /\ UNCHANGED <<pipe, stalled, base, nPC>>
     ELSE /\ FetchAndDispatch(loaded)
          /\ pipe' = IF MW.guard /\ ~ MW.delayed THEN Flushed("MW") ELSE pipe
          /\ UNCHANGED halt
  /\ UNCHANGED <<pc, regs, unit>>

ReturnMW(loaded) ==
  /\ MW.op = "ret"
  /\ IF MW.guard /\ MW.dest.base = 0
     THEN halt' = TRUE /\ pipe' = Flushed("MW") /\ UNCHANGED <<stalled, base, nPC>>
     ELSE /\ FetchAndDispatch(loaded)
          /\ pipe' = IF MW.guard /\ ~ MW.delayed THEN Flushed("MW") ELSE pipe
          /\ UNCHANGED halt
  /\ UNCHANGED <<pc, regs, unit>>

\* Faulty: the mode is given back in every cycle that xret spends in MW.
ExceptionReturnRepeats(loaded) ==
  /\ MW.op = "xret"
  /\ unit' = IF MW.guard THEN Unit!Resumed(unit) ELSE unit
  /\ FetchAndDispatch(loaded)
  /\ pipe' = IF MW.guard /\ ~ MW.delayed THEN Flushed("MW") ELSE pipe
  /\ UNCHANGED <<pc, halt, regs>>

\* xret gives the mode back once, in the first cycle that does not stall.
ExceptionReturnMW(loaded) ==
  /\ MW.op = "xret"
  /\ LET first == MW.guard /\ ~ MW.done /\ ~ stalled
     IN  /\ unit' = IF first THEN Unit!Resumed(unit) ELSE unit
         /\ FetchAndDispatch(loaded)
         /\ pipe' = [IF MW.guard /\ ~ MW.delayed THEN Flushed("MW") ELSE pipe
                       EXCEPT !["MW"].done = @ \/ first]
  /\ UNCHANGED <<pc, halt, regs>>

\* trap and intr, with the address xret will return to.
EnterHandler(from, loaded) ==
  /\ StoreReturnAddress("saved", from)
  /\ FetchAndDispatch(loaded)
  /\ pipe' = IF MW.guard /\ ~ stalled' THEN Flushed("MW") ELSE pipe
  /\ UNCHANGED <<pc, halt, unit>>

TrapMW(loaded) == MW.op = "trap" /\ EnterHandler(pipe["EX"].addr, loaded)
InterruptMW(loaded) == MW.op = "intr" /\ EnterHandler(MW.addr, loaded)

\* A load or store; the memory says whether it is done.  A store to Status is
\* done at once; the program writes the mode it wants, and the modes it was
\* interrupted in as they were.
AccessMW(done) ==
  /\ MW.op \in {"mem", "sts"}
  /\ stalled' = (stalled \/ (MW.op = "mem" /\ ~ MW.done /\ ~ done))
  /\ unit' = IF MW.op = "sts" /\ ~ MW.done
             THEN Unit!Written(unit, 0, 4 * (unit.status \div 4) + MW.dest.base)
             ELSE unit
  /\ pipe' = [pipe EXCEPT !["MW"].done = @ \/ MW.op = "sts" \/ done]
  /\ UNCHANGED <<pc, nPC, base, halt, regs>>

OtherMW ==
  /\ MW.op \in {"alu", "br", "bubble"}
  /\ UNCHANGED <<pipe, stalled, control>>

MW_ ==
  /\ running /\ turn = "MW"
  /\ turn' = "EX"
  /\ \/ \E answer \in BOOLEAN :
          \/ CallMW(answer) \/ CallRegisterMW(answer) \/ BranchCacheMW(answer)
          \/ ReturnMW(answer) \/ ExceptionReturnMW(answer)
          \/ TrapMW(answer) \/ InterruptMW(answer) \/ AccessMW(answer)
     \/ OtherMW
  /\ UNCHANGED <<running, fetching, arch>>

\* i_halt_t::MW ends the simulation.
HaltMW ==
  /\ running /\ turn = "MW" /\ MW.op = "halt"
  /\ running' = FALSE
  /\ arch' = [arch EXCEPT !.stopped = TRUE]
  /\ UNCHANGED <<pipe, turn, stalled, fetching, control>>

-----------------------------------------------------------------------------
(* EX.                                                                     *)

EX == pipe["EX"]

\* br: dispatch, in every cycle it is in EX.
BranchEX ==
  /\ EX.op = "br"
  /\ nPC' = IF EX.guard THEN EX.dest.pc ELSE nPC
  /\ pipe' = IF EX.guard /\ ~ EX.delayed THEN Flushed("EX") ELSE pipe
  /\ UNCHANGED <<pc, base, halt, regs, unit>>

\* ret and xret read their registers.
ReturnEX ==
  /\ EX.op \in {"ret", "xret"}
  /\ pipe' = [pipe EXCEPT !["EX"].dest = IF EX.op = "ret" THEN regs.link
                                                          ELSE regs.saved]
  /\ UNCHANGED control

\* trap shifts Status, in every cycle it is in EX.
TrapEX ==
  /\ EX.op = "trap"
  /\ unit' = IF EX.guard THEN Unit!Trapped(unit, 0) ELSE unit
  /\ pipe' = [pipe EXCEPT !["EX"].dest = Place(Handler, Handler)]
  /\ UNCHANGED <<pc, nPC, base, halt, regs>>

\* A predicate or special register is written.
EffectEX ==
  /\ EX.op = "alu"
  /\ pipe' = [pipe EXCEPT !["EX"].done = TRUE]
  /\ UNCHANGED control

OtherEX ==
  /\ EX.op \notin {"alu", "br", "ret", "xret", "trap"}
  /\ UNCHANGED <<pipe, control>>

EX_ ==
  /\ running /\ turn = "EX"
  /\ turn' = "DR"
  /\ BranchEX \/ ReturnEX \/ TrapEX \/ EffectEX \/ OtherEX
  /\ UNCHANGED <<stalled, running, fetching, arch>>

-----------------------------------------------------------------------------
(* DR, and the end of the cycle.                                           *)

\* What leaves MW has been executed.
Retire ==
  CASE MW.op = "bubble" -> UNCHANGED arch
    [] MW.op = "intr"   -> arch' = Handle(arch, MW.addr)
    [] OTHER            -> arch' = Meaning(arch, MW, MW.addr)

\* The stages move on, and the program counter with them.
Move ==
  /\ pipe' = [s \in Stages |-> CASE s = "IF" -> NoInstruction
                                 [] s = "DR" -> pipe["IF"]
                                 [] s = "EX" -> pipe["DR"]
                                 [] s = "MW" -> pipe["EX"]]
  /\ pc' = nPC
  /\ disableIF' = FALSE
  /\ Retire

Stay == UNCHANGED <<pipe, pc, disableIF, arch>>

\* A device may fire at the end of a cycle.
Tick ==
  \/ unit' = unit
  \/ unit' = Unit!Fired(unit, Device) /\ unit' # unit /\ unit.mask # {}

DR_ ==
  /\ running /\ turn = "DR"
  /\ turn' = "IF"
  /\ IF stalled THEN Stay ELSE Move
  /\ stalled' = FALSE
  /\ Tick
  /\ UNCHANGED <<nPC, base, delay, handling, halt, running, regs>>

-----------------------------------------------------------------------------
Init ==
  /\ pipe = [s \in Stages |-> NoInstruction]
  /\ turn = "IF"
  /\ stalled = FALSE /\ disableIF = FALSE
  /\ pc = Entry /\ nPC = Entry /\ base = Entry
  /\ delay = 0 /\ handling = 0
  /\ halt = FALSE /\ running = TRUE
  /\ regs = [link |-> Nowhere, saved |-> Nowhere]
  /\ program \in Programs
  /\ unit = [Unit!ResetUnit EXCEPT !.vector[Device] = Handler,
                                   !.mask = {d \in {Device} : "sts" \in program}]
  /\ OrderInit

Next == (IF_ \/ MW_ \/ HaltMW \/ EX_ \/ DR_) /\ UNCHANGED program

Spec == Init /\ [][Next]_vars

\* The instruction cache and the memory answer in the end.
FairSpec ==
  /\ Spec
  /\ WF_vars(Next)
  /\ SF_vars(Next /\ turn = "IF" /\ disableIF')
  /\ SF_vars(Next /\ turn = "MW" /\ ~ stalled')

-----------------------------------------------------------------------------
(* Properties.                                                             *)

\* The pipeline executes the program in its order: every instruction once, after
\* the delay slots of the transfer before it, with return addresses that lead back
\* behind them, and interrupts only between instructions that may be separated.
RefinesProgramOrder == OrderSpec

\* Status holds the modes that the handlers of interrupts were entered from, the
\* current mode included, whatever is in the pipeline that does not change it.
StatusHoldsModes ==
  turn = "IF" /\ "trap" \notin program
              /\ (\A s \in Stages : pipe[s].op \notin ModeChanges)
    => unit.status = Encoded(arch.modes)

\* An instruction is thrown out of the pipeline for which EX has already written a
\* predicate or a special register.
DiscardsAnEffect ==
  \E s \in {"DR", "EX"} :
    pipe[s].op = "alu" /\ pipe[s].done /\ turn = "MW" /\ pipe'[s].op = "bubble"

\* Instructions behind a transfer are flushed before EX has an effect for them, but for
\* callr and trap, which flush only when they leave MW.
FlushedInTimeHasNoEffect ==
  [][DiscardsAnEffect => MW.op \in {"callr", "trap"}]_vars

\* When a device has fired and the program allows the interrupt, it is taken, if
\* again and again three instructions in a row transfer no control.
StraightOn == turn = "DR" /\ \A s \in {"IF", "DR", "EX"} : pipe[s].op \in {"alu", "mem", "sts"}
InterruptsTaken == []<>StraightOn => []<>(~ Unit!InterruptPending(unit))
=============================================================================
