---------------------------- MODULE ProgramOrder ----------------------------
(***************************************************************************)
(* What the pipeline promises to a program: one instruction at a time, each *)
(* at the address that the one before leads to.  A control transfer takes   *)
(* effect behind its delay slots, a call leaves the address behind them for *)
(* ret, and an interrupt comes between two instructions, never between a    *)
(* transfer and its slots, and only while interrupts are enabled.           *)
(*                                                                         *)
(* Stages, stalls, fetches that run ahead and are flushed, and how often a  *)
(* stage repeats an instruction cannot be seen here.                        *)
(***************************************************************************)
EXTENDS Integers, SequencesExt

CONSTANTS
  Ops,          \* the instructions the program is made of
  AddrSpace,    \* number of code addresses
  Entry,        \* where the program starts
  Handler,      \* where the handler of an interrupt or trap starts
  Methods,      \* bases of the methods; base 0 stands for the end of the program
  Branches,     \* where a branch within a method may go
  StatusValues  \* what the program writes to Status

VARIABLE arch   \* the machine as the program sees it

Nowhere == [base |-> 0, pc |-> 0]

ArchInit ==
  [next |-> Entry,     \* address of the next instruction
   last |-> 0,         \* address of the last one
   base |-> Entry,     \* base of the active method
   slots |-> 0,        \* delay slots left until the transfer to dest
   dest |-> Nowhere,
   calling |-> FALSE,  \* that transfer is a call
   link |-> Nowhere,   \* where ret goes
   saved |-> Nowhere,  \* where xret goes
   modes |-> <<2>>,    \* modes of the nested handlers, the current one first
   halted |-> FALSE,   \* it has transferred to base 0
   stopped |-> FALSE]

Place(base, pc) == [base |-> base, pc |-> pc]

\* Leaving for dest from an instruction or slot that ends at fall.
Leave(a, dest, calling, fall) ==
  [a EXCEPT !.next = dest.pc, !.base = dest.base, !.slots = 0,
            !.dest = Nowhere, !.calling = FALSE,
            !.link = IF calling THEN Place(a.base, fall) ELSE @,
            !.halted = dest.base = 0]

\* The machine moves on to fall, or leaves behind its last delay slot.
MoveOn(a, fall) ==
  CASE a.slots = 0 -> [a EXCEPT !.next = fall]
    [] a.slots = 1 -> Leave(a, a.dest, a.calling, fall)
    [] a.slots > 1 -> [a EXCEPT !.next = fall, !.slots = @ - 1]

\* A transfer to dest with n delay slots.
Transfer(a, dest, calling, n, fall) ==
  IF n = 0
  THEN Leave(a, dest, calling, fall)
  ELSE [a EXCEPT !.next = fall, !.slots = n, !.dest = dest, !.calling = calling]

\* A handler is entered; from is where xret will go on.
Handle(a, from) ==
  [a EXCEPT !.next = Handler, !.base = Handler, !.saved = Place(a.base, from),
            !.modes = <<2>> \o @]

\* An instruction: a transfer has a destination, a store the value it writes.
Instruction(op, delayed, guard, dest) ==
  [op |-> op, delayed |-> delayed, guard |-> guard, dest |-> dest]

Transfers == {"br", "brcf", "call", "callr", "ret", "xret", "trap"}

\* Delayed or not; one that is not taken has no use for its delay slots.
Forms == {[delayed |-> TRUE, guard |-> TRUE], [delayed |-> FALSE, guard |-> TRUE],
          [delayed |-> FALSE, guard |-> FALSE]}

Instructions ==
       {Instruction(op, FALSE, TRUE, Nowhere) : op \in {"alu", "mem"} \cap Ops}
  \cup {Instruction("sts", FALSE, TRUE, Place(v, 0)) : v \in StatusValues}
  \cup {Instruction("br", f.delayed, f.guard, Place(0, t)) :
          f \in Forms, t \in Branches}
  \cup {Instruction(op, f.delayed, f.guard, Place(m, m)) :
          op \in {"brcf", "call", "callr"} \cap Ops, f \in Forms, m \in Methods}
  \cup {Instruction("brcf", d, TRUE, Nowhere) : d \in BOOLEAN}
  \cup {Instruction(op, f.delayed, f.guard, Nowhere) :
          op \in {"ret", "xret", "trap"} \cap Ops, f \in Forms}

DelaySlots(i) ==
  CASE ~ i.delayed -> 0
    [] i.delayed /\ i.op = "br" -> 2
    [] OTHER -> 3

\* What instruction i means, if it is at address at.
Meaning(b, i, at) ==
  LET a == [b EXCEPT !.last = at]
      fall == (at + 1) % AddrSpace
  IN
  IF ~ i.guard THEN MoveOn(a, fall)
  ELSE CASE i.op = "sts" -> MoveOn([a EXCEPT !.modes[1] = i.dest.base], fall)
         [] i.op = "br" ->
              Transfer(a, Place(a.base, i.dest.pc), FALSE, DelaySlots(i), fall)
         [] i.op = "brcf" -> Transfer(a, i.dest, FALSE, DelaySlots(i), fall)
         [] i.op \in {"call", "callr"} ->
              Transfer(a, i.dest, TRUE, DelaySlots(i), fall)
         [] i.op = "ret" -> Transfer(a, a.link, FALSE, DelaySlots(i), fall)
         [] i.op = "xret" ->
              Transfer([a EXCEPT !.modes = Tail(@)], a.saved, FALSE, DelaySlots(i), fall)
         [] i.op = "trap" -> Handle(a, fall)
         [] OTHER -> MoveOn(a, fall)

-----------------------------------------------------------------------------
OrderInit == arch = ArchInit

\* Any instruction may be next, but a delay slot holds no transfer.
Execute ==
  /\ ~ arch.halted
  /\ \E i \in Instructions :
       /\ arch.slots > 0 => i.op \notin Transfers
       /\ arch' = Meaning(arch, i, arch.next)

\* An interrupt: nothing of the program happens, and no transfer is under way.
Interrupt ==
  /\ ~ arch.halted
  /\ arch.slots = 0
  /\ arch.modes[1] % 2 = 1
  /\ arch' = Handle(arch, arch.next)

\* The program has transferred to address 0.
Stop == arch.halted /\ arch' = [arch EXCEPT !.stopped = TRUE]

OrderNext == arch' # arch /\ (Execute \/ Interrupt \/ Stop)

OrderSpec == OrderInit /\ [][OrderNext]_arch
=============================================================================
