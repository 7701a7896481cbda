--------------------------- MODULE BundleSemantics ---------------------------
(***************************************************************************)
(* What the registers promise to a program, one bundle at a time: both slots *)
(* read their operands, and then both take effect.  Three effects are late,  *)
(* those of loads, stores and multiplications: they come after the operands   *)
(* of the next bundle are read and before its own effects.                  *)
(*                                                                         *)
(* A bundle whose slots would both write a register, or both use a unit      *)
(* there is only one of, is not executed.  Neither is one that needs the      *)
(* result of a load in the bundle before.                                   *)
(***************************************************************************)
EXTENDS Arithmetic

CONSTANTS
  Bundles,    \* the bundles a program may be made of
  NumGPR,     \* r0 .. r(NumGPR - 1); r0 is always 0
  NumPRR,     \* p0 .. p(NumPRR - 1); p0 is always true
  NumWords,   \* words of memory
  Image       \* what the program's file may put into a word of memory

VARIABLES
  machine,    \* registers, memory, and what the last bundle has yet to do
  rejected    \* the bundle that was refused, if any: it used a load too early

GPR == 0 .. NumGPR - 1
SPR == {"sl", "sh"}

\* A predicate operand: a register, and whether its value is negated.
Pred(p) == [reg |-> p, neg |-> FALSE]
NotPred(p) == [reg |-> p, neg |-> TRUE]
Holds(prr, q) == prr[q.reg] # q.neg

\* An instruction: its class and operation, its guard, its destination, its
\* register operands, predicate operands and immediate.
Instr(class, op, d, s1, s2, imm) ==
  [class |-> class, op |-> op, guard |-> Pred(0), d |-> d, s1 |-> s1, s2 |-> s2,
   q1 |-> Pred(0), q2 |-> Pred(0), imm |-> imm]
Nop == Instr("nop", "nop", 0, 0, 0, 0)
If(q, i) == [i EXCEPT !.guard = q]

\* The classes that compute the value of a general purpose register.
Computing == {"aluil", "alur", "alub", "spcf"}
Accessing == {"ldt", "stt"}

\* get_src1_reg, get_src2_reg, get_dst_reg; r0 for none.
Sources(i) ==
  CASE i.class \in {"aluil", "aluci", "alub", "spct", "ldt"} -> {i.s1}
    [] i.class \in {"alur", "alum", "aluc", "stt"} -> {i.s1, i.s2}
    [] OTHER -> {}
Target(i) == IF i.class \in Computing \cup {"ldt"} THEN i.d ELSE 0

\* What the decoder makes of a word: registers, predicates and operations that
\* there are.
Predicates == [reg : 0 .. NumPRR - 1, neg : BOOLEAN]
IsInstruction(i) ==
  /\ {i.guard, i.q1, i.q2} \subseteq Predicates
  /\ {i.s1, i.s2} \subseteq GPR
  /\ i.class \in Computing \cup {"ldt"} => i.d \in GPR
  /\ i.class \in {"aluc", "aluci", "alup"} => i.d \in 0 .. NumPRR - 1
  /\ i.class \in {"aluc", "aluci"} => i.op \in Comparisons
  /\ i.class = "alup" => i.op \in Connectives
  /\ i.class \in {"spct", "spcf"} => i.op \in SPR \cup {"s0"}

ASSUME BundlesAssumption ==
  /\ NumGPR \in Nat \ {0} /\ NumPRR \in Nat \ {0}
  /\ \A b \in Bundles :
       b = <<b[1], b[2]>> /\ IsInstruction(b[1]) /\ IsInstruction(b[2])

-----------------------------------------------------------------------------
\* p0 and the others of a word that mts moves to s0, and the word mfs gets.
PredsOf(word) == [p \in 0 .. NumPRR - 1 |-> p = 0 \/ p \in Bits(word)]
WordOfPreds(prr) == WordOf({p \in 0 .. NumPRR - 1 : prr[p]})

Address(base, imm) == (base + imm) % NumWords

\* The value an instruction computes from its operands: two registers, two
\* predicates and a special register.
Value(i, a, b, p, q, special) ==
  CASE i.class = "aluil" -> Alu(i.op, a, i.imm)
    [] i.class = "alur" -> Alu(i.op, a, b)
    [] i.class = "alub" -> Bcopy(a, i.imm, p)
    [] i.class = "spcf" -> special
    [] i.class = "aluc" -> Compare(i.op, a, b)
    [] i.class = "aluci" -> Compare(i.op, a, i.imm)
    [] i.class = "alup" -> Logic(i.op, p, q)
    [] i.class = "spct" -> a
    [] OTHER -> 0

\* What of an instruction is late.
NotLate == <<"none", 0, 0>>
Late(i, a, b) ==
  CASE i.class = "ldt" -> <<"load", i.d, Address(a, i.imm)>>
    [] i.class = "stt" -> <<"store", b, Address(a, i.imm)>>
    [] i.class = "alum" -> <<"product", Low(i.op, a, b), High(i.op, a, b)>>
    [] OTHER -> NotLate

\* m with a late effect; r0 stays 0.
Performed(m, e) ==
  CASE e[1] = "load" /\ e[2] # 0 -> [m EXCEPT !.gpr[e[2]] = m.mem[e[3]]]
    [] e[1] = "store" -> [m EXCEPT !.mem[e[3]] = e[2]]
    [] e[1] = "product" -> [m EXCEPT !.spr = [sl |-> e[2], sh |-> e[3]]]
    [] OTHER -> m

\* m with the value v of instruction i; p0 stays true.
Assigned(m, i, v) ==
  CASE Target(i) # 0 /\ i.class \in Computing -> [m EXCEPT !.gpr[i.d] = v]
    [] i.class \in {"aluc", "aluci", "alup"} /\ i.d # 0 -> [m EXCEPT !.prr[i.d] = v]
    [] i.class = "spct" /\ i.op = "s0" -> [m EXCEPT !.prr = PredsOf(v)]
    [] i.class = "spct" /\ i.op # "s0" -> [m EXCEPT !.spr[i.op] = v]
    [] OTHER -> m

Enabled(m, i) == Holds(m.prr, i.guard)

\* Two enabled instructions write one register, access memory or multiply.
Conflicts(m, b) ==
  /\ Enabled(m, b[1]) /\ Enabled(m, b[2])
  /\ \/ Target(b[1]) # 0 /\ Target(b[1]) = Target(b[2])
     \/ {b[1].class, b[2].class} \subseteq Accessing
     \/ {b[1].class, b[2].class} = {"alum"}

\* An enabled instruction of b needs what the last bundle is still loading.
NeedsLoad(m, b) ==
  \E j, k \in {1, 2} :
    /\ m.late[j][1] = "load" /\ m.late[j][2] # 0
    /\ Enabled(m, b[k])
    /\ m.late[j][2] \in Sources(b[k])

-----------------------------------------------------------------------------
NotRefused == <<>>

MachineInit ==
  /\ machine \in [gpr : {[r \in GPR |-> 0]},
                  prr : {[p \in 0 .. NumPRR - 1 |-> p = 0]},
                  spr : {[r \in SPR |-> 0]},
                  mem : [0 .. NumWords - 1 -> Image],
                  late : {<<NotLate, NotLate>>},
                  last : {<<Nop, Nop>>}]
  /\ rejected = NotRefused

\* The meaning of bundle b.
Executed(m, b) ==
  LET special(i) ==
        IF i.class # "spcf" THEN 0
        ELSE IF i.op = "s0" THEN WordOfPreds(m.prr) ELSE m.spr[i.op]
      value(i) == Value(i, m.gpr[i.s1], m.gpr[i.s2], Holds(m.prr, i.q1),
                        Holds(m.prr, i.q2), special(i))
      effect(n, i) == IF Enabled(m, i) THEN Assigned(n, i, value(i)) ELSE n
      delayed(i) ==
        IF Enabled(m, i) THEN Late(i, m.gpr[i.s1], m.gpr[i.s2]) ELSE NotLate
  IN  [effect(effect(Performed(Performed(m, m.late[1]), m.late[2]), b[1]), b[2])
         EXCEPT !.late = <<delayed(b[1]), delayed(b[2])>>, !.last = b]

ExecuteBundle ==
  /\ rejected = NotRefused
  /\ \E b \in Bundles :
       /\ b = machine'.last
       /\ ~ Conflicts(machine, b)
       /\ ~ NeedsLoad(machine, b)
       /\ machine' = Executed(machine, b)
  /\ UNCHANGED rejected

\* The bundle that comes next is refused: it is the one that needs the load.
RejectBundle ==
  /\ rejected = NotRefused
  /\ \E b \in Bundles :
       /\ rejected' = <<b>>
       /\ NeedsLoad(machine, b)
  /\ UNCHANGED machine

MachineNext == ExecuteBundle \/ RejectBundle

MachineSpec == MachineInit /\ [][MachineNext]_<<machine, rejected>>
=============================================================================
