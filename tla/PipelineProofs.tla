-------------------------- MODULE PipelineProofs ---------------------------
(***************************************************************************)
(* Proofs about the pipeline, for every program that the assumptions of the*)
(* model allow, every set of methods and branches, every number of handlers*)
(* that Status has room for, and every pattern of stalls and interrupts.   *)
(***************************************************************************)
EXTENDS PipelineInvariant, SequenceTheorems, WellFoundedInduction, TLAPS

-----------------------------------------------------------------------------
(* Instructions.                                                            *)

\* What the assumptions say of the constants.
LEMMA Constants ==
  /\ AddrSpace \in Nat \ {0, 1}
  /\ Handler \in Nat \ {0} /\ Entry \in Nat \ {0}
  /\ \A m \in Methods : m \in Nat \ {0}
  /\ \A t \in Branches : t \in Nat
  /\ \A v \in StatusValues : v \in 0 .. 3
  /\ MaxNesting \in Nat \ {0}
  /\ \A p \in Programs : p \subseteq Ops
  BY PipelineAssumption

\* The address behind an address.
LEMMA SuccType ==
  ASSUME NEW at \in Nat
  PROVE  Succ(at) \in Nat
  BY Constants DEF Succ

WrittenForm(w) ==
  /\ w.op \in Transfers \cup {"alu", "mem", "sts"}
  /\ w.op \in {"alu", "mem", "sts"} => w.guard = TRUE /\ w.delayed = FALSE
  /\ w.guard = TRUE \/ (w.guard = FALSE /\ w.delayed = FALSE)
  /\ w.delayed = TRUE \/ w.delayed = FALSE
  /\ w.op \in {"call", "callr"} => w.dest.base # 0
  /\ w.op = "brcf" /\ w.dest # Nowhere => w.dest.base # 0
  /\ w.op = "br" => w.dest.base = 0
  /\ w.op = "sts" => w.dest.base \in 0 .. 3
  /\ w.dest \in Places
  /\ w = Instruction(w.op, w.delayed, w.guard, w.dest)

\* The shape of everything that the program may contain.
LEMMA WrittenForms ==
  ASSUME NEW w \in Instructions
  PROVE  WrittenForm(w)
  <1>1. ASSUME NEW op \in {"alu", "mem"} \cap Ops,
             w = Instruction(op, FALSE, TRUE, Nowhere)
       PROVE  WrittenForm(w)
    <2>1. /\ w.op = op /\ w.delayed = FALSE /\ w.guard = TRUE
          /\ w.dest = Nowhere
      BY <1>1 DEF Instruction
    <2>2. w = Instruction(w.op, w.delayed, w.guard, w.dest)
      BY <1>1, <2>1
    <2> QED BY <2>1, <2>2 DEF WrittenForm, Transfers, Nowhere, Places
  <1>2. ASSUME NEW v \in StatusValues,
             w = Instruction("sts", FALSE, TRUE, Place(v, 0))
       PROVE  WrittenForm(w)
    <2>1. /\ w.op = "sts" /\ w.delayed = FALSE /\ w.guard = TRUE
          /\ w.dest = Place(v, 0)
      BY <1>2 DEF Instruction
    <2>2. w = Instruction(w.op, w.delayed, w.guard, w.dest)
      BY <1>2, <2>1
    <2> QED BY <2>1, <2>2, Constants DEF WrittenForm, Transfers, Nowhere, Places, Place
  <1>3. ASSUME NEW f \in Forms, NEW t \in Branches,
             w = Instruction("br", f.delayed, f.guard, Place(0, t))
       PROVE  WrittenForm(w)
    <2>1. /\ w.op = "br" /\ w.delayed = f.delayed /\ w.guard = f.guard
          /\ w.dest = Place(0, t)
      BY <1>3 DEF Instruction
    <2>2. w = Instruction(w.op, w.delayed, w.guard, w.dest)
      BY <1>3, <2>1
    <2> QED BY <2>1, <2>2, Constants DEF WrittenForm, Transfers, Nowhere, Places, Place, Forms
  <1>4. ASSUME NEW op \in {"brcf", "call", "callr"} \cap Ops, NEW f \in Forms, NEW m \in Methods,
             w = Instruction(op, f.delayed, f.guard, Place(m, m))
       PROVE  WrittenForm(w)
    <2>1. /\ w.op = op /\ w.delayed = f.delayed /\ w.guard = f.guard
          /\ w.dest = Place(m, m)
      BY <1>4 DEF Instruction
    <2>2. w = Instruction(w.op, w.delayed, w.guard, w.dest)
      BY <1>4, <2>1
    <2> QED BY <2>1, <2>2, Constants DEF WrittenForm, Transfers, Nowhere, Places, Place, Forms
  <1>5. ASSUME NEW d \in BOOLEAN,
             w = Instruction("brcf", d, TRUE, Nowhere)
       PROVE  WrittenForm(w)
    <2>1. /\ w.op = "brcf" /\ w.delayed = d /\ w.guard = TRUE
          /\ w.dest = Nowhere
      BY <1>5 DEF Instruction
    <2>2. w = Instruction(w.op, w.delayed, w.guard, w.dest)
      BY <1>5, <2>1
    <2> QED BY <2>1, <2>2 DEF WrittenForm, Transfers, Nowhere, Places
  <1>6. ASSUME NEW op \in {"ret", "xret", "trap"} \cap Ops, NEW f \in Forms,
             w = Instruction(op, f.delayed, f.guard, Nowhere)
       PROVE  WrittenForm(w)
    <2>1. /\ w.op = op /\ w.delayed = f.delayed /\ w.guard = f.guard
          /\ w.dest = Nowhere
      BY <1>6 DEF Instruction
    <2>2. w = Instruction(w.op, w.delayed, w.guard, w.dest)
      BY <1>6, <2>1
    <2> QED BY <2>1, <2>2 DEF WrittenForm, Transfers, Nowhere, Places, Forms
  <1> DEFINE Plain == {Instruction(op, FALSE, TRUE, Nowhere) : op \in {"alu", "mem"} \cap Ops}
             Stores == {Instruction("sts", FALSE, TRUE, Place(v, 0)) : v \in StatusValues}
             Within == {Instruction("br", f.delayed, f.guard, Place(0, t)) :
                          f \in Forms, t \in Branches}
             Into == {Instruction(op, f.delayed, f.guard, Place(m, m)) :
                        op \in {"brcf", "call", "callr"} \cap Ops, f \in Forms, m \in Methods}
             Ends == {Instruction("brcf", d, TRUE, Nowhere) : d \in BOOLEAN}
             Back == {Instruction(op, f.delayed, f.guard, Nowhere) :
                        op \in {"ret", "xret", "trap"} \cap Ops, f \in Forms}
  <1>7. Instructions = Plain \cup Stores \cup Within \cup Into \cup Ends \cup Back
    BY DEF Instructions
  <1> HIDE DEF Plain, Stores, Within, Into, Ends, Back
  <1>8. \/ w \in Plain \/ w \in Stores \/ w \in Within \/ w \in Into \/ w \in Ends
        \/ w \in Back
    BY <1>7
  <1>9. CASE w \in Plain
    BY <1>1, <1>9 DEF Plain
  <1>10. CASE w \in Stores
    BY <1>2, <1>10 DEF Stores
  <1>11. CASE w \in Within
    BY <1>3, <1>11 DEF Within
  <1>12. CASE w \in Into
    BY <1>4, <1>12 DEF Into
  <1>13. CASE w \in Ends
    BY <1>5, <1>13 DEF Ends
  <1>14. CASE w \in Back
    BY <1>6, <1>14 DEF Back
  <1> QED BY <1>8, <1>9, <1>10, <1>11, <1>12, <1>13, <1>14

\* What Fits leaves of an instruction of the program.
LEMMA RealForms ==
  ASSUME NEW a, NEW i, Real(i), Fits(a, i)
  PROVE  /\ i.op \in Transfers \cup {"alu", "mem", "sts"}
         /\ i.op \in {"alu", "mem", "sts"} => i.guard = TRUE /\ i.delayed = FALSE
         /\ i.guard = TRUE \/ (i.guard = FALSE /\ i.delayed = FALSE)
         /\ i.delayed = TRUE \/ i.delayed = FALSE
         /\ i.op \in {"call", "callr", "brcf"} => i.dest.base # 0
         /\ i.op = "sts" => i.dest.base \in 0 .. 3
         /\ i.op = "br" => i.dest.base = 0
  <1>1. PICK w \in Instructions :
          /\ w.op = i.op /\ w.delayed = i.delayed /\ w.guard = i.guard
          /\ i.op \notin {"ret", "xret", "trap"} => w.dest = i.dest
    BY DEF Fits, AsWritten
  <1>2. i.op = "brcf" => i.dest # Nowhere
    BY DEF Fits
  <1> QED BY <1>1, <1>2, WrittenForms DEF WrittenForm

-----------------------------------------------------------------------------
(* What an instruction does to the machine of the program.                  *)

\* Leaving for a method or address keeps the machine well typed.
LEMMA LeftType ==
  ASSUME NEW a \in ArchType, NEW next \in Nat, NEW base_ \in Nat, NEW link \in Places,
         NEW halted \in BOOLEAN
  PROVE  [a EXCEPT !.next = next, !.base = base_, !.slots = 0, !.dest = Nowhere,
                   !.calling = FALSE, !.link = link, !.halted = halted] \in ArchType
  <1>1. Nowhere \in Places /\ 0 \in 0 .. 3
    BY DEF Nowhere, Places
  <1> HIDE DEF Places
  <1> QED BY <1>1 DEF ArchType

\* What leaving an instruction or slot changes.
LEMMA LeaveFields ==
  ASSUME NEW a \in ArchType, NEW dest \in Places, NEW calling \in BOOLEAN, NEW fall \in Nat
  PROVE  LET b == Leave(a, dest, calling, fall)
         IN  /\ b \in ArchType
             /\ b.next = dest.pc /\ b.base = dest.base /\ b.slots = 0
             /\ b.link = IF calling THEN Place(a.base, fall) ELSE a.link
             /\ b.saved = a.saved /\ b.modes = a.modes
             /\ b.halted <=> dest.base = 0
  <1> DEFINE b == Leave(a, dest, calling, fall)
  <1>1. /\ a.base \in Nat /\ a.link \in Places
        /\ dest.pc \in Nat /\ dest.base \in Nat
        /\ Nowhere \in Places /\ Place(a.base, fall) \in Places
    BY DEF ArchType, Places, Place, Nowhere
  <1>2. b \in ArchType
    <2> DEFINE link == IF calling THEN Place(a.base, fall) ELSE a.link
    <2>1. PICK h \in BOOLEAN : h = (dest.base = 0)
      <3>1. CASE dest.base = 0
        BY <3>1
      <3>2. CASE dest.base # 0
        BY <3>2
      <3> QED BY <3>1, <3>2
    <2>2. b = [a EXCEPT !.next = dest.pc, !.base = dest.base, !.slots = 0,
                        !.dest = Nowhere, !.calling = FALSE, !.link = link, !.halted = h]
      BY <2>1 DEF Leave
    <2>3. link \in Places
      BY <1>1
    <2> HIDE DEF link, b
    <2> QED BY <1>1, <2>1, <2>2, <2>3, LeftType
  <1>3. /\ b.next = dest.pc /\ b.base = dest.base /\ b.slots = 0
        /\ b.link = IF calling THEN Place(a.base, fall) ELSE a.link
        /\ b.saved = a.saved /\ b.modes = a.modes
    BY DEF Leave, ArchType
  <1>4. b.halted = (dest.base = 0)
    BY DEF Leave, ArchType
  <1> QED BY <1>2, <1>3, <1>4

\* b is a, moved on to fall or left behind its last slot.
MovedOn(b, a, modes, fall) ==
  /\ b \in ArchType
  /\ b.next = IF a.slots = 1 THEN a.dest.pc ELSE fall
  /\ b.base = IF a.slots = 1 THEN a.dest.base ELSE a.base
  /\ b.slots = IF a.slots > 0 THEN a.slots - 1 ELSE 0
  /\ a.slots > 1 => b.dest = a.dest /\ b.calling = a.calling
  /\ b.link = IF a.slots = 1 /\ a.calling THEN Place(a.base, fall) ELSE a.link
  /\ b.saved = a.saved /\ b.modes = modes
  /\ b.halted <=> IF a.slots = 1 THEN a.dest.base = 0 ELSE a.halted

\* b is a with a transfer begun that has n slots, or done if it has none.
Transferred(b, a, modes, dest, calling, n, fall) ==
  /\ b \in ArchType
  /\ b.next = IF n = 0 THEN dest.pc ELSE fall
  /\ b.base = IF n = 0 THEN dest.base ELSE a.base
  /\ b.slots = n
  /\ n # 0 => b.dest = dest /\ b.calling = calling
  /\ b.link = IF n = 0 /\ calling THEN Place(a.base, fall) ELSE a.link
  /\ b.saved = a.saved /\ b.modes = modes
  /\ b.halted <=> IF n = 0 THEN dest.base = 0 ELSE a.halted

\* What moving on changes, behind the last delay slot and before.
LEMMA MoveOnFields ==
  ASSUME NEW a \in ArchType, NEW fall \in Nat
  PROVE  MovedOn(MoveOn(a, fall), a, a.modes, fall)
  <1>1. a.slots \in 0 .. 3 /\ a.dest \in Places /\ a.calling \in BOOLEAN
    BY DEF ArchType
  <1>2. CASE a.slots = 0
    <2>1. MoveOn(a, fall) = [a EXCEPT !.next = fall]
      BY <1>2 DEF MoveOn
    <2> QED BY <1>2, <2>1 DEF ArchType, MovedOn
  <1>3. CASE a.slots = 1
    <2>1. MoveOn(a, fall) = Leave(a, a.dest, a.calling, fall)
      BY <1>3 DEF MoveOn
    <2> QED BY <1>1, <1>3, <2>1, LeaveFields DEF MovedOn
  <1>4. CASE a.slots > 1
    <2>1. MoveOn(a, fall) = [a EXCEPT !.next = fall, !.slots = @ - 1]
      BY <1>4 DEF MoveOn
    <2> DEFINE b == MoveOn(a, fall)
    <2>2. b \in ArchType
      <3>1. a.slots - 1 \in 0 .. 3
        BY <1>1, <1>4
      <3> QED BY <2>1, <3>1 DEF ArchType
    <2>3. /\ b.next = fall /\ b.base = a.base /\ b.slots = a.slots - 1
          /\ b.dest = a.dest /\ b.calling = a.calling /\ b.link = a.link
          /\ b.saved = a.saved /\ b.modes = a.modes
      BY <2>1 DEF ArchType
    <2>4. b.halted = a.halted
      BY <2>1 DEF ArchType
    <2> HIDE DEF b
    <2> QED BY <1>1, <1>4, <2>2, <2>3, <2>4 DEF b, MovedOn
  <1> QED BY <1>1, <1>2, <1>3, <1>4

\* What a transfer changes, with and without delay slots.
LEMMA TransferFields ==
  ASSUME NEW a \in ArchType, NEW dest \in Places, NEW calling \in BOOLEAN,
         NEW n \in {0, 2, 3}, NEW fall \in Nat
  PROVE  Transferred(Transfer(a, dest, calling, n, fall), a, a.modes, dest, calling, n, fall)
  <1>1. CASE n = 0
    BY <1>1, LeaveFields DEF Transfer, Transferred
  <1>2. CASE n # 0
    <2> DEFINE b == Transfer(a, dest, calling, n, fall)
    <2>1. b = [a EXCEPT !.next = fall, !.slots = n, !.dest = dest, !.calling = calling]
      BY <1>2 DEF Transfer
    <2>2. b \in ArchType
      <3>1. n \in 0 .. 3
        OBVIOUS
      <3> HIDE DEF b, Places
      <3> QED BY <2>1, <3>1 DEF ArchType
    <2>3. /\ b.next = fall /\ b.base = a.base /\ b.slots = n /\ b.dest = dest
          /\ b.calling = calling /\ b.link = a.link /\ b.saved = a.saved
          /\ b.modes = a.modes
      BY <2>1 DEF ArchType
    <2>4. b.halted = a.halted
      BY <2>1 DEF ArchType
    <2> QED BY <1>2, <2>2, <2>3, <2>4 DEF Transferred
  <1> QED BY <1>1, <1>2

\* b is a in a handler.
Entering(b, a, from) ==
  /\ b \in ArchType
  /\ b.next = Handler /\ b.base = Handler /\ b.slots = a.slots
  /\ b.link = a.link /\ b.saved = Place(a.base, from)
  /\ b.modes = <<2>> \o a.modes
  /\ b.halted <=> a.halted

\* What the entry of a handler changes.
LEMMA HandleFields ==
  ASSUME NEW a \in ArchType, NEW from \in Nat
  PROVE  Entering(Handle(a, from), a, from)
  <1>1. a.modes \in Seq(0 .. 3) /\ <<2>> \in Seq(0 .. 3) /\ Handler \in Nat
    BY Constants DEF ArchType
  <1>2. <<2>> \o a.modes \in Seq(0 .. 3)
    BY <1>1
  <1>3. Place(a.base, from) \in Places
    BY DEF Place, Places, ArchType
  <1> HIDE DEF Places
  <1> QED BY <1>1, <1>2, <1>3 DEF Handle, ArchType, Entering

Taken(i) == i.op \in Flows /\ i.guard

\* Where a transfer goes that is taken.
Target(a, i) ==
  CASE i.op = "ret" -> a.link
    [] i.op = "xret" -> a.saved
    [] i.op = "br" -> Place(a.base, i.dest.pc)
    [] i.op \in {"trap", "intr"} -> Place(Handler, Handler)
    [] i.op \notin {"ret", "xret", "br", "trap", "intr"} -> i.dest

IsCall(i) == i.op \in {"call", "callr"}
EntersHandler(i) == i.op \in {"trap", "intr"}

\* Where a transfer goes is a place.
LEMMA TargetType ==
  ASSUME NEW a \in ArchType, NEW i \in InStage
  PROVE  Target(a, i) \in Places
  <1>1. a.link \in Places /\ a.saved \in Places /\ i.dest \in Places
    BY DEF ArchType, InStage
  <1>2. Place(a.base, i.dest.pc) \in Places
    BY <1>1 DEF ArchType, Places, Place
  <1>3. Place(Handler, Handler) \in Places
    BY Constants DEF Places, Place
  <1> QED BY <1>1, <1>2, <1>3 DEF Target

\* The delay slots of an instruction.
LEMMA SlotsOf ==
  ASSUME NEW i
  PROVE  /\ ~ i.delayed => DelaySlots(i) = 0
         /\ i.delayed => DelaySlots(i) = IF i.op = "br" THEN 2 ELSE 3
         /\ DelaySlots(i) \in {0, 2, 3}
  BY DEF DelaySlots

\* Everything but a transfer that is taken, a bubble and halt.
LEMMA AfterStraight ==
  ASSUME NEW a \in ArchType, Len(a.modes) > 0, NEW i \in InStage, Real(i), Fits(a, i),
         ~ Taken(i)
  PROVE  MovedOn(After(a, i), a,
                 IF i.op = "sts" THEN [a.modes EXCEPT ![1] = i.dest.base] ELSE a.modes,
                 Succ(i.addr))
  <1> DEFINE c == [a EXCEPT !.last = i.addr]
             d == [c EXCEPT !.modes[1] = i.dest.base]
             fall == Succ(i.addr)
  <1>1. i.addr \in Nat /\ fall \in Nat /\ i.guard \in BOOLEAN
    BY SuccType DEF InStage
  <1>2. After(a, i) = Meaning(a, i, i.addr)
    BY DEF After, Real
  <1>3. c \in ArchType /\ c.modes = a.modes /\ c.slots = a.slots /\ c.dest = a.dest
        /\ c.base = a.base /\ c.link = a.link /\ c.calling = a.calling /\ c.saved = a.saved
        /\ c.halted = a.halted
    BY <1>1 DEF ArchType
  <1>4. CASE i.op = "sts"
    <2>1. i.guard = TRUE /\ i.dest.base \in 0 .. 3
      BY <1>4, RealForms
    <2>2. Meaning(a, i, i.addr) = MoveOn(d, fall)
      BY <1>4, <2>1 DEF Meaning, Succ
    <2>3. c.modes \in Seq(0 .. 3) /\ 1 \in DOMAIN c.modes
      BY <1>3 DEF ArchType
    <2>4. [c.modes EXCEPT ![1] = i.dest.base] \in Seq(0 .. 3)
      BY <2>1, <2>3
    <2>5. d = [c EXCEPT !.modes = [c.modes EXCEPT ![1] = i.dest.base]]
      BY <1>3 DEF ArchType
    <2>6. d \in ArchType /\ d.modes = [a.modes EXCEPT ![1] = i.dest.base]
          /\ d.slots = a.slots /\ d.dest = a.dest /\ d.base = a.base /\ d.link = a.link
          /\ d.calling = a.calling /\ d.saved = a.saved /\ d.halted = a.halted
      BY <1>3, <2>4, <2>5 DEF ArchType
    <2> HIDE DEF c, d, fall
    <2>7. MovedOn(After(a, i), d, d.modes, fall)
      BY <1>1, <1>2, <2>2, <2>6, MoveOnFields
    <2> QED BY <1>4, <2>6, <2>7 DEF MovedOn, fall
  <1>5. CASE i.op # "sts"
    <2>1. Meaning(a, i, i.addr) = MoveOn(c, fall)
      <3>1. ~ i.guard \/ i.op \in {"alu", "mem"}
        BY <1>5, RealForms DEF Taken, Flows, CacheFlows, Transfers
      <3> QED BY <1>1, <3>1 DEF Meaning, Succ
    <2> HIDE DEF c, d, fall
    <2>2. MovedOn(After(a, i), c, c.modes, fall)
      BY <1>1, <1>2, <1>3, <2>1, MoveOnFields
    <2> QED BY <1>3, <1>5, <2>2 DEF MovedOn, fall
  <1> QED BY <1>4, <1>5

\* A transfer that is taken, but for those that enter a handler.
LEMMA AfterTransfer ==
  ASSUME NEW a \in ArchType, Len(a.modes) > 0, NEW i \in InStage, Fits(a, i), Taken(i),
         ~ EntersHandler(i)
  PROVE  Transferred(After(a, i), a,
                     IF i.op = "xret" THEN Tail(a.modes) ELSE a.modes,
                     Target(a, i), IsCall(i), DelaySlots(i), Succ(i.addr))
  <1> DEFINE c == [a EXCEPT !.last = i.addr]
             d == [c EXCEPT !.modes = Tail(@)]
             fall == Succ(i.addr)
             dest == Target(a, i)
             n == DelaySlots(i)
  <1>1. /\ i.addr \in Nat /\ fall \in Nat /\ dest \in Places /\ n \in {0, 2, 3}
        /\ IsCall(i) \in BOOLEAN
    BY SuccType, TargetType, SlotsOf DEF InStage, IsCall
  <1>2. After(a, i) = Meaning(a, i, i.addr) /\ i.guard
        /\ i.op \in {"br", "brcf", "call", "callr", "ret", "xret"}
    BY DEF After, Real, Taken, Flows, CacheFlows, EntersHandler
  <1>3. c \in ArchType /\ c.modes = a.modes /\ c.slots = a.slots /\ c.dest = a.dest
        /\ c.base = a.base /\ c.link = a.link /\ c.calling = a.calling /\ c.saved = a.saved
        /\ c.halted = a.halted
    BY <1>1 DEF ArchType
  <1>4. CASE i.op = "xret"
    <2>1. Meaning(a, i, i.addr) = Transfer(d, dest, FALSE, n, fall)
      <3>1. dest = d.saved
        BY <1>3, <1>4 DEF Target
      <3> HIDE DEF dest, n
      <3> QED BY <1>2, <1>4, <3>1 DEF Meaning, Succ, n
    <2>2. Tail(c.modes) \in Seq(0 .. 3)
      <3>1. c.modes \in Seq(0 .. 3) /\ c.modes # << >>
        BY <1>3 DEF ArchType
      <3> QED BY <3>1
    <2>3. d \in ArchType /\ d.modes = Tail(a.modes)
          /\ d.slots = a.slots /\ d.dest = a.dest /\ d.base = a.base /\ d.link = a.link
          /\ d.calling = a.calling /\ d.saved = a.saved /\ d.halted = a.halted
      BY <1>3, <2>2 DEF ArchType
    <2>4. IsCall(i) = FALSE
      BY <1>4 DEF IsCall
    <2> HIDE DEF c, d, fall, dest, n
    <2>5. Transferred(After(a, i), d, d.modes, dest, FALSE, n, fall)
      BY <1>1, <1>2, <2>1, <2>3, TransferFields
    <2> QED BY <1>4, <2>3, <2>4, <2>5 DEF Transferred, fall, dest, n
  <1>5. CASE i.op # "xret"
    <2>1. Meaning(a, i, i.addr) = Transfer(c, dest, IsCall(i), n, fall)
      <3>1. CASE i.op \in {"call", "callr"}
        BY <1>2, <3>1 DEF Meaning, Succ, Target, IsCall
      <3>2. CASE i.op = "br"
        <4>1. IsCall(i) = FALSE
          BY <3>2 DEF IsCall
        <4> QED BY <1>2, <1>3, <3>2, <4>1 DEF Meaning, Succ, Target
      <3>3. CASE i.op = "brcf"
        <4>1. IsCall(i) = FALSE
          BY <3>3 DEF IsCall
        <4> QED BY <1>2, <3>3, <4>1 DEF Meaning, Succ, Target
      <3>4. CASE i.op = "ret"
        <4>1. IsCall(i) = FALSE
          BY <3>4 DEF IsCall
        <4> QED BY <1>2, <1>3, <3>4, <4>1 DEF Meaning, Succ, Target
      <3> QED BY <1>2, <1>5, <3>1, <3>2, <3>3, <3>4
    <2> HIDE DEF c, d, fall, dest, n
    <2>2. Transferred(After(a, i), c, c.modes, dest, IsCall(i), n, fall)
      BY <1>1, <1>2, <1>3, <2>1, TransferFields
    <2> QED BY <1>3, <1>5, <2>2 DEF Transferred, fall, dest, n
  <1> QED BY <1>4, <1>5

\* trap and intr that are taken.
LEMMA AfterEntering ==
  ASSUME NEW a \in ArchType, NEW i \in InStage, Fits(a, i), Taken(i), EntersHandler(i)
  PROVE  /\ Entering(After(a, i), a, IF i.op = "intr" THEN i.addr ELSE Succ(i.addr))
         /\ a.slots = 0
  <1> DEFINE c == [a EXCEPT !.last = i.addr]
  <1>1. i.addr \in Nat /\ Succ(i.addr) \in Nat /\ a.slots \in 0 .. 3
    BY SuccType DEF InStage, ArchType
  <1>2. a.slots = 0
    BY <1>1 DEF Fits, EntersHandler, Real, Transfers
  <1>3. CASE i.op = "intr"
    <2>1. After(a, i) = Handle(a, i.addr)
      BY <1>3 DEF After, Real
    <2> QED BY <1>1, <1>2, <1>3, <2>1, HandleFields
  <1>4. CASE i.op = "trap"
    <2>1. After(a, i) = Handle(c, Succ(i.addr))
      BY <1>4 DEF After, Real, Meaning, Succ, Taken
    <2>2. c \in ArchType /\ c.modes = a.modes /\ c.slots = a.slots /\ c.base = a.base
          /\ c.link = a.link /\ c.halted = a.halted
      BY <1>1 DEF ArchType
    <2> HIDE DEF c
    <2>3. Entering(After(a, i), c, Succ(i.addr))
      BY <1>1, <2>1, <2>2, HandleFields
    <2> QED BY <1>2, <1>4, <2>2, <2>3 DEF Entering
  <1> QED BY <1>3, <1>4 DEF EntersHandler

\* A bubble and halt do nothing.
LEMMA AfterNothing ==
  ASSUME NEW a, NEW i, i.op \in {"bubble", "halt"}
  PROVE  After(a, i) = a
  BY DEF After, Real

\* The four kinds of instructions, by what they do.
LEMMA Kinds ==
  ASSUME NEW a, NEW i \in InStage, Fits(a, i)
  PROVE  /\ i.op \in {"bubble", "halt"} \/ (Real(i) /\ ~ Taken(i))
              \/ (Taken(i) /\ ~ EntersHandler(i)) \/ (Taken(i) /\ EntersHandler(i))
         /\ Taken(i) => i.guard /\ (Real(i) \/ i.op = "intr")
         /\ Taken(i) /\ EntersHandler(i) => Kills(i)
         /\ Taken(i) => a.slots = 0 \/ ~ (a.slots > 0)
         /\ Kills(i) => Taken(i)
         /\ Taken(i) /\ i.delayed => ~ Kills(i)
         /\ Taken(i) /\ ~ i.delayed => Kills(i)
         /\ Late(i) => Taken(i)
         /\ Taken(i) => Late(i) \/ i.op = "br"
  BY DEF Fits, InStage, StageOps, Real, Taken, Flows, CacheFlows, EntersHandler, Kills, Late,
         Transfers

\* The delay slots that are left behind an instruction.
LEMMA AfterSlots ==
  ASSUME NEW a, ArchOK(a), NEW i \in InStage, Fits(a, i)
  PROVE  /\ After(a, i) \in ArchType
         /\ After(a, i).slots =
              IF Taken(i) /\ i.delayed THEN (IF i.op = "br" THEN 2 ELSE 3)
              ELSE IF a.slots > 0 THEN a.slots - 1 ELSE 0
         /\ Taken(i) => a.slots = 0
  <1>1. a \in ArchType /\ a.slots \in 0 .. 3 /\ Len(a.modes) > 0 /\ i.delayed \in BOOLEAN
    BY Constants DEF ArchOK, ArchType, InStage
  <1>2. CASE i.op \in {"bubble", "halt"}
    <2>1. After(a, i) = a /\ ~ Taken(i)
      BY <1>2, AfterNothing DEF Taken, Flows, CacheFlows
    <2>2. a.slots = 0
      BY <1>2, <1>1 DEF Fits, None, ArchOK
    <2> QED BY <1>1, <2>1, <2>2
  <1>3. CASE Real(i) /\ ~ Taken(i)
    BY <1>1, <1>3, AfterStraight DEF MovedOn
  <1>4. CASE Taken(i) /\ ~ EntersHandler(i)
    BY <1>1, <1>4, AfterTransfer, SlotsOf, Kinds DEF Transferred
  <1>5. CASE Taken(i) /\ EntersHandler(i)
    BY <1>1, <1>5, AfterEntering, Kinds DEF Entering, Kills
  <1> QED BY <1>2, <1>3, <1>4, <1>5, Kinds

\* The modes behind an instruction.
LEMMA AfterModes ==
  ASSUME NEW a, ArchOK(a), NEW i \in InStage, Fits(a, i)
  PROVE  After(a, i).modes =
           IF i.op = "sts" THEN [a.modes EXCEPT ![1] = i.dest.base]
           ELSE IF i.op = "xret" /\ i.guard THEN Tail(a.modes)
           ELSE IF EntersHandler(i) /\ i.guard THEN <<2>> \o a.modes
           ELSE a.modes
  <1>1. a \in ArchType /\ Len(a.modes) > 0
    BY Constants DEF ArchOK, ArchType
  <1>2. CASE i.op \in {"bubble", "halt"}
    BY <1>2, AfterNothing DEF EntersHandler
  <1>3. CASE Real(i) /\ ~ Taken(i)
    BY <1>1, <1>3, AfterStraight DEF MovedOn, EntersHandler, Taken, Flows, CacheFlows
  <1>4. CASE Taken(i) /\ ~ EntersHandler(i)
    BY <1>1, <1>4, AfterTransfer DEF Transferred, Taken, Flows, CacheFlows
  <1>5. CASE Taken(i) /\ EntersHandler(i)
    BY <1>1, <1>5, AfterEntering DEF Entering, EntersHandler, Taken
  <1> QED BY <1>2, <1>3, <1>4, <1>5, Kinds

\* The address that xret will return to.
LEMMA AfterSaved ==
  ASSUME NEW a, ArchOK(a), NEW i \in InStage, Fits(a, i)
  PROVE  After(a, i).saved =
           IF EntersHandler(i) /\ i.guard
           THEN Place(a.base, IF i.op = "intr" THEN i.addr ELSE Succ(i.addr))
           ELSE a.saved
  <1>1. a \in ArchType /\ Len(a.modes) > 0
    BY Constants DEF ArchOK, ArchType
  <1>2. CASE i.op \in {"bubble", "halt"}
    BY <1>2, AfterNothing DEF EntersHandler
  <1>3. CASE Real(i) /\ ~ Taken(i)
    BY <1>1, <1>3, AfterStraight DEF MovedOn, EntersHandler, Taken, Flows, CacheFlows
  <1>4. CASE Taken(i) /\ ~ EntersHandler(i)
    BY <1>1, <1>4, AfterTransfer DEF Transferred, Taken, Flows, CacheFlows
  <1>5. CASE Taken(i) /\ EntersHandler(i)
    BY <1>1, <1>5, AfterEntering DEF Entering, EntersHandler, Taken
  <1> QED BY <1>2, <1>3, <1>4, <1>5, Kinds

\* A program comes to its end only by a return.
LEMMA AfterHalted ==
  ASSUME NEW a, ArchOK(a), NEW i \in InStage, Fits(a, i)
  PROVE  /\ a.halted => After(a, i) = a
         /\ ~ a.halted /\ After(a, i).halted =>
              Kills(i) /\ i.op = "ret" /\ a.link.base = 0
         /\ i.op = "ret" /\ Kills(i) /\ a.link.base = 0 => After(a, i).halted
  <1>1. a \in ArchType /\ Len(a.modes) > 0
    BY Constants DEF ArchOK, ArchType
  <1>2. CASE i.op \in {"bubble", "halt"}
    BY <1>2, AfterNothing DEF Kills, Flows, CacheFlows
  <1>3. CASE Real(i) /\ ~ Taken(i)
    <2>1. ~ a.halted /\ ~ Kills(i)
      BY <1>3, Kinds DEF Fits, Real
    <2>2. a.slots = 1 => a.dest.base # 0
      BY DEF ArchOK
    <2> QED BY <1>1, <1>3, <2>1, <2>2, AfterStraight DEF MovedOn
  <1>4. CASE Taken(i) /\ ~ EntersHandler(i)
    <2>1. ~ a.halted /\ DelaySlots(i) \in {0, 2, 3}
      BY <1>4, Kinds, SlotsOf DEF Fits, Real
    <2>2. DelaySlots(i) = 0 <=> Kills(i)
      BY <1>4, Kinds, SlotsOf DEF InStage
    <2>3. i.op # "ret" => Target(a, i).base # 0
      <3>1. CASE i.op \in {"brcf", "call", "callr"}
        BY <1>4, <3>1, RealForms DEF Target, Real
      <3>2. CASE i.op = "xret"
        BY <3>2 DEF Target, Fits, ArchOK
      <3>3. CASE i.op = "br"
        BY <2>1, <3>3 DEF Target, Place, ArchOK
      <3> QED BY <1>4, <3>1, <3>2, <3>3 DEF Taken, Flows, CacheFlows, EntersHandler
    <2>4. i.op = "ret" => Target(a, i) = a.link
      BY DEF Target
    <2> QED BY <1>1, <1>4, <2>1, <2>2, <2>3, <2>4, AfterTransfer DEF Transferred
  <1>5. CASE Taken(i) /\ EntersHandler(i)
    BY <1>1, <1>5, AfterEntering DEF Entering, EntersHandler, Fits
  <1> QED BY <1>2, <1>3, <1>4, <1>5, Kinds

\* An instruction that fits leaves a machine that is in order.
LEMMA AfterOK ==
  ASSUME NEW a, ArchOK(a), NEW i \in InStage, Fits(a, i)
  PROVE  ArchOK(After(a, i))
  <1> DEFINE b == After(a, i)
  <1>1. a \in ArchType /\ Len(a.modes) > 0 /\ b \in ArchType /\ i.delayed \in BOOLEAN
    BY Constants, AfterSlots DEF ArchOK, ArchType, InStage
  <1>2. CASE i.op \in {"bubble", "halt"}
    BY <1>2, AfterNothing
  <1>3. CASE Real(i) /\ ~ Taken(i)
    <2> DEFINE modes == IF i.op = "sts" THEN [a.modes EXCEPT ![1] = i.dest.base]
                                        ELSE a.modes
    <2>1. MovedOn(b, a, modes, Succ(i.addr)) /\ ~ a.halted
      BY <1>1, <1>3, AfterStraight DEF Fits, Real
    <2>2. Len(modes) = Len(a.modes)
          /\ (Len(modes) = MaxNesting => modes[1] % 2 = 0)
      <3>1. CASE i.op = "sts"
        <4>1. i.dest.base \in 0 .. 3 /\ (i.dest.base % 2 = 1 => Len(a.modes) < MaxNesting)
          BY <1>3, <3>1, RealForms DEF Fits
        <4>2. a.modes \in Seq(0 .. 3) /\ 1 \in DOMAIN a.modes /\ Len(a.modes) \in Nat
          BY <1>1 DEF ArchType
        <4>3. modes = [a.modes EXCEPT ![1] = i.dest.base] /\ modes[1] = i.dest.base
          BY <3>1, <4>2
        <4>4. Len(modes) = Len(a.modes)
          BY <4>1, <4>2, <4>3
        <4>5. i.dest.base % 2 = 0 \/ i.dest.base % 2 = 1
          BY <4>1
        <4> QED BY <4>1, <4>2, <4>3, <4>4, <4>5, Constants
      <3>2. CASE i.op # "sts"
        BY <3>2 DEF ArchOK
      <3> QED BY <3>1, <3>2
    <2> HIDE DEF modes, b
    <2>3. b.link = Nowhere \/ b.link.base # 0
      BY <2>1 DEF ArchOK, MovedOn, Place
    <2>4. ~ b.halted => b.base # 0
      BY <2>1 DEF ArchOK, MovedOn
    <2>5. b.slots > 0 => b.dest.base # 0 /\ ~ b.halted
      BY <1>1, <2>1 DEF ArchOK, MovedOn, ArchType
    <2> QED BY <1>1, <2>1, <2>2, <2>3, <2>4, <2>5 DEF ArchOK, MovedOn, b
  <1>4. CASE Taken(i) /\ ~ EntersHandler(i)
    <2> DEFINE modes == IF i.op = "xret" THEN Tail(a.modes) ELSE a.modes
               dest == Target(a, i)
    <2>1. /\ Transferred(b, a, modes, dest, IsCall(i), DelaySlots(i), Succ(i.addr))
          /\ ~ a.halted /\ DelaySlots(i) \in {0, 2, 3}
      BY <1>1, <1>4, AfterTransfer, Kinds, SlotsOf DEF Fits, Real
    <2>2. Len(modes) \in 1 .. MaxNesting /\ (Len(modes) > 1 => a.saved.base # 0)
          /\ (Len(modes) = MaxNesting => modes[1] % 2 = 0)
      <3>1. CASE i.op = "xret"
        <4>1. a.modes \in Seq(0 .. 3) /\ Len(a.modes) \in Nat /\ Len(a.modes) > 1
              /\ Len(a.modes) <= MaxNesting
          BY <1>1, <3>1 DEF ArchType, ArchOK, Fits
        <4>2. Len(modes) = Len(a.modes) - 1
          BY <3>1, <4>1
        <4> HIDE DEF modes
        <4> QED BY <4>1, <4>2, Constants DEF ArchOK
      <3>2. CASE i.op # "xret"
        BY <3>2 DEF ArchOK
      <3> QED BY <3>1, <3>2
    <2>3. dest.base # 0 \/ (dest.base = 0 /\ i.op = "ret")
      <3>1. CASE i.op \in {"brcf", "call", "callr"}
        BY <1>4, <3>1, RealForms DEF Target, Real
      <3>2. CASE i.op = "xret"
        BY <3>2 DEF Target, Fits, ArchOK
      <3>3. CASE i.op = "br"
        BY <2>1, <3>3 DEF Target, Place, ArchOK
      <3> QED BY <1>4, <3>1, <3>2, <3>3 DEF Taken, Flows, CacheFlows, EntersHandler
    <2>4. DelaySlots(i) # 0 => dest.base # 0
      <3>1. DelaySlots(i) # 0 => i.delayed
        BY SlotsOf, <1>1
      <3>2. i.op = "ret" /\ i.delayed => a.link.base # 0
        BY DEF Fits, ArchOK
      <3>3. i.op = "ret" => dest = a.link
        BY DEF Target
      <3> QED BY <2>3, <3>1, <3>2, <3>3
    <2> HIDE DEF modes, b, dest
    <2>5. b.link = Nowhere \/ b.link.base # 0
      BY <2>1 DEF ArchOK, Transferred, Place
    <2>6. ~ b.halted => b.base # 0
      BY <2>1, <2>3, <2>4 DEF ArchOK, Transferred
    <2>7. b.slots > 0 => b.dest.base # 0 /\ ~ b.halted
      BY <1>1, <2>1, <2>4 DEF ArchOK, Transferred, ArchType
    <2> QED BY <1>1, <2>1, <2>2, <2>5, <2>6, <2>7 DEF ArchOK, Transferred, b
  <1>5. CASE Taken(i) /\ EntersHandler(i)
    <2> DEFINE from == IF i.op = "intr" THEN i.addr ELSE Succ(i.addr)
    <2>1. Entering(b, a, from) /\ a.slots = 0 /\ ~ a.halted
      BY <1>1, <1>5, AfterEntering DEF Fits, EntersHandler
    <2>2. Len(a.modes) < MaxNesting
      <3>1. CASE i.op = "trap"
        BY <3>1 DEF Fits
      <3>2. CASE i.op = "intr"
        <4>1. a.modes[1] % 2 = 1
          BY <3>2 DEF Fits
        <4>2. Len(a.modes) # MaxNesting /\ Len(a.modes) <= MaxNesting
          BY <4>1, Constants DEF ArchOK
        <4>3. Len(a.modes) \in Nat
          BY <1>1 DEF ArchType
        <4> QED BY <4>2, <4>3, Constants
      <3> QED BY <1>5, <3>1, <3>2 DEF EntersHandler
    <2>3. a.modes \in Seq(0 .. 3) /\ <<2>> \in Seq(0 .. 3) /\ Len(a.modes) \in Nat
      BY <1>1 DEF ArchType
    <2>4. Len(<<2>> \o a.modes) = 1 + Len(a.modes) /\ (<<2>> \o a.modes)[1] = 2
      BY <2>3
    <2>5. b.saved.base = a.base /\ a.base # 0
      BY <2>1 DEF Entering, Place, ArchOK
    <2> HIDE DEF b, from
    <2>6. Len(b.modes) = 1 + Len(a.modes) /\ b.modes[1] = 2
      BY <2>1, <2>4 DEF Entering
    <2>7. Len(b.modes) \in 1 .. MaxNesting /\ b.modes[1] % 2 = 0
      BY <2>2, <2>3, <2>6, Constants
    <2>8. b.base # 0 /\ b.slots = 0 /\ b.link = a.link
      BY <2>1, Constants DEF Entering
    <2> QED BY <1>1, <2>5, <2>7, <2>8 DEF ArchOK, b
  <1> QED BY <1>2, <1>3, <1>4, <1>5, Kinds

\* The address behind an instruction.
LEMMA AfterNext ==
  ASSUME NEW a, ArchOK(a), NEW i \in InStage, Fits(a, i)
  PROVE  /\ Kills(i) => After(a, i).next = Target(a, i).pc
         /\ ~ Kills(i) /\ Real(i) =>
              After(a, i).next = IF a.slots = 1 THEN a.dest.pc ELSE Succ(i.addr)
         /\ Taken(i) /\ i.delayed => After(a, i).dest = Target(a, i)
         /\ ~ Taken(i) /\ a.slots > 1 => After(a, i).dest = a.dest
  <1>1. a \in ArchType /\ Len(a.modes) > 0 /\ i.delayed \in BOOLEAN /\ a.slots \in 0 .. 3
    BY Constants DEF ArchOK, ArchType, InStage
  <1>2. CASE i.op \in {"bubble", "halt"}
    <2>1. After(a, i) = a /\ ~ Taken(i) /\ ~ Kills(i) /\ ~ Real(i)
      BY <1>2, AfterNothing DEF Taken, Flows, CacheFlows, Kills, Real
    <2> QED BY <2>1
  <1>3. CASE Real(i) /\ ~ Taken(i)
    <2>1. ~ Kills(i)
      BY <1>3, Kinds
    <2> QED BY <1>1, <1>3, <2>1, AfterStraight DEF MovedOn
  <1>4. CASE Taken(i) /\ ~ EntersHandler(i)
    <2>1. a.slots = 0
      BY <1>4, AfterSlots
    <2>2. CASE Kills(i)
      <3>1. DelaySlots(i) = 0
        BY <2>2, SlotsOf DEF Kills
      <3>2. ~ i.delayed
        BY <2>2 DEF Kills
      <3> QED BY <1>1, <1>4, <2>1, <2>2, <3>1, <3>2, AfterTransfer DEF Transferred
    <2>3. CASE ~ Kills(i)
      <3>1. DelaySlots(i) # 0 /\ i.delayed
        BY <1>1, <1>4, <2>3, SlotsOf, Kinds
      <3> QED BY <1>1, <1>4, <2>1, <2>3, <3>1, AfterTransfer DEF Transferred
    <2> QED BY <2>2, <2>3
  <1>5. CASE Taken(i) /\ EntersHandler(i)
    <2>1. Kills(i) /\ ~ i.delayed
      BY <1>5, Kinds DEF Kills
    <2>2. Target(a, i).pc = Handler
      BY <1>5 DEF Target, EntersHandler, Place
    <2> QED BY <1>1, <1>5, <2>1, <2>2, AfterEntering DEF Entering
  <1> QED BY <1>2, <1>3, <1>4, <1>5, Kinds

\* The method that will be active once the slots under way are through.
LEMMA AfterBase ==
  ASSUME NEW a, ArchOK(a), NEW i \in InStage, Fits(a, i)
  PROVE  EventualBase(After(a, i)) =
           IF Late(i) THEN Target(a, i).base ELSE EventualBase(a)
  <1>1. a \in ArchType /\ Len(a.modes) > 0 /\ i.delayed \in BOOLEAN /\ a.slots \in 0 .. 3
    BY Constants DEF ArchOK, ArchType, InStage
  <1>2. CASE i.op \in {"bubble", "halt"}
    BY <1>2, AfterNothing DEF Late, CacheFlows
  <1>3. CASE Real(i) /\ ~ Taken(i)
    <2>1. ~ Late(i)
      BY <1>3, Kinds
    <2> DEFINE b == After(a, i)
               modes == IF i.op = "sts" THEN [a.modes EXCEPT ![1] = i.dest.base]
                                        ELSE a.modes
    <2>2. MovedOn(b, a, modes, Succ(i.addr))
      BY <1>1, <1>3, AfterStraight
    <2> HIDE DEF b, modes
    <2>3. b.slots \in 0 .. 3 /\ (b.slots > 0 <=> a.slots > 1)
      BY <1>1, <2>2 DEF MovedOn
    <2>4. EventualBase(b) = EventualBase(a)
      BY <1>1, <2>2, <2>3 DEF MovedOn, EventualBase
    <2> QED BY <2>1, <2>4 DEF b
  <1>4. CASE Taken(i) /\ ~ EntersHandler(i)
    <2>1. a.slots = 0 /\ DelaySlots(i) \in {0, 2, 3}
      BY <1>4, AfterSlots, SlotsOf
    <2>2. ~ Late(i) => Target(a, i).base = a.base
      BY <1>4, Kinds DEF Target, Place
    <2> QED BY <1>1, <1>4, <2>1, <2>2, AfterTransfer DEF Transferred, EventualBase
  <1>5. CASE Taken(i) /\ EntersHandler(i)
    <2>1. Late(i) /\ Target(a, i).base = Handler
      BY <1>5, Kinds DEF Target, EntersHandler, Place
    <2> QED BY <1>1, <1>5, <2>1, AfterEntering DEF Entering, EventualBase
  <1> QED BY <1>2, <1>3, <1>4, <1>5, Kinds

\* The address that ret will return to once the slots under way are through.
LEMMA AfterLink ==
  ASSUME NEW a, ArchOK(a), NEW i \in InStage, Fits(a, i)
  PROVE  EventualLink(After(a, i)) =
           IF Late(i) /\ IsCall(i)
           THEN Place(a.base, IF i.delayed THEN Ahead(Succ(i.addr), 3) ELSE Succ(i.addr))
           ELSE EventualLink(a)
  <1>1. a \in ArchType /\ Len(a.modes) > 0 /\ i.delayed \in BOOLEAN /\ a.slots \in 0 .. 3
    BY Constants DEF ArchOK, ArchType, InStage
  <1>2. CASE i.op \in {"bubble", "halt"}
    BY <1>2, AfterNothing DEF Late, CacheFlows
  <1>3. CASE Real(i) /\ ~ Taken(i)
    <2>1. ~ Late(i) /\ i.addr = a.next
      BY <1>3, Kinds DEF Fits, Real
    <2> DEFINE b == After(a, i)
               modes == IF i.op = "sts" THEN [a.modes EXCEPT ![1] = i.dest.base]
                                        ELSE a.modes
    <2>4. MovedOn(b, a, modes, Succ(i.addr))
      BY <1>1, <1>3, AfterStraight
    <2> HIDE DEF b, modes
    <2>5. b.slots \in 0 .. 3 /\ (b.slots > 0 <=> a.slots > 1)
      BY <1>1, <2>4 DEF MovedOn
    <2>2. CASE a.slots > 1
      <3>1. /\ b.slots = a.slots - 1 /\ b.next = Succ(a.next) /\ b.base = a.base
            /\ b.link = a.link /\ b.calling = a.calling
        BY <1>1, <2>1, <2>2, <2>4 DEF MovedOn
      <3>2. Ahead(a.next, a.slots) = Ahead(Succ(a.next), a.slots - 1)
        <4>1. CASE a.slots = 2
          BY <4>1 DEF Ahead
        <4>2. CASE a.slots = 3
          BY <4>2 DEF Ahead
        <4> QED BY <1>1, <2>2, <4>1, <4>2
      <3>3. EventualLink(b) = EventualLink(a)
        BY <2>2, <2>5, <3>1, <3>2 DEF EventualLink
      <3> QED BY <2>1, <3>3 DEF b
    <2>3. CASE a.slots \in {0, 1}
      <3>1. b.slots = 0
        BY <1>1, <2>3, <2>4 DEF MovedOn
      <3>2. EventualLink(b) = b.link
        BY <3>1 DEF EventualLink
      <3>3. Ahead(a.next, 1) = Succ(i.addr)
        BY <2>1 DEF Ahead
      <3>4. EventualLink(a) = b.link
        BY <2>3, <2>4, <3>3 DEF EventualLink, MovedOn
      <3> QED BY <2>1, <3>2, <3>4 DEF b
    <2> QED BY <1>1, <2>2, <2>3
  <1>4. CASE Taken(i) /\ ~ EntersHandler(i)
    <2>1. a.slots = 0 /\ DelaySlots(i) \in {0, 2, 3}
      BY <1>4, AfterSlots, SlotsOf
    <2>2. IsCall(i) => Late(i) /\ (DelaySlots(i) = IF i.delayed THEN 3 ELSE 0)
      BY <1>1, <1>4, SlotsOf DEF IsCall, Late, Taken, CacheFlows
    <2> QED BY <1>1, <1>4, <2>1, <2>2, AfterTransfer DEF Transferred, EventualLink
  <1>5. CASE Taken(i) /\ EntersHandler(i)
    <2>1. ~ IsCall(i)
      BY <1>5 DEF EntersHandler, IsCall
    <2> QED BY <1>1, <1>5, <2>1, AfterEntering DEF Entering, EventualLink
  <1> QED BY <1>2, <1>3, <1>4, <1>5, Kinds

\* Once there has been a call, there is somewhere to return to.
LEMMA LinkStays ==
  ASSUME NEW a, ArchOK(a), NEW i \in InStage, Fits(a, i), a.link # Nowhere
  PROVE  After(a, i).link # Nowhere
  <1>1. a \in ArchType /\ Len(a.modes) > 0
    BY Constants DEF ArchOK, ArchType
  <1>2. CASE i.op \in {"bubble", "halt"}
    BY <1>2, AfterNothing
  <1>3. CASE Real(i) /\ ~ Taken(i)
    <2>1. a.base # 0
      BY <1>3 DEF Fits, Real, ArchOK
    <2> DEFINE b == After(a, i)
               modes == IF i.op = "sts" THEN [a.modes EXCEPT ![1] = i.dest.base]
                                        ELSE a.modes
    <2>2. MovedOn(b, a, modes, Succ(i.addr))
      BY <1>1, <1>3, AfterStraight
    <2> HIDE DEF b, modes
    <2>3. b.link = a.link \/ b.link.base = a.base
      BY <2>2 DEF MovedOn, Place
    <2>4. Nowhere.base = 0
      BY DEF Nowhere
    <2> QED BY <2>1, <2>3, <2>4 DEF b
  <1>4. CASE Taken(i) /\ ~ EntersHandler(i)
    <2>1. a.base # 0
      BY <1>4, Kinds DEF Fits, Real, ArchOK
    <2> DEFINE b == After(a, i)
               modes == IF i.op = "xret" THEN Tail(a.modes) ELSE a.modes
    <2>2. Transferred(b, a, modes, Target(a, i), IsCall(i), DelaySlots(i), Succ(i.addr))
      BY <1>1, <1>4, AfterTransfer
    <2> HIDE DEF b, modes
    <2>3. b.link = a.link \/ b.link.base = a.base
      BY <2>2 DEF Transferred, Place
    <2>4. Nowhere.base = 0
      BY DEF Nowhere
    <2> QED BY <2>1, <2>3, <2>4 DEF b
  <1>5. CASE Taken(i) /\ EntersHandler(i)
    BY <1>1, <1>5, AfterEntering DEF Entering
  <1> QED BY <1>2, <1>3, <1>4, <1>5, Kinds

\* After and Fits do not depend on done, nor on what EX reads into dest.
SameInstruction(i, j) ==
  /\ j.op = i.op /\ j.delayed = i.delayed /\ j.guard = i.guard /\ j.addr = i.addr
  /\ i.op \notin {"ret", "xret", "trap"} => j.dest = i.dest

\* The destination and done, which stages fill in, change no meaning.
LEMMA SameMeaning ==
  ASSUME NEW a, NEW i \in InStage, NEW j \in InStage, SameInstruction(i, j)
  PROVE  /\ After(a, j) = After(a, i)
         /\ Fits(a, i) => Fits(a, j)
         /\ Kills(j) <=> Kills(i)
         /\ Late(j) <=> Late(i)
         /\ KillsLate(j) <=> KillsLate(i)
         /\ Doomed(j) <=> Doomed(i)
         /\ None(j) <=> None(i)
  <1>1. After(a, j) = After(a, i)
    <2>1. DelaySlots(j) = DelaySlots(i)
      BY DEF DelaySlots, SameInstruction
    <2>2. CASE i.op \in {"ret", "xret", "trap"}
      BY <2>1, <2>2 DEF After, Real, Meaning, SameInstruction
    <2>3. CASE i.op \notin {"ret", "xret", "trap"}
      BY <2>1, <2>3 DEF After, Real, Meaning, SameInstruction
    <2> QED BY <2>2, <2>3
  <1>2. Fits(a, i) => Fits(a, j)
    <2>1. AsWritten(i) => AsWritten(j)
      BY DEF AsWritten, SameInstruction
    <2> QED BY <2>1 DEF Fits, SameInstruction, None, Real
  <1> QED BY <1>1, <1>2 DEF SameInstruction, Kills, Late, KillsLate, Doomed, None

-----------------------------------------------------------------------------
(* The modes in Status.                                                     *)

\* A set of natural numbers that is not empty has a least element.
LEMMA LeastElement ==
  ASSUME NEW T \in SUBSET Nat, T # {}
  PROVE  \E n \in T : \A m \in T : n <= m
  <1>1. IsWellFoundedOn(OpToRel(<, Nat), Nat)
    BY NatLessThanWellFounded
  <1>2. \E n \in T : \A m \in T : <<m, n>> \notin OpToRel(<, Nat)
    BY <1>1, WFMin
  <1>3. \E n \in T : \A m \in T : ~ (m < n)
    BY <1>2 DEF OpToRel
  <1> QED BY <1>3

\* Induction for sets: it needs no operator as a parameter.
LEMMA SetInduction ==
  ASSUME NEW S, 0 \in S, \A n \in Nat : n \in S => n + 1 \in S
  PROVE  Nat \subseteq S
  <1> SUFFICES ASSUME Nat \ S # {} PROVE FALSE
    OBVIOUS
  <1>1. PICK n \in Nat \ S : \A m \in Nat \ S : n <= m
    BY LeastElement
  <1>2. n # 0 /\ n - 1 \in Nat /\ n - 1 < n
    BY <1>1
  <1>3. n - 1 \in S
    BY <1>1, <1>2
  <1> QED BY <1>2, <1>3

\* A fold takes the least index first.
LEMMA FirstOfSet ==
  ASSUME NEW l \in Nat, NEW n \in Nat, NEW s \in SUBSET (l .. n), l \in s
  PROVE  Min(s) = l /\ s \ {l} \in SUBSET (l + 1 .. n)
  <1>1. \A y \in s : l <= y
    OBVIOUS
  <1>2. Min(s) \in s /\ Min(s) <= l
    BY <1>1 DEF Min
  <1>3. Min(s) = l
    <2>1. \A x \in s : x <= l => x = l
      OBVIOUS
    <2> QED BY <1>2, <2>1
  <1>4. \A x \in s : x # l => x \in l + 1 .. n
    OBVIOUS
  <1> QED BY <1>3, <1>4

\* The fold that Encoded stands for, over the sets of the indexes from l to n.
FoldOf(s, l, n, g) ==
  g = [S \in SUBSET (l .. n) |->
         IF S = {} THEN 0 ELSE s[Min(S)] + (4 * g[S \ {Min(S)}])]

\* The fold over the indices of a sequence is defined.
LEMMA FoldExists ==
  ASSUME NEW s, NEW n \in Nat
  PROVE  \E g : FoldOf(s, 1, n, g)
  <1> DEFINE T == {j \in Nat : j <= n => \E g : FoldOf(s, (n + 1) - j, n, g)}
  <1>1. 0 \in T
    <2> DEFINE g == [S \in SUBSET (n + 1 .. n) |-> 0]
    <2>1. SUBSET (n + 1 .. n) = {{}}
      OBVIOUS
    <2>2. FoldOf(s, n + 1, n, g)
      BY <2>1 DEF FoldOf
    <2> QED BY <2>2
  <1>2. \A j \in Nat : j \in T => j + 1 \in T
    <2> SUFFICES ASSUME NEW j \in Nat, j + 1 <= n, NEW g, FoldOf(s, (n + 1) - j, n, g)
                 PROVE  \E h : FoldOf(s, n - j, n, h)
      <3>1. \A j \in Nat : (n + 1) - (j + 1) = n - j /\ (j + 1 <= n => j <= n)
        OBVIOUS
      <3> QED BY <3>1
    <2> DEFINE l == n - j
               h == [S \in SUBSET (l .. n) |->
                       IF l \in S THEN s[l] + (4 * g[S \ {l}]) ELSE g[S]]
    <2>1. l \in Nat /\ l + 1 = (n + 1) - j
      OBVIOUS
    <2> HIDE DEF l
    <2>2. ASSUME NEW S \in SUBSET (l .. n)
          PROVE  h[S] = IF S = {} THEN 0 ELSE s[Min(S)] + (4 * h[S \ {Min(S)}])
      <3>1. CASE l \in S
        <4>1. Min(S) = l /\ S \ {l} \in SUBSET (l + 1 .. n)
          BY <2>1, <3>1, FirstOfSet
        <4>2. h[S \ {l}] = g[S \ {l}]
          BY <4>1
        <4> QED BY <3>1, <4>1, <4>2
      <3>2. CASE l \notin S
        <4>1. S \in SUBSET (l + 1 .. n)
          BY <2>1, <3>2
        <4>2. h[S] = g[S]
          BY <3>2
        <4>3. g[S] = IF S = {} THEN 0 ELSE s[Min(S)] + (4 * g[S \ {Min(S)}])
          BY <2>1, <4>1 DEF FoldOf
        <4>4. h[S \ {Min(S)}] = g[S \ {Min(S)}]
          BY <3>2
        <4> QED BY <4>2, <4>3, <4>4
      <3> QED BY <3>1, <3>2
    <2>3. h = [S \in SUBSET (l .. n) |->
                 IF S = {} THEN 0 ELSE s[Min(S)] + (4 * h[S \ {Min(S)}])]
      BY <2>2
    <2>4. FoldOf(s, l, n, h)
      BY <2>3 DEF FoldOf
    <2> QED BY <2>4 DEF l
  <1> HIDE DEF T
  <1>3. n \in T
    BY <1>1, <1>2, SetInduction
  <1> QED BY <1>3 DEF T

\* t[k] is what the modes behind the first k stand for.
Weights(s, t) ==
  /\ t \in [0 .. Len(s) -> Nat]
  /\ t[Len(s)] = 0
  /\ \A k \in 1 .. Len(s) : t[k - 1] = s[k] + (4 * t[k])

\* Encoded is such a fold.
LEMMA EncodedIsFolded ==
  ASSUME NEW s, NEW n \in Nat, DOMAIN s = 1 .. n
  PROVE  \E g : FoldOf(s, 1, n, g) /\ Encoded(s) = g[1 .. n]
  <1> DEFINE g == CHOOSE g : FoldOf(s, 1, n, g)
  <1>1. FoldOf(s, 1, n, g)
    BY FoldExists
  <1>2. Encoded(s) = g[1 .. n]
    BY DEF Encoded, FoldRight, MapThenFoldSet, FoldOf
  <1> QED BY <1>1, <1>2

\* Encoded by the values of the sequence's ends, from its last element on.
LEMMA WeightsExist ==
  ASSUME NEW s \in Seq(0 .. 3)
  PROVE  \E t : Weights(s, t) /\ Encoded(s) = t[0]
  <1> DEFINE n == Len(s)
  <1>1. n \in Nat /\ DOMAIN s = 1 .. n /\ \A k \in 1 .. n : s[k] \in Nat
    OBVIOUS
  <1>2. PICK g : FoldOf(s, 1, n, g) /\ Encoded(s) = g[1 .. n]
    BY <1>1, EncodedIsFolded
  <1> DEFINE t == [k \in 0 .. n |-> g[k + 1 .. n]]
  <1>3. t[n] = 0
    <2>1. n + 1 .. n = {}
      BY <1>1
    <2>2. g[{}] = 0
      BY <1>2 DEF FoldOf
    <2> QED BY <1>1, <2>1, <2>2
  <1>4. ASSUME NEW k \in 1 .. n
        PROVE  t[k - 1] = s[k] + (4 * t[k])
    <2>1. k \in Nat /\ k - 1 \in 0 .. n /\ k \in 0 .. n /\ (k - 1) + 1 = k
      BY <1>1
    <2>2. k \in k .. n /\ k .. n \in SUBSET (1 .. n) /\ k .. n # {}
          /\ k .. n \in SUBSET (k .. n)
      <3>1. k \in k .. n
        BY <1>1
      <3>2. \A i \in k .. n : i \in 1 .. n
        BY <1>1
      <3> QED BY <3>1, <3>2
    <2>3. Min(k .. n) = k
      BY <1>1, <2>1, <2>2, FirstOfSet
    <2>4. (k .. n) \ {k} = k + 1 .. n
      BY <1>1
    <2>5. g[k .. n] = s[Min(k .. n)] + (4 * g[(k .. n) \ {Min(k .. n)}])
      BY <1>2, <2>2 DEF FoldOf
    <2> QED BY <2>1, <2>3, <2>4, <2>5
  <1> HIDE DEF t, n
  <1>5. \A k \in 0 .. n : t[k] \in Nat
    <2> DEFINE S == {j \in Nat : j <= n => t[n - j] \in Nat}
    <2>1. 0 \in S
      BY <1>1, <1>3
    <2>2. ASSUME NEW j \in Nat, j \in S PROVE j + 1 \in S
      <3> SUFFICES ASSUME j + 1 <= n PROVE t[n - (j + 1)] \in Nat
        OBVIOUS
      <3>1. n - j \in 1 .. n /\ (n - j) - 1 = n - (j + 1) /\ t[n - j] \in Nat
        BY <1>1, <2>2
      <3>2. t[n - (j + 1)] = s[n - j] + (4 * t[n - j])
        BY <1>4, <3>1
      <3> QED BY <1>1, <3>1, <3>2
    <2> HIDE DEF S
    <2>3. Nat \subseteq S
      BY <2>1, <2>2, SetInduction
    <2>4. ASSUME NEW k \in 0 .. n PROVE t[k] \in Nat
      <3>1. n - k \in Nat /\ n - k <= n /\ n - (n - k) = k
        BY <1>1
      <3> QED BY <2>3, <3>1 DEF S
    <2> QED BY <2>4
  <1>6. Weights(s, t)
    <2>1. t \in [0 .. n -> Nat]
      BY <1>5 DEF t
    <2> QED BY <2>1, <1>3, <1>4 DEF Weights, n
  <1>7. Encoded(s) = t[0]
    BY <1>1, <1>2 DEF t
  <1> QED BY <1>6, <1>7

\* The values of the ends determine Encoded.
LEMMA WeightsAgree ==
  ASSUME NEW s \in Seq(0 .. 3), NEW t, Weights(s, t)
  PROVE  Encoded(s) = t[0] /\ Encoded(s) \in Nat
  <1>1. PICK u : Weights(s, u) /\ Encoded(s) = u[0]
    BY WeightsExist
  <1> DEFINE n == Len(s)
             S == {j \in Nat : j <= n => t[n - j] = u[n - j]}
  <1>2. n \in Nat
    OBVIOUS
  <1>3. 0 \in S
    BY <1>1, <1>2 DEF Weights
  <1>4. ASSUME NEW j \in Nat, j \in S PROVE j + 1 \in S
    <2> SUFFICES ASSUME j + 1 <= n PROVE t[n - (j + 1)] = u[n - (j + 1)]
      OBVIOUS
    <2>1. n - j \in 1 .. n /\ (n - j) - 1 = n - (j + 1) /\ t[n - j] = u[n - j]
      BY <1>2, <1>4
    <2>2. /\ t[(n - j) - 1] = s[n - j] + (4 * t[n - j])
          /\ u[(n - j) - 1] = s[n - j] + (4 * u[n - j])
      BY <1>1, <2>1 DEF Weights
    <2> QED BY <2>1, <2>2
  <1> HIDE DEF S, n
  <1>5. Nat \subseteq S
    BY <1>3, <1>4, SetInduction
  <1>6. t[n - n] = u[n - n] /\ n - n = 0
    BY <1>2, <1>5 DEF S
  <1>7. 0 \in 0 .. Len(s)
    BY <1>2 DEF n
  <1> QED BY <1>1, <1>6, <1>7 DEF Weights

\* Status with one more mode.
LEMMA EncodedPushed ==
  ASSUME NEW m \in 0 .. 3, NEW s \in Seq(0 .. 3)
  PROVE  Encoded(<<m>> \o s) = m + (4 * Encoded(s)) /\ Encoded(s) \in Nat
  <1>1. PICK t : Weights(s, t) /\ Encoded(s) = t[0]
    BY WeightsExist
  <1> DEFINE w == <<m>> \o s
             r == [k \in 0 .. Len(w) |-> IF k = 0 THEN m + (4 * t[0]) ELSE t[k - 1]]
  <1>2. /\ w \in Seq(0 .. 3) /\ Len(w) = Len(s) + 1 /\ Len(s) \in Nat
        /\ \A k \in 1 .. Len(w) : w[k] = IF k = 1 THEN m ELSE s[k - 1]
    OBVIOUS
  <1>3. t \in [0 .. Len(s) -> Nat] /\ t[Len(s)] = 0
        /\ \A k \in 1 .. Len(s) : t[k - 1] = s[k] + (4 * t[k])
    BY <1>1 DEF Weights
  <1> HIDE DEF w
  <1>4. r \in [0 .. Len(w) -> Nat]
    <2>1. ASSUME NEW k \in 0 .. Len(w) PROVE r[k] \in Nat
      <3>1. 0 \in 0 .. Len(s) /\ (k # 0 => k - 1 \in 0 .. Len(s))
        BY <1>2
      <3>2. t[0] \in Nat /\ (k # 0 => t[k - 1] \in Nat)
        BY <1>3, <3>1
      <3> QED BY <3>2
    <2> QED BY <2>1
  <1>5. r[Len(w)] = 0
    <2>1. Len(w) \in 0 .. Len(w) /\ Len(w) # 0 /\ Len(w) - 1 = Len(s)
      BY <1>2
    <2> QED BY <1>3, <2>1
  <1>6. ASSUME NEW k \in 1 .. Len(w)
        PROVE  r[k - 1] = w[k] + (4 * r[k])
    <2>1. k \in 0 .. Len(w) /\ k - 1 \in 0 .. Len(w) /\ k # 0 /\ r[k] = t[k - 1]
      BY <1>2
    <2>2. CASE k = 1
      BY <1>2, <2>1, <2>2
    <2>3. CASE k # 1
      <3>1. k - 1 \in 1 .. Len(s) /\ k - 1 # 0
        BY <1>2, <2>3
      <3>2. r[k - 1] = t[(k - 1) - 1]
        BY <2>1, <3>1
      <3>3. w[k] = s[k - 1]
        BY <1>2, <2>3
      <3> QED BY <1>3, <2>1, <3>1, <3>2, <3>3
    <2> QED BY <2>2, <2>3
  <1>7. Weights(w, r)
    <2> HIDE DEF r
    <2> QED BY <1>4, <1>5, <1>6 DEF Weights
  <1>8. Encoded(w) = r[0] /\ r[0] = m + (4 * t[0])
    <2>1. 0 \in 0 .. Len(w)
      BY <1>2
    <2> QED BY <1>2, <1>7, <2>1, WeightsAgree
  <1> QED BY <1>1, <1>8, WeightsAgree DEF w

\* Status without its current mode, and with another one in its place.
LEMMA EncodedSplit ==
  ASSUME NEW s \in Seq(0 .. 3), Len(s) > 0
  PROVE  /\ Tail(s) \in Seq(0 .. 3) /\ s[1] \in 0 .. 3
         /\ Encoded(Tail(s)) \in Nat /\ Encoded(s) \in Nat
         /\ Encoded(s) = s[1] + (4 * Encoded(Tail(s)))
         /\ \A m \in 0 .. 3 :
              Encoded([s EXCEPT ![1] = m]) = m + (4 * Encoded(Tail(s)))
  <1>1. Tail(s) \in Seq(0 .. 3) /\ s[1] \in 0 .. 3 /\ s # << >>
    OBVIOUS
  <1>2. s = <<s[1]>> \o Tail(s)
    BY <1>1
  <1>3. ASSUME NEW m \in 0 .. 3
        PROVE  [s EXCEPT ![1] = m] = <<m>> \o Tail(s)
    BY <1>1
  <1>4. Encoded(s) = s[1] + (4 * Encoded(Tail(s))) /\ Encoded(Tail(s)) \in Nat
    BY <1>1, <1>2, EncodedPushed
  <1>5. ASSUME NEW m \in 0 .. 3
        PROVE  Encoded([s EXCEPT ![1] = m]) = m + (4 * Encoded(Tail(s)))
    BY <1>1, <1>3, EncodedPushed
  <1> QED BY <1>1, <1>4, <1>5

\* Status has room for the modes that may be kept at once.
LEMMA StatusHasRoom ==
  ASSUME NEW s \in Seq(0 .. 3), Len(s) <= MaxNesting
  PROVE  Encoded(s) < StatusSpan
  <1>1. s \in [1 .. Len(s) -> 0 .. 3] /\ Len(s) \in 0 .. MaxNesting
    BY Constants
  <1>2. s \in BoundedSeq(0 .. 3, MaxNesting)
    BY <1>1 DEF BoundedSeq, SeqOf
  <1> QED BY <1>2, PipelineAssumption

-----------------------------------------------------------------------------
(* What the invariant says of the machine before each stage.                *)

\* The four instructions in the pipeline are instructions.
LEMMA StageTypes ==
  ASSUME TypeInv
  PROVE  MW \in InStage /\ EX \in InStage /\ DR \in InStage /\ Fetched \in InStage
  BY DEF TypeInv, Stages, MW, EX, DR, Fetched

\* The machine is in order behind every stage whose instruction will be executed.
LEMMA ChainOK ==
  ASSUME TypeInv, ChainInv
  PROVE  /\ ArchOK(arch) /\ ArchOK(AfterMW)
         /\ LiveEX => ArchOK(AfterEX)
         /\ LiveDR => ArchOK(AfterDR)
  <1>1. MW \in InStage /\ EX \in InStage /\ DR \in InStage
    BY StageTypes
  <1>2. ArchOK(arch) /\ ArchOK(AfterMW)
    BY <1>1, AfterOK DEF ChainInv, AfterMW
  <1>3. LiveEX => ArchOK(AfterEX)
    BY <1>1, <1>2, AfterOK DEF ChainInv, AfterEX
  <1>4. LiveDR => ArchOK(AfterDR)
    BY <1>1, <1>2, <1>3, AfterOK DEF ChainInv, AfterDR, LiveDR
  <1> QED BY <1>2, <1>3, <1>4

\* A machine that has come to its end stays there: there is nothing left to do.
LEMMA HaltedFits ==
  ASSUME NEW a, a.halted, NEW i \in InStage, Fits(a, i)
  PROVE  i.op \in {"bubble", "halt"} /\ After(a, i) = a
  BY AfterNothing DEF Fits

\* At the end of the program there is nothing but bubbles and halt.
LEMMA HaltedChain ==
  ASSUME TypeInv, ChainInv, arch.halted
  PROVE  /\ MW.op \in {"bubble", "halt"} /\ EX.op \in {"bubble", "halt"}
         /\ DR.op \in {"bubble", "halt"}
         /\ LiveIF /\ AfterMW = arch /\ AfterEX = arch /\ AfterDR = arch
  <1>1. MW \in InStage /\ EX \in InStage /\ DR \in InStage
    BY StageTypes
  <1>2. MW.op \in {"bubble", "halt"} /\ AfterMW = arch /\ LiveEX
    BY <1>1, HaltedFits DEF ChainInv, AfterMW, LiveEX, KillsLate, Late, CacheFlows
  <1>3. EX.op \in {"bubble", "halt"} /\ AfterEX = arch /\ LiveDR
    BY <1>1, <1>2, HaltedFits DEF ChainInv, AfterEX, LiveDR, Kills, Flows, CacheFlows
  <1>4. DR.op \in {"bubble", "halt"} /\ AfterDR = arch /\ LiveIF
    BY <1>1, <1>3, HaltedFits DEF ChainInv, AfterDR, LiveIF, Kills, Flows, CacheFlows
  <1> QED BY <1>2, <1>3, <1>4

\* The slots that are left behind each stage.
LEMMA ChainSlots ==
  ASSUME TypeInv, ChainInv
  PROVE  LET left(n) == IF n > 0 THEN n - 1 ELSE 0
             slots(i, n) == IF Taken(i) /\ i.delayed
                            THEN (IF i.op = "br" THEN 2 ELSE 3) ELSE left(n)
         IN  /\ arch.slots \in 0 .. 3
             /\ AfterMW.slots = slots(MW, arch.slots)
             /\ LiveEX => AfterEX.slots = slots(EX, AfterMW.slots)
             /\ LiveDR => AfterDR.slots = slots(DR, AfterEX.slots)
  <1>1. MW \in InStage /\ EX \in InStage /\ DR \in InStage
    BY StageTypes
  <1>2. arch.slots \in 0 .. 3
    BY DEF ChainInv, ArchOK, ArchType
  <1>3. AfterMW.slots = IF Taken(MW) /\ MW.delayed
                        THEN (IF MW.op = "br" THEN 2 ELSE 3)
                        ELSE IF arch.slots > 0 THEN arch.slots - 1 ELSE 0
    BY <1>1, AfterSlots DEF ChainInv, AfterMW
  <1>4. LiveEX => AfterEX.slots = IF Taken(EX) /\ EX.delayed
                                  THEN (IF EX.op = "br" THEN 2 ELSE 3)
                                  ELSE IF AfterMW.slots > 0 THEN AfterMW.slots - 1 ELSE 0
    BY <1>1, ChainOK, AfterSlots DEF ChainInv, AfterEX
  <1>5. LiveDR => AfterDR.slots = IF Taken(DR) /\ DR.delayed
                                  THEN (IF DR.op = "br" THEN 2 ELSE 3)
                                  ELSE IF AfterEX.slots > 0 THEN AfterEX.slots - 1 ELSE 0
    BY <1>1, ChainOK, AfterSlots DEF ChainInv, AfterDR, LiveDR
  <1> QED BY <1>2, <1>3, <1>4, <1>5

\* Behind a transfer that throws out what follows it there are no slots.
LEMMA KilledSlots ==
  ASSUME NEW a, ArchOK(a), NEW i \in InStage, Fits(a, i), Kills(i)
  PROVE  After(a, i).slots = 0
  <1>1. ~ i.delayed /\ Taken(i) /\ a.slots = 0
    BY AfterSlots, Kinds DEF Kills
  <1> QED BY <1>1, AfterSlots

\* A bubble fits wherever no slots are left.
LEMMA NoneFits ==
  ASSUME NEW a, NEW i, None(i), a.slots = 0
  PROVE  Fits(a, i) /\ After(a, i) = a /\ ~ Kills(i) /\ ~ KillsLate(i) /\ Doomed(i)
  BY AfterNothing DEF Fits, None, Real, Kills, KillsLate, Late, Flows, CacheFlows, Doomed

-----------------------------------------------------------------------------
(* The stages move on.                                                      *)

Moves == DR_ /\ running /\ ~ stalled /\ UNCHANGED program

\* The stages when they move on.
LEMMA MovedStages ==
  ASSUME TypeInv, Moves
  PROVE  /\ MW' = EX /\ EX' = DR /\ DR' = Fetched /\ Fetched' = NoInstruction
         /\ pipe' \in [Stages -> InStage]
         /\ turn = "DR" /\ turn' = "IF" /\ stalled' = FALSE /\ disableIF' = FALSE
         /\ pc' = nPC /\ Retire
         /\ UNCHANGED <<nPC, base, delay, handling, halt, running, regs, program>>
  <1>1. Move /\ turn = "DR"
    BY DEF Moves, DR_
  <1>2. MW' = EX /\ EX' = DR /\ DR' = Fetched /\ Fetched' = NoInstruction
    BY <1>1 DEF Move, Stages, MW, EX, DR, Fetched
  <1>3. NoInstruction \in InStage
    BY DEF NoInstruction, InStage, StageOps, Nowhere, Places
  <1>4. pipe' \in [Stages -> InStage]
    BY <1>1, <1>3 DEF Move, Stages, TypeInv
  <1> QED BY <1>1, <1>2, <1>4 DEF Moves, DR_, Move

\* What leaves MW has been executed, and the others are one stage nearer.
LEMMA RetiredInstruction ==
  ASSUME TypeInv, ChainInv, TurnInv, Moves
  PROVE  /\ arch' = AfterMW /\ MW.op # "halt"
         /\ AfterMW' = AfterEX /\ AfterEX' = AfterDR /\ AfterDR' = AfterFetched
  <1>1. MW.op # "halt" /\ Retire
    BY MovedStages DEF TurnInv
  <1>2. arch' = AfterMW
    BY <1>1 DEF Retire, AfterMW, After, Real
  <1> QED BY <1>1, <1>2, MovedStages DEF AfterMW, AfterEX, AfterDR, AfterFetched

\* What is flushed is gone when the stages move on.
LEMMA NothingBehind ==
  ASSUME TypeInv, ChainInv, TurnInv, FlushInv, Moves
  PROVE  /\ ~ LiveEX => None(EX) /\ None(DR) /\ None(Fetched)
         /\ LiveEX /\ Kills(EX) /\ ~ KillsLate(EX) => None(DR) /\ None(Fetched)
         /\ ~ LiveEX => AfterMW.slots = 0
         /\ LiveEX /\ Kills(EX) => AfterEX.slots = 0
         /\ LiveDR /\ Kills(DR) => AfterDR.slots = 0
  <1>1. turn = "DR" /\ ~ stalled /\ MW \in InStage /\ EX \in InStage /\ DR \in InStage
    BY MovedStages, StageTypes DEF Moves
  <1>2. KillsLate(MW) => Kills(MW)
    BY DEF KillsLate, Late, Kills, Flows
  <1>3. ~ LiveEX => None(EX) /\ None(DR) /\ None(Fetched) /\ AfterMW.slots = 0
    BY <1>1, <1>2, ChainOK, KilledSlots DEF FlushInv, LiveEX, AfterMW, ChainInv
  <1>4. Kills(EX) /\ ~ KillsLate(EX) => EX.op = "br"
    BY DEF KillsLate, Late, Kills, Flows
  <1>5. LiveEX /\ Kills(EX) => AfterEX.slots = 0
    BY <1>1, ChainOK, KilledSlots DEF AfterEX, ChainInv
  <1>6. LiveDR /\ Kills(DR) => AfterDR.slots = 0
    BY <1>1, ChainOK, KilledSlots DEF AfterDR, ChainInv, LiveDR
  <1> QED BY <1>1, <1>3, <1>4, <1>5, <1>6 DEF FlushInv

\* Transfers of the method cache carry their destination when they leave MW.
LEMMA LateTarget ==
  ASSUME ReadyInv, Late(MW)
  PROVE  Target(arch, MW) = MW.dest
  BY DEF ReadyInv, Late, Target, CacheFlows

\* No transfer is taken in a delay slot.
LEMMA TakenBehindTransfer ==
  ASSUME NEW a, ArchOK(a), NEW i \in InStage, Fits(a, i), Taken(i)
  PROVE  a.slots = 0
  BY AfterSlots

\* The address that the stages lead to is the one the program counter takes.
LEMMA MovePC ==
  ASSUME TypeInv, ChainInv, TurnInv, FlushInv, NextPCInv, HaltInv, ReadyInv, Moves,
         ~ halt, ~ KillsLate(EX), ~ Kills(DR), ~ Kills(Fetched)
  PROVE  nPC = AfterFetched.next
  <1>1. /\ turn = "DR" /\ Applied /\ disableIF
        /\ MW \in InStage /\ EX \in InStage /\ DR \in InStage /\ Fetched \in InStage
    BY MovedStages, StageTypes DEF TurnInv, Moves, Applied
  <1>2. ArchOK(arch) /\ Fits(arch, MW) /\ ArchOK(AfterMW)
    BY ChainOK DEF ChainInv
  <1>3. Late(MW) => nPC = MW.dest.pc
    BY <1>1 DEF NextPCInv
  <1>4. CASE ~ LiveEX
    <2>1. None(EX) /\ None(DR) /\ None(Fetched) /\ Late(MW) /\ Kills(MW)
      BY <1>4, NothingBehind DEF LiveEX, KillsLate, Late, Kills, Flows
    <2>2. AfterFetched = AfterMW
      BY <2>1, AfterNothing DEF None, AfterFetched, AfterDR, AfterEX
    <2>3. AfterMW.next = Target(arch, MW).pc
      BY <1>1, <1>2, <2>1, AfterNext DEF AfterMW
    <2> QED BY <1>3, <2>1, <2>2, <2>3, LateTarget
  <1>5. CASE LiveEX /\ Kills(EX)
    <2>1. None(DR) /\ None(Fetched) /\ EX.op = "br" /\ EX.guard /\ Taken(EX)
      BY <1>5, NothingBehind DEF KillsLate, Late, Kills, Flows, Taken
    <2>2. AfterFetched = AfterEX
      BY <2>1, AfterNothing DEF None, AfterFetched, AfterDR
    <2>3. Fits(AfterMW, EX) /\ AfterMW.slots = 0
      BY <1>1, <1>2, <1>5, <2>1, TakenBehindTransfer DEF ChainInv
    <2>4. ~ Late(MW)
      <3>1. Late(MW) => Taken(MW) /\ MW.delayed
        BY <1>5 DEF LiveEX, KillsLate, Late, Taken, Flows
      <3> QED BY <2>3, <3>1, ChainSlots
    <2>5. AfterEX.next = EX.dest.pc
      BY <1>1, <1>2, <1>5, <2>1, <2>3, AfterNext DEF AfterEX, Target, Place
    <2> QED BY <1>1, <2>1, <2>2, <2>4, <2>5 DEF NextPCInv
  <1>6. CASE LiveIF
    <2>1. /\ LiveEX /\ LiveDR /\ ArchOK(AfterEX) /\ ArchOK(AfterDR)
          /\ Fits(AfterMW, EX) /\ Fits(AfterEX, DR) /\ Fits(AfterDR, Fetched)
          /\ ~ None(Fetched) /\ Fetched.op # "halt"
      BY <1>1, <1>6, ChainOK DEF ChainInv, LiveIF, LiveDR
    <2>2. Real(Fetched)
      <3>1. Fetched.op = "intr" => Kills(Fetched)
        BY <2>1 DEF Fits, Kills, Flows, CacheFlows
      <3> QED BY <2>1, <3>1 DEF Real, None
    <2>3. AfterFetched.next = IF AfterDR.slots = 1 THEN AfterDR.dest.pc
                                                  ELSE Succ(Fetched.addr)
      BY <1>1, <2>1, <2>2, AfterNext DEF AfterFetched
    <2>4. /\ AfterMW.slots \in 0 .. 3 /\ AfterEX.slots \in 0 .. 3
          /\ Taken(EX) => AfterMW.slots = 0
          /\ Taken(DR) => AfterEX.slots = 0
      BY <1>1, <1>2, <2>1, TakenBehindTransfer DEF ArchOK, ArchType
    <2>5. CASE Late(MW)
      <3>1. Taken(MW) /\ MW.delayed /\ MW.op # "br"
        BY <2>1, <2>5 DEF LiveEX, KillsLate, Late, Taken, Flows, CacheFlows
      <3>2. AfterMW.slots = 3 /\ ~ Taken(EX)
        BY <2>4, <3>1, ChainSlots
      <3>3. AfterEX.slots = 2 /\ ~ Taken(DR)
        BY <2>1, <2>4, <3>2, ChainSlots
      <3>4. AfterDR.slots = 1
        BY <2>1, <3>3, ChainSlots
      <3>5. AfterMW.dest = MW.dest
        BY <1>1, <1>2, <2>5, <3>1, AfterNext, LateTarget DEF AfterMW
      <3>6. AfterEX.dest = AfterMW.dest
        BY <1>1, <1>2, <2>1, <3>2, AfterNext DEF AfterEX
      <3>7. AfterDR.dest = AfterEX.dest
        BY <1>1, <2>1, <3>3, AfterNext DEF AfterDR
      <3> QED BY <1>3, <2>3, <2>5, <3>4, <3>5, <3>6, <3>7
    <2>6. CASE ~ Late(MW) /\ EX.op = "br" /\ EX.guard
      <3>1. Taken(EX) /\ EX.delayed
        BY <2>1, <2>6 DEF LiveDR, Kills, Taken, Flows
      <3>2. AfterEX.slots = 2 /\ ~ Taken(DR)
        BY <2>1, <2>4, <2>6, <3>1, ChainSlots
      <3>3. AfterDR.slots = 1
        BY <2>1, <3>2, ChainSlots
      <3>4. AfterEX.dest = Target(AfterMW, EX)
        BY <1>1, <1>2, <2>1, <3>1, AfterNext DEF AfterEX
      <3>5. AfterDR.dest = AfterEX.dest
        BY <1>1, <2>1, <3>2, AfterNext DEF AfterDR
      <3>6. Target(AfterMW, EX).pc = EX.dest.pc
        BY <2>6 DEF Target, Place
      <3>7. nPC = EX.dest.pc
        BY <1>1, <2>6 DEF NextPCInv
      <3> QED BY <2>3, <3>3, <3>4, <3>5, <3>6, <3>7
    <2>7. CASE ~ Late(MW) /\ ~ (EX.op = "br" /\ EX.guard)
      <3>1. AfterMW.slots # 3
        <4>1. Taken(MW) => MW.op = "br"
          BY <2>7 DEF Taken, Late, Flows
        <4> QED BY <2>4, <4>1, ChainSlots
      <3>2. AfterEX.slots # 2
        <4>1. Taken(EX) => EX.op # "br"
          BY <2>7 DEF Taken
        <4> QED BY <2>1, <2>4, <3>1, <4>1, ChainSlots
      <3>3. AfterDR.slots # 1
        BY <2>1, <2>4, <3>2, ChainSlots
      <3>4. nPC = Succ(Fetched.addr)
        BY <1>1, <2>2, <2>7 DEF NextPCInv
      <3> QED BY <2>3, <3>3, <3>4
    <2> QED BY <2>5, <2>6, <2>7
  <1> QED BY <1>4, <1>5, <1>6 DEF LiveIF, LiveDR

\* When the stages move on, each still holds what the machine will execute next.
LEMMA MoveChain ==
  ASSUME TypeInv, ChainInv, TurnInv, FlushInv, NextPCInv, HaltInv, ReadyInv, Moves
  PROVE  ChainInv'
  <1>1. /\ MW' = EX /\ EX' = DR /\ DR' = Fetched /\ Fetched'.op = "bubble"
        /\ arch' = AfterMW /\ AfterMW' = AfterEX /\ AfterEX' = AfterDR
        /\ AfterDR' = AfterFetched
        /\ disableIF' = FALSE /\ pc' = nPC /\ halt' = halt
    BY MovedStages, RetiredInstruction DEF NoInstruction
  <1>2. /\ LiveEX' <=> ~ KillsLate(EX)
        /\ LiveDR' <=> ~ KillsLate(EX) /\ ~ Kills(DR)
        /\ LiveIF' <=> ~ KillsLate(EX) /\ ~ Kills(DR) /\ ~ Kills(Fetched)
    BY <1>1 DEF LiveEX, LiveDR, LiveIF
  <1>3. KillsLate(EX) => Kills(EX)
    BY DEF KillsLate, Late, Kills, Flows
  <1>4. ArchOK(arch')
    BY <1>1, ChainOK
  <1>5. Fits(arch', EX)
    BY <1>1, NothingBehind, NoneFits DEF ChainInv
  <1>6. ~ LiveEX => AfterEX = AfterMW /\ AfterMW.slots = 0 /\ None(DR)
    BY NothingBehind, NoneFits DEF AfterEX
  <1>7. ~ KillsLate(EX) => Fits(AfterEX, DR)
    BY <1>6, NothingBehind, NoneFits DEF ChainInv, LiveDR
  <1>8. KillsLate(EX) => Doomed(DR)
    BY <1>3 DEF ChainInv, LiveDR
  <1>9. ~ KillsLate(EX) /\ ~ Kills(DR) => Fits(AfterDR, Fetched)
    <2>1. CASE LiveIF /\ disableIF
      BY <2>1 DEF ChainInv
    <2>2. CASE LiveIF /\ ~ disableIF
      <3>1. halt /\ LiveEX
        BY <2>2, MovedStages DEF TurnInv, Applied, LiveIF, LiveDR, Moves
      <3>2. arch.halted
        BY <3>1 DEF HaltInv, LiveEX
      <3>3. AfterDR = arch /\ arch.slots = 0
        BY <3>2, HaltedChain DEF ChainInv, ArchOK, ArchType
      <3>4. Fetched.op \in {"bubble", "halt"}
        BY <2>2 DEF ChainInv
      <3> QED BY <3>2, <3>3, <3>4 DEF Fits, None, Real
    <2>3. CASE ~ LiveDR
      <3>1. ~ KillsLate(EX) => None(DR) /\ None(Fetched) /\ AfterEX.slots = 0
        BY <2>3, <1>6, NothingBehind DEF LiveDR
      <3> QED BY <3>1, NoneFits DEF AfterDR
    <2> QED BY <2>1, <2>2, <2>3 DEF LiveIF
  <1>10. KillsLate(EX) \/ Kills(DR) => Doomed(Fetched)
    BY <1>3 DEF ChainInv, LiveDR, LiveIF
  <1>11. LiveIF' /\ ~ halt => nPC = AfterFetched.next
    BY <1>2, MovePC
  <1>12. Doomed(Fetched)'
    BY <1>1 DEF Doomed
  <1> QED BY <1>1, <1>2, <1>4, <1>5, <1>7, <1>8, <1>9, <1>10, <1>11, <1>12 DEF ChainInv

\* When the stages move on: the parts of the cycle, the flush and nPC.
LEMMA MoveTurn ==
  ASSUME TypeInv, FlushInv, Moves
  PROVE  TurnInv' /\ FlushInv' /\ NextPCInv'
  <1>1. /\ MW' = EX /\ EX' = DR /\ DR' = Fetched /\ Fetched'.op = "bubble"
        /\ turn' = "IF" /\ stalled' = FALSE /\ disableIF' = FALSE
    BY MovedStages DEF NoInstruction
  <1>2. TurnInv'
    BY <1>1 DEF TurnInv, Applied
  <1>3. FlushInv'
    BY <1>1 DEF FlushInv, None
  <1>4. NextPCInv'
    BY <1>1 DEF NextPCInv
  <1> QED BY <1>2, <1>3, <1>4

\* What saves the address behind it is never in the shadow of a transfer.
LEMMA SavesLives ==
  ASSUME ChainInv
  PROVE  /\ Saves(EX) => LiveEX
         /\ Saves(DR) => LiveDR
         /\ Saves(Fetched) => LiveIF
         /\ \A i \in {MW, EX, DR, Fetched} : Saves(i) => i.op \in Transfers /\ Real(i)
  <1>1. /\ \A i : Saves(i) => i.op \in {"call", "callr", "trap"}
        /\ \A i : Doomed(i) => i.op \notin {"call", "callr", "trap"}
    BY DEF Saves, Doomed
  <1> QED BY <1>1 DEF ChainInv, Transfers, Real

\* When the stages move on: the address behind a transfer that keeps it.
LEMMA MoveAddr ==
  ASSUME TypeInv, ChainInv, TurnInv, FlushInv, NextPCInv, AddrInv, Moves
  PROVE  AddrInv'
  <1>1. /\ MW' = EX /\ EX' = DR /\ DR' = Fetched /\ disableIF' = FALSE
        /\ pc' = nPC /\ halt' = halt /\ turn' = "IF"
        /\ MW \in InStage /\ EX \in InStage /\ DR \in InStage /\ Fetched \in InStage
    BY MovedStages, StageTypes
  <1>2. ~ halt => disableIF /\ Applied /\ turn = "DR"
    BY MovedStages DEF TurnInv, Applied, Moves
  <1>3. ASSUME ~ halt, Saves(Fetched)
        PROVE  nPC = Succ(Fetched.addr)
    <2>1. LiveIF /\ LiveDR /\ LiveEX /\ Fetched.op \in Transfers /\ Real(Fetched)
      BY <1>3, SavesLives DEF LiveIF, LiveDR
    <2>2. Fits(AfterDR, Fetched) /\ ArchOK(AfterDR) /\ ArchOK(AfterMW) /\ ArchOK(AfterEX)
          /\ Fits(AfterMW, EX) /\ Fits(AfterEX, DR)
      BY <1>2, <1>3, <2>1, ChainOK DEF ChainInv
    <2>3. AfterDR.slots = 0
      BY <2>1, <2>2 DEF Fits, ArchOK, ArchType
    <2>4. /\ AfterMW.slots \in 0 .. 3 /\ AfterEX.slots \in 0 .. 3
          /\ Taken(EX) => AfterMW.slots = 0
          /\ Taken(DR) => AfterEX.slots = 0
      BY <1>1, <2>2, TakenBehindTransfer DEF ArchOK, ArchType
    <2>5. AfterEX.slots # 2
      <3>1. AfterEX.slots = 2 => ~ Taken(DR)
        BY <2>4
      <3>2. AfterEX.slots = 2 => AfterDR.slots = 1
        BY <2>1, <3>1, ChainSlots
      <3> QED BY <2>3, <3>2
    <2>6. AfterMW.slots # 3
      <3>1. AfterMW.slots = 3 => ~ Taken(EX)
        BY <2>4
      <3>2. AfterMW.slots = 3 => AfterEX.slots = 2
        BY <2>1, <3>1, ChainSlots
      <3> QED BY <2>5, <3>2
    <2>7. ~ Late(MW)
      <3>1. Late(MW) => Taken(MW) /\ MW.delayed /\ MW.op # "br"
        BY <2>1 DEF LiveEX, KillsLate, Late, Taken, Flows, CacheFlows
      <3> QED BY <2>6, <3>1, ChainSlots
    <2>8. ~ (EX.op = "br" /\ EX.guard)
      <3>1. EX.op = "br" /\ EX.guard => Taken(EX) /\ EX.delayed
        BY <2>1 DEF LiveDR, Kills, Taken, Flows
      <3> QED BY <2>1, <2>5, <3>1, ChainSlots
    <2> QED BY <1>2, <1>3, <2>1, <2>7, <2>8 DEF NextPCInv
  <1>4. ~ halt /\ Saves(DR) => Fetched.addr = Succ(DR.addr)
    BY <1>2, SavesLives DEF AddrInv
  <1>5. ~ halt /\ Saves(EX) => DR.addr = Succ(EX.addr)
    BY SavesLives DEF AddrInv
  <1> QED BY <1>1, <1>3, <1>4, <1>5 DEF AddrInv

\* When the stages move on: the counters that hold interrupts back.
LEMMA MoveDelay ==
  ASSUME TypeInv, ChainInv, TurnInv, FlushInv, DelayInv, HaltInv, Moves
  PROVE  DelayInv'
  <1>1. /\ MW' = EX /\ EX' = DR /\ DR' = Fetched /\ disableIF' = FALSE
        /\ delay' = delay /\ handling' = handling
    BY MovedStages
  <1>2. CASE disableIF
    BY <1>1, <1>2 DEF DelayInv
  <1>3. CASE ~ disableIF
    <2>1. halt
      BY <1>3, MovedStages DEF TurnInv, Applied, Moves
    <2>2. /\ EX.op \in {"bubble", "halt"} /\ DR.op \in {"bubble", "halt"}
          /\ MW.op # "intr"
      <3>1. CASE arch.halted
        BY <3>1, HaltedChain
      <3>2. CASE ~ arch.halted
        BY <2>1, <3>2, NothingBehind DEF HaltInv, LiveEX, None
      <3> QED BY <3>1, <3>2
    <2>3. Fetched.op \in {"bubble", "halt"}
      BY <1>3 DEF ChainInv
    <2> QED BY <1>1, <1>3, <2>2, <2>3 DEF DelayInv, CacheFlows
  <1> QED BY <1>2, <1>3

\* When the stages move on: the end of the program.
LEMMA MoveHalt ==
  ASSUME TypeInv, ChainInv, TurnInv, HaltInv, ReadyInv, Moves
  PROVE  HaltInv'
  <1>1. /\ arch' = AfterMW /\ halt' = halt /\ disableIF' = FALSE /\ turn' = "IF"
        /\ Applied /\ MW \in InStage
    BY MovedStages, RetiredInstruction, StageTypes DEF Applied, Moves
  <1>2. AfterMW.halted => halt
    <2>1. CASE arch.halted
      BY <2>1 DEF HaltInv
    <2>2. CASE ~ arch.halted /\ AfterMW.halted
      <3>1. Kills(MW) /\ MW.op = "ret" /\ arch.link.base = 0
        BY <1>1, <2>2, AfterHalted DEF ChainInv, AfterMW
      <3>2. KillsLate(MW) /\ MW.dest.base = 0
        BY <3>1 DEF ReadyInv, Kills, KillsLate, Late, CacheFlows
      <3> QED BY <1>1, <3>2 DEF HaltInv
    <2> QED BY <2>1, <2>2
  <1>3. halt => AfterMW.halted
    <2>1. CASE arch.halted
      BY <2>1, HaltedChain
    <2>2. CASE halt /\ ~ arch.halted
      <3>1. Kills(MW) /\ MW.op = "ret" /\ arch.link.base = 0
        BY <2>2 DEF HaltInv, ReadyInv, Kills, KillsLate, Late, Flows
      <3> QED BY <1>1, <3>1, AfterHalted DEF ChainInv, AfterMW
    <2> QED BY <2>1, <2>2
  <1>4. (\E s \in Stages : pipe[s].op = "halt")' => \E s \in Stages : pipe[s].op = "halt"
    <2>1. /\ pipe'["MW"] = pipe["EX"] /\ pipe'["EX"] = pipe["DR"]
          /\ pipe'["DR"] = pipe["IF"] /\ pipe'["IF"].op = "bubble"
      BY MovedStages DEF MW, EX, DR, Fetched, NoInstruction
    <2> QED BY <2>1 DEF Stages
  <1> QED BY <1>1, <1>2, <1>3, <1>4 DEF HaltInv, Applied

\* When the stages move on: the destinations that were read in EX.
LEMMA MoveReady ==
  ASSUME TypeInv, ChainInv, TurnInv, ReadyInv, Moves
  PROVE  ReadyInv'
  <1>1. MW' = EX /\ arch' = AfterMW /\ turn = "DR" /\ turn' = "IF"
    BY MovedStages, RetiredInstruction
  <1> QED BY <1>1 DEF ReadyInv

\* When the stages move on: BASE and the return registers.
LEMMA MoveRegs ==
  ASSUME TypeInv, ChainInv, TurnInv, RegsInv, Moves
  PROVE  RegsInv'
  <1>1. /\ arch' = AfterMW /\ turn = "DR" /\ turn' = "IF" /\ Applied /\ ~ Applied'
        /\ UNCHANGED <<halt, base, regs>>
    BY MovedStages, RetiredInstruction DEF Applied, Moves
  <1> QED BY <1>1 DEF RegsInv

\* Instructions that are in no stage; by names instead of positions.
LEMMA EveryStage ==
  ASSUME NEW op
  PROVE  (\E s \in Stages : pipe[s].op = op) <=>
           MW.op = op \/ EX.op = op \/ DR.op = op \/ Fetched.op = op
  BY DEF Stages, MW, EX, DR, Fetched

\* A device that fires changes neither Status nor Mask.
LEMMA TickUnit ==
  ASSUME TypeInv, Tick
  PROVE  unit' \in UnitType /\ unit'.status = unit.status /\ unit'.mask = unit.mask
  <1>1. CASE unit' = unit
    BY <1>1 DEF TypeInv
  <1>2. CASE unit' = Unit!Fired(unit, Device)
    <2>1. unit' = [unit EXCEPT !.pending = unit.pending \cup {Device}]
      BY <1>2 DEF Unit!Fired
    <2>2. unit \in UnitType
      BY DEF TypeInv
    <2> QED BY <2>1, <2>2 DEF UnitType
  <1> QED BY <1>1, <1>2 DEF Tick

\* When the stages move on the state stays well typed.
LEMMA MoveType ==
  ASSUME TypeInv, Moves
  PROVE  TypeInv'
  <1>1. /\ MW' = EX /\ EX' = DR /\ DR' = Fetched /\ Fetched'.op = "bubble"
        /\ pipe' \in [Stages -> InStage]
        /\ turn' = "IF" /\ stalled' = FALSE /\ disableIF' = FALSE
        /\ pc' = nPC
        /\ UNCHANGED <<nPC, base, delay, handling, halt, running, regs, program>>
    BY MovedStages DEF NoInstruction
  <1>2. unit' \in UnitType
    BY TickUnit DEF Moves, DR_
  <1>3. \A s \in Stages : Real(pipe'[s]) => pipe'[s].op \in program
    <2>1. /\ pipe'["MW"] = pipe["EX"] /\ pipe'["EX"] = pipe["DR"]
          /\ pipe'["DR"] = pipe["IF"] /\ ~ Real(pipe'["IF"])
      BY <1>1 DEF MW, EX, DR, Fetched, Real
    <2> QED BY <2>1 DEF TypeInv, Stages
  <1> HIDE DEF Stages
  <1> QED BY <1>1, <1>2, <1>3 DEF TypeInv

\* Only a store to Status, xret, trap and intr change the modes.
LEMMA ModesAreKept ==
  ASSUME TypeInv, ChainInv, ~ Changes(MW)
  PROVE  AfterMW.modes = arch.modes
  <1>1. MW \in InStage
    BY StageTypes
  <1> QED BY <1>1, AfterModes DEF ChainInv, AfterMW, Changes, ModeChanges, EntersHandler

\* When the stages move on: Status and who is about to change it.
LEMMA MoveUnit ==
  ASSUME TypeInv, ChainInv, TurnInv, FlushInv, UnitInv, Moves
  PROVE  UnitInv'
  <1>1. /\ MW' = EX /\ EX' = DR /\ DR' = Fetched /\ Fetched'.op = "bubble"
        /\ turn = "DR" /\ turn' = "IF" /\ arch' = AfterMW /\ Applied /\ program' = program
        /\ MW \in InStage /\ MW.op # "halt"
    BY MovedStages, RetiredInstruction, StageTypes DEF NoInstruction, Applied, Moves
  <1>2. unit'.status = unit.status /\ unit'.mask = unit.mask
    BY TickUnit DEF Moves, DR_
  <1>3. (\E s \in Stages : pipe[s].op = "intr")' <=>
          EX.op = "intr" \/ DR.op = "intr" \/ Fetched.op = "intr"
    <2>1. (\E s \in Stages : pipe[s].op = "intr")' <=>
            MW'.op = "intr" \/ EX'.op = "intr" \/ DR'.op = "intr" \/ Fetched'.op = "intr"
      BY DEF Stages, MW, EX, DR, Fetched
    <2> QED BY <1>1, <2>1
  <1>4. (\E s \in Stages : pipe[s].op = "intr") <=>
          MW.op = "intr" \/ EX.op = "intr" \/ DR.op = "intr" \/ Fetched.op = "intr"
    BY EveryStage
  <1>5. "sts" \notin program => unit'.mask = {} /\ \A s \in Stages : pipe'[s].op # "intr"
    BY <1>2, <1>3, <1>4 DEF UnitInv
  <1>6. ~ (EX.op \in {"sts", "xret"} /\ EX.done)
    BY DEF UnitInv, Stages, EX
  <1>7. ModesInUnit' = IF EX.op = "intr" \/ DR.op = "intr" \/ Fetched.op = "intr"
                       THEN <<2>> \o AfterMW.modes ELSE AfterMW.modes
    BY <1>1, <1>3, <1>6 DEF ModesInUnit
  <1>8. "trap" \notin program => ModesInUnit' = ModesInUnit
    <2>1. CASE MW.op = "sts"
      <3>1. MW.done
        BY <1>1, <2>1 DEF UnitInv
      <3> QED BY <1>4, <1>7, <2>1, <3>1 DEF ModesInUnit
    <2>2. CASE MW.op = "xret"
      <3>1. MW.guard => MW.done
        BY <1>1, <2>2 DEF UnitInv
      <3>2. ~ MW.guard => AfterMW.modes = arch.modes
        BY <1>1, <2>2, AfterModes DEF ChainInv, AfterMW, EntersHandler
      <3> QED BY <1>4, <1>7, <2>2, <3>1, <3>2 DEF ModesInUnit
    <2>3. CASE MW.op = "trap"
      <3>1. MW.op \in program
        BY <2>3 DEF TypeInv, Real, Stages, MW
      <3> QED BY <2>3, <3>1
    <2>4. CASE MW.op = "intr"
      <3>1. None(EX) /\ None(DR) /\ None(Fetched) /\ MW.guard
        BY <2>4 DEF FlushInv, ChainInv, Fits
      <3>2. AfterMW.modes = <<2>> \o arch.modes
        BY <1>1, <2>4, <3>1, AfterModes DEF ChainInv, AfterMW, EntersHandler
      <3> QED BY <1>4, <1>7, <2>4, <3>1, <3>2 DEF ModesInUnit, None
    <2>5. CASE MW.op \notin ModeChanges
      <3>1. AfterMW.modes = arch.modes
        BY <2>5, ModesAreKept DEF Changes
      <3> QED BY <1>4, <1>7, <2>5, <3>1 DEF ModesInUnit, ModeChanges
    <2> QED BY <2>1, <2>2, <2>3, <2>4, <2>5 DEF ModeChanges
  <1>9. "trap" \notin program => unit'.status = Encoded(ModesInUnit')
    BY <1>2, <1>8 DEF UnitInv
  <1>10. /\ Changes(EX') => ~ Changes(MW')
         /\ Changes(DR') => ~ Changes(MW') /\ ~ Changes(EX')
         /\ ~ Changes(Fetched')
    BY <1>1 DEF UnitInv, Changes, ModeChanges
  <1>11. \A s \in Stages \ {"MW"} : pipe'[s].op \in {"sts", "xret"} => ~ pipe'[s].done
    <2>1. /\ pipe'["EX"] = pipe["DR"] /\ pipe'["DR"] = pipe["IF"]
          /\ pipe'["IF"].op = "bubble"
      BY <1>1 DEF MW, EX, DR, Fetched
    <2> QED BY <2>1 DEF UnitInv, Stages
  <1> HIDE DEF Stages
  <1> QED BY <1>1, <1>5, <1>9, <1>10, <1>11 DEF UnitInv, Applied

-----------------------------------------------------------------------------
(* IF: all that changes in the stages is what has been fetched.             *)

Fetches == IF_ /\ UNCHANGED program

Kept == /\ MW' = MW /\ EX' = EX /\ DR' = DR
        /\ turn = "IF" /\ turn' = "MW"
        /\ UNCHANGED <<arch, halt, base, regs, pc, running, program>>

\* Only IF has another instruction.
LEMMA FetchedOnly ==
  ASSUME TypeInv, NEW i \in InStage, pipe' = [pipe EXCEPT !["IF"] = i]
  PROVE  /\ MW' = MW /\ EX' = EX /\ DR' = DR /\ Fetched' = i
         /\ pipe' \in [Stages -> InStage]
         /\ \A s \in Stages \ {"IF"} : pipe'[s] = pipe[s]
         /\ pipe'["IF"] = i
         /\ \A op : (\E s \in Stages : pipe'[s].op = op) <=>
                      MW.op = op \/ EX.op = op \/ DR.op = op \/ i.op = op
  BY DEF TypeInv, Stages, MW, EX, DR, Fetched

\* A fetch changes nothing of what the later stages mean.
LEMMA KeptChain ==
  ASSUME Kept
  PROVE  /\ AfterMW' = AfterMW /\ AfterEX' = AfterEX /\ AfterDR' = AfterDR
         /\ LiveEX' <=> LiveEX
         /\ LiveDR' <=> LiveDR
         /\ LiveIF' <=> LiveIF
         /\ ~ Applied /\ ~ Applied'
  BY DEF Kept, AfterMW, AfterEX, AfterDR, LiveEX, LiveDR, LiveIF, Applied

\* A fetch changes nothing of the registers.
LEMMA KeptRegs ==
  ASSUME Kept, ReadyInv, RegsInv
  PROVE  ReadyInv' /\ RegsInv'
  BY KeptChain DEF Kept, ReadyInv, RegsInv

\* Where the fetch goes on, it goes on behind what DR holds.
LEMMA KeptChainInv ==
  ASSUME Kept, ChainInv,
         LiveIF /\ disableIF' => Fits(AfterDR, Fetched') /\ ~ None(Fetched')
                                 /\ Fetched'.op # "halt",
         ~ LiveIF => Doomed(Fetched'),
         ~ disableIF' => ~ disableIF /\ Fetched'.op \in {"bubble", "halt"}
  PROVE  ChainInv'
  BY KeptChain DEF Kept, ChainInv

\* A fetch brings nothing that has had an effect.
LEMMA KeptFlush ==
  ASSUME Kept, FlushInv, Fetched'.op = "alu" => ~ Fetched'.done,
         MW.op = "intr" \/ EX.op = "intr" \/ DR.op = "intr" => None(Fetched')
  PROVE  FlushInv'
  BY DEF Kept, FlushInv

Orderly ==
  /\ TypeInv /\ ChainInv /\ TurnInv /\ FlushInv /\ NextPCInv /\ AddrInv
  /\ DelayInv /\ HaltInv /\ ReadyInv /\ RegsInv /\ UnitInv

\* The status of the unit and the modes in the stages before IF are as they were.
LEMMA KeptModes ==
  ASSUME Kept, TypeInv, UnitInv, unit' = unit, NEW i \in InStage,
         pipe' = [pipe EXCEPT !["IF"] = i],
         i.op = "intr" <=> Fetched.op = "intr",
         i.op \in {"sts", "xret"} => ~ i.done,
         Changes(i) => \/ i = Fetched
                       \/ ~ Changes(MW) /\ ~ Changes(EX) /\ ~ Changes(DR)
  PROVE  UnitInv'
  <1>1. /\ MW' = MW /\ EX' = EX /\ DR' = DR /\ Fetched' = i
        /\ AfterMW' = AfterMW /\ arch' = arch /\ program' = program
        /\ turn' = "MW" /\ ~ Applied'
    BY FetchedOnly, KeptChain DEF Kept
  <1>2. (\E s \in Stages : pipe'[s].op = "intr") <=> (\E s \in Stages : pipe[s].op = "intr")
    BY FetchedOnly, EveryStage
  <1>3. ModesInUnit' = ModesInUnit
    BY <1>1, <1>2 DEF ModesInUnit
  <1>4. "sts" \notin program => \A s \in Stages : pipe'[s].op # "intr"
    BY <1>2 DEF UnitInv
  <1>5. /\ Changes(EX') => ~ Changes(MW') \/ (MW'.op = "sts" /\ MW'.done /\ EX'.op = "intr")
        /\ Changes(DR') => ~ Changes(MW') \/ (MW'.op = "sts" /\ MW'.done /\ DR'.op = "intr")
        /\ Changes(DR') => ~ Changes(EX')
    BY <1>1 DEF UnitInv
  <1>6. /\ Changes(Fetched') => ~ Changes(MW') \/ (MW'.op = "sts" /\ MW'.done /\ Fetched'.op = "intr")
        /\ Changes(Fetched') => ~ Changes(EX') /\ ~ Changes(DR')
    BY <1>1 DEF UnitInv
  <1>7. \A s \in Stages \ {"MW"} : pipe'[s].op \in {"sts", "xret"} => ~ pipe'[s].done
    BY FetchedOnly DEF UnitInv
  <1> HIDE DEF Stages
  <1> QED BY <1>1, <1>3, <1>4, <1>5, <1>6, <1>7 DEF UnitInv

\* A fetch keeps the state well typed.
LEMMA KeptType ==
  ASSUME Kept, TypeInv, NEW i \in InStage, pipe' = [pipe EXCEPT !["IF"] = i],
         Real(i) => i.op \in program,
         stalled' \in BOOLEAN, disableIF' \in BOOLEAN, nPC' \in Nat,
         delay' \in 0 .. 3, handling' \in 0 .. 3, unit' \in UnitType
  PROVE  TypeInv'
  <1>1. \A s \in Stages : Real(pipe'[s]) => pipe'[s].op \in program
    BY FetchedOnly DEF TypeInv, Stages
  <1>2. pipe' \in [Stages -> InStage]
    BY FetchedOnly
  <1> HIDE DEF Stages
  <1> QED BY <1>1, <1>2 DEF TypeInv, Kept

\* Nothing is fetched while the last fetch has not moved on.
LEMMA SkipFetchStep ==
  ASSUME Orderly, Fetches, SkipFetch
  PROVE  Orderly'
  <1>1. Kept /\ pipe' = [pipe EXCEPT !["IF"] = Fetched] /\ Fetched \in InStage
    BY StageTypes DEF Orderly, Fetches, IF_, SkipFetch, Kept, control, MW, EX, DR, Fetched,
                      TypeInv
  <1>2. /\ disableIF /\ Fetched' = Fetched /\ turn' = "MW" /\ turn = "IF"
        /\ UNCHANGED <<stalled, disableIF, delay, handling, nPC, unit, pc, halt, arch>>
        /\ MW' = MW /\ EX' = EX /\ DR' = DR /\ pipe' = pipe
    BY <1>1, FetchedOnly DEF Orderly, SkipFetch, control, Kept
  <1>3. TypeInv'
    BY <1>1, <1>2, KeptType DEF Orderly, TypeInv, Stages, Fetched
  <1>4. ChainInv' /\ ReadyInv' /\ RegsInv'
    BY <1>1, <1>2, KeptChainInv, KeptRegs DEF Orderly, ChainInv
  <1>5. FlushInv'
    BY <1>1, <1>2, KeptFlush DEF Orderly, FlushInv, None
  <1>6. UnitInv'
    BY <1>1, <1>2, KeptModes DEF Orderly, UnitInv, Stages, Fetched
  <1>7. TurnInv' /\ NextPCInv'
    BY <1>1, <1>2, KeptChain DEF Orderly, TurnInv, NextPCInv
  <1>8. AddrInv' /\ DelayInv' /\ HaltInv'
    BY <1>1, <1>2, KeptChain DEF Orderly, AddrInv, DelayInv, HaltInv
  <1> QED BY <1>3, <1>4, <1>5, <1>6, <1>7, <1>8 DEF Orderly

\* The instruction cache has not got the instruction.
LEMMA FetchMissStep ==
  ASSUME Orderly, Fetches, FetchMiss
  PROVE  Orderly'
  <1>1. Kept /\ pipe' = [pipe EXCEPT !["IF"] = Fetched] /\ Fetched \in InStage
    BY StageTypes DEF Orderly, Fetches, IF_, FetchMiss, Kept, control, MW, EX, DR, Fetched,
                      TypeInv
  <1>2. /\ ~ disableIF /\ ~ halt /\ Fetched' = Fetched /\ turn' = "MW" /\ turn = "IF"
        /\ stalled' = TRUE
        /\ UNCHANGED <<disableIF, delay, handling, nPC, unit, pc, halt, arch>>
        /\ MW' = MW /\ EX' = EX /\ DR' = DR /\ pipe' = pipe
    BY <1>1, FetchedOnly DEF Orderly, FetchMiss, control, Kept
  <1>3. TypeInv'
    BY <1>1, <1>2, KeptType DEF Orderly, TypeInv, Stages, Fetched
  <1>4. ChainInv' /\ ReadyInv' /\ RegsInv'
    BY <1>1, <1>2, KeptChainInv, KeptRegs DEF Orderly, ChainInv
  <1>5. FlushInv'
    BY <1>1, <1>2, KeptFlush DEF Orderly, FlushInv, None
  <1>6. UnitInv'
    BY <1>1, <1>2, KeptModes DEF Orderly, UnitInv, Stages, Fetched
  <1>7. TurnInv' /\ NextPCInv'
    BY <1>1, <1>2, KeptChain DEF Orderly, TurnInv, NextPCInv
  <1>8. AddrInv' /\ DelayInv' /\ HaltInv'
    BY <1>1, <1>2, KeptChain DEF Orderly, AddrInv, DelayInv, HaltInv
  <1> QED BY <1>3, <1>4, <1>5, <1>6, <1>7, <1>8 DEF Orderly

\* Behind the end of the program halt is fetched.
LEMMA FetchHaltStep ==
  ASSUME Orderly, Fetches, FetchHalt
  PROVE  Orderly'
  <1> DEFINE i == Issued(Instruction("halt", TRUE, TRUE, Nowhere), 0)
  <1>1. /\ i \in InStage /\ i.op = "halt" /\ ~ i.done
        /\ Kept /\ pipe' = [pipe EXCEPT !["IF"] = i]
    BY DEF Orderly, Fetches, IF_, FetchHalt, Kept, control, MW, EX, DR, TypeInv, Issued,
           Instruction, InStage, StageOps, Nowhere, Places
  <1> HIDE DEF i
  <1>2. /\ ~ disableIF /\ halt /\ Fetched' = i /\ turn' = "MW" /\ turn = "IF"
        /\ UNCHANGED <<stalled, disableIF, delay, handling, nPC, unit, pc, halt, arch>>
        /\ MW' = MW /\ EX' = EX /\ DR' = DR
    BY <1>1, FetchedOnly DEF Orderly, FetchHalt, control, Kept
  <1>3. Fetched.op \in {"bubble", "halt"}
    BY <1>2 DEF Orderly, ChainInv
  <1>4. MW.op # "intr" /\ EX.op # "intr" /\ DR.op # "intr"
    <2>1. CASE arch.halted
      BY <2>1, HaltedChain DEF Orderly
    <2>2. CASE ~ arch.halted
      BY <1>2, <2>2 DEF Orderly, HaltInv, ChainInv, LiveEX, LiveDR, Doomed
    <2> QED BY <2>1, <2>2
  <1>5. TypeInv'
    BY <1>1, <1>2, KeptType DEF Orderly, TypeInv, Real
  <1>6. ChainInv' /\ ReadyInv' /\ RegsInv'
    BY <1>1, <1>2, KeptChainInv, KeptRegs DEF Orderly, Doomed
  <1>7. FlushInv'
    BY <1>1, <1>2, <1>4, KeptFlush DEF Orderly
  <1>8. UnitInv'
    BY <1>1, <1>2, <1>3, KeptModes DEF Orderly, Changes, ModeChanges
  <1>9. TurnInv' /\ NextPCInv'
    BY <1>1, <1>2, KeptChain DEF Orderly, TurnInv, NextPCInv
  <1>10. AddrInv' /\ DelayInv'
    BY <1>1, <1>2, KeptChain DEF Orderly, AddrInv, DelayInv
  <1>11. HaltInv'
    BY <1>1, <1>2, KeptChain DEF Orderly, HaltInv
  <1> QED BY <1>5, <1>6, <1>7, <1>8, <1>9, <1>10, <1>11 DEF Orderly

\* A bubble behind an interrupt.
LEMMA FetchBubbleStep ==
  ASSUME Orderly, Fetches, FetchBubble
  PROVE  Orderly'
  <1> DEFINE i == NoInstruction
  <1>1. /\ i \in InStage /\ None(i) /\ i.op = "bubble"
        /\ Kept /\ pipe' = [pipe EXCEPT !["IF"] = i]
    BY DEF Orderly, Fetches, IF_, FetchBubble, FetchHit, Kept, control, MW, EX, DR, TypeInv,
           NoInstruction, InStage, StageOps, Nowhere, Places, None
  <1> HIDE DEF i
  <1>2. /\ ~ disableIF /\ ~ halt /\ Fetched' = i /\ turn' = "MW" /\ turn = "IF"
        /\ disableIF' = TRUE /\ ~ stalled /\ handling > 0 /\ handling' = handling - 1
        /\ UNCHANGED <<stalled, delay, nPC, unit, pc, halt, arch>>
        /\ MW' = MW /\ EX' = EX /\ DR' = DR
    BY <1>1, FetchedOnly DEF Orderly, FetchBubble, FetchHit, control, Kept, TurnInv
  <1>3. Fetched.op \in {"bubble", "halt"}
    BY <1>2 DEF Orderly, ChainInv
  <1>4. DR.op = "intr" \/ EX.op = "intr" \/ MW.op = "intr"
    BY <1>2 DEF Orderly, DelayInv
  <1>5. ~ LiveIF /\ (DR.op # "intr" => ~ LiveDR)
    <2>1. ASSUME NEW a, NEW j, Fits(a, j), j.op = "intr"
          PROVE  Kills(j) /\ KillsLate(j)
      BY <2>1 DEF Fits, Kills, KillsLate, Late, Flows, CacheFlows
    <2>2. MW.op = "intr" => ~ LiveEX
      BY <2>1 DEF Orderly, ChainInv, LiveEX
    <2>3. EX.op = "intr" => ~ LiveDR
      BY <2>1 DEF Orderly, ChainInv, LiveDR, Doomed
    <2>4. DR.op = "intr" => ~ LiveIF
      BY <2>1 DEF Orderly, ChainInv, LiveIF, Doomed
    <2> QED BY <1>4, <2>2, <2>3, <2>4 DEF LiveIF, LiveDR
  <1>6. TypeInv'
    <2>1. handling' \in 0 .. 3 /\ ~ Real(i)
      BY <1>1, <1>2 DEF Orderly, TypeInv, Real
    <2> QED BY <1>1, <1>2, <2>1, KeptType DEF Orderly, TypeInv
  <1>7. ChainInv' /\ ReadyInv' /\ RegsInv'
    BY <1>1, <1>2, <1>5, KeptChainInv, KeptRegs DEF Orderly, Doomed
  <1>8. FlushInv'
    BY <1>1, <1>2, KeptFlush DEF Orderly
  <1>9. UnitInv'
    BY <1>1, <1>2, <1>3, KeptModes DEF Orderly, Changes, ModeChanges
  <1>10. TurnInv' /\ NextPCInv'
    BY <1>1, <1>2, KeptChain DEF Orderly, TurnInv, NextPCInv, Real
  <1>11. AddrInv'
    <2>1. Saves(DR) => DR.op # "intr"
      BY DEF Saves
    <2> QED BY <1>1, <1>2, <1>5, <2>1, KeptChain DEF Orderly, AddrInv
  <1>12. DelayInv'
    BY <1>1, <1>2 DEF Orderly, DelayInv, CacheFlows, TypeInv
  <1>13. HaltInv'
    <2>1. ~ (\E s \in Stages : pipe'[s].op = "halt")
      BY <1>1, <1>2, FetchedOnly, EveryStage DEF Orderly, HaltInv
    <2> HIDE DEF Stages
    <2> QED BY <1>1, <1>2, <2>1, KeptChain DEF Orderly, HaltInv
  <1> QED BY <1>6, <1>7, <1>8, <1>9, <1>10, <1>11, <1>12, <1>13 DEF Orderly

-----------------------------------------------------------------------------
\* While the fetch goes on the program has not come to its end.
LEMMA NotAtEnd ==
  ASSUME TypeInv, ChainInv, HaltInv, ~ halt
  PROVE  /\ ~ arch.halted
         /\ LiveEX => ~ AfterMW.halted
         /\ LiveDR => ~ AfterEX.halted
         /\ LiveIF => ~ AfterDR.halted
  <1>1. /\ MW \in InStage /\ EX \in InStage /\ DR \in InStage
        /\ LiveIF => LiveDR /\ LiveEX
        /\ LiveDR => LiveEX
    BY StageTypes DEF LiveIF, LiveDR
  <1>2. ~ arch.halted
    BY DEF HaltInv
  <1>3. LiveEX => ~ AfterMW.halted
    BY <1>1, <1>2, AfterHalted DEF ChainInv, AfterMW, LiveEX, Kills, KillsLate, Late,
                                   CacheFlows
  <1>4. LiveDR => ~ AfterEX.halted
    BY <1>1, <1>3, ChainOK, AfterHalted DEF ChainInv, AfterEX, LiveDR
  <1>5. LiveIF => ~ AfterDR.halted
    BY <1>1, <1>4, ChainOK, AfterHalted DEF ChainInv, AfterDR, LiveIF
  <1> QED BY <1>2, <1>3, <1>4, <1>5

\* What is in its delay slots knows the transfer, which is still in a later stage.
LEMMA SlotsInFlight ==
  ASSUME TypeInv, ChainInv, LiveIF, AfterDR.slots # 0
  PROVE  InDelaySlot
  <1>1. LiveDR /\ LiveEX /\ arch.slots \in 0 .. 3
    BY ChainSlots DEF LiveIF, LiveDR
  <1>2. /\ AfterMW.slots \in 0 .. 3 /\ AfterEX.slots \in 0 .. 3
    BY <1>1, ChainOK DEF ArchOK, ArchType
  <1>3. CASE Taken(DR) /\ DR.delayed
    BY <1>3 DEF InDelaySlot, Taken, DR
  <1>4. CASE ~ (Taken(DR) /\ DR.delayed)
    <2>1. AfterEX.slots \in {2, 3}
      BY <1>1, <1>2, <1>4, ChainSlots
    <2>2. CASE Taken(EX) /\ EX.delayed
      BY <2>2 DEF InDelaySlot, Taken, EX
    <2>3. CASE ~ (Taken(EX) /\ EX.delayed)
      <3>1. AfterMW.slots = 3
        BY <1>1, <1>2, <2>1, <2>3, ChainSlots
      <3>2. Taken(MW) /\ MW.delayed /\ MW.op # "br"
        BY <1>1, <3>1, ChainSlots
      <3> QED BY <3>2 DEF InDelaySlot, Taken, Flows, MW
    <2> QED BY <2>2, <2>3
  <1> QED BY <1>3, <1>4

\* MayFetch sees the transfer in whose shadow the fetch is.
LEMMA ShadowSeen ==
  ASSUME ~ LiveIF
  PROVE  InShadow
  BY DEF LiveIF, LiveDR, LiveEX, Kills, KillsLate, Late, InShadow, MW, EX, DR

\* The modes as they will be for what is fetched now, if no change of them is under way.
LEMMA SettledModes ==
  ASSUME TypeInv, ChainInv, LiveIF, ~ Changes(EX), ~ Changes(DR)
  PROVE  AfterDR.modes = AfterMW.modes
  <1>1. LiveDR /\ LiveEX /\ EX \in InStage /\ DR \in InStage
    BY StageTypes DEF LiveIF, LiveDR
  <1>2. AfterEX.modes = AfterMW.modes
    BY <1>1, ChainOK, AfterModes DEF ChainInv, AfterEX, Changes, ModeChanges, EntersHandler
  <1>3. AfterDR.modes = AfterEX.modes
    BY <1>1, ChainOK, AfterModes DEF ChainInv, AfterDR, Changes, ModeChanges, EntersHandler
  <1> QED BY <1>2, <1>3

\* What a program may contain where pc has come to is what the machine of the program
\* may execute there.
LEMMA FetchFits ==
  ASSUME TypeInv, ChainInv, HaltInv, ~ HaltingSlots, ~ disableIF, ~ halt, LiveIF,
         NEW w \in Instructions, MayFetch(w)
  PROVE  Fits(AfterDR, Issued(w, pc))
  <1> DEFINE i == Issued(w, pc)
  <1>1. /\ i.op = w.op /\ i.delayed = w.delayed /\ i.guard = w.guard /\ i.dest = w.dest
        /\ i.addr = pc
    BY DEF Issued
  <1>2. i.op \in Transfers \cup {"alu", "mem", "sts"}
    BY <1>1, WrittenForms DEF WrittenForm
  <1>3. pc = AfterDR.next /\ ~ AfterDR.halted
    BY NotAtEnd DEF ChainInv
  <1>4. AsWritten(i)
    BY <1>1 DEF AsWritten
  <1>5. /\ LiveDR /\ LiveEX /\ MW \in InStage /\ EX \in InStage /\ DR \in InStage
        /\ ArchOK(arch) /\ ArchOK(AfterMW) /\ ArchOK(AfterEX) /\ ArchOK(AfterDR)
        /\ Fits(arch, MW) /\ Fits(AfterMW, EX) /\ Fits(AfterEX, DR)
    BY StageTypes, ChainOK DEF LiveIF, LiveDR, ChainInv
  <1>6. AfterDR.slots > 0 => i.op \notin Transfers
    <2>1. InDelaySlot => i.op \notin Flows
      BY <1>1 DEF MayFetch
    <2>2. AfterDR.slots > 0 => AfterDR.slots # 0
      BY <1>5 DEF ArchOK, ArchType
    <2> QED BY <2>1, <2>2, SlotsInFlight DEF Transfers, Flows, CacheFlows
  <1>7. i.op = "ret" /\ i.delayed => AfterDR.link # Nowhere
    <2>1. i.op = "ret" /\ i.delayed => arch.link # Nowhere
      BY <1>1 DEF MayFetch
    <2> QED BY <1>5, <2>1, LinkStays DEF AfterMW, AfterEX, AfterDR
  <1>8. i.op = "brcf" => i.dest # Nowhere
    BY <1>1 DEF MayFetch
  <1>9. ASSUME i.op \in {"xret", "trap", "sts"}
        PROVE  AfterDR.modes = arch.modes
    <2>1. ~ Changes(MW) /\ ~ Changes(EX) /\ ~ Changes(DR)
      BY <1>1, <1>9 DEF MayFetch, ModeIsSettled, InFlight, Changes, MW, EX, DR
    <2> QED BY <2>1, SettledModes, ModesAreKept
  <1>10. /\ i.op = "xret" => Len(arch.modes) > 1
         /\ i.op = "trap" => ~ i.delayed /\ Len(arch.modes) < MaxNesting
         /\ i.op = "sts" => /\ arch.modes[1] = 2
                            /\ i.dest.base % 2 = 1 => Len(arch.modes) < MaxNesting
    BY <1>1 DEF MayFetch
  <1> HIDE DEF i
  <1>11. Fits(AfterDR, i)
    BY <1>1, <1>2, <1>3, <1>4, <1>6, <1>7, <1>8, <1>9, <1>10 DEF Fits, None, Real, Transfers
  <1> QED BY <1>11 DEF i

\* A new instruction of the pipeline is an instruction.
LEMMA StageForm ==
  ASSUME NEW op \in StageOps, NEW delayed \in BOOLEAN, NEW guard \in BOOLEAN,
         NEW dest \in Places, NEW addr \in Nat
  PROVE  [op |-> op, delayed |-> delayed, guard |-> guard, dest |-> dest, addr |-> addr,
          done |-> FALSE] \in InStage
  BY DEF InStage

\* An instruction of the program is fetched.
LEMMA DecodeStep ==
  ASSUME Orderly, ~ HaltingSlots, Fetches, Decode
  PROVE  Orderly'
  <1>1. PICK w \in Instructions :
          /\ MayFetch(w)
          /\ pipe' = [pipe EXCEPT !["IF"] = Issued(w, pc)]
          /\ delay' = DelayAfter(w)
    BY DEF Decode
  <1> DEFINE i == Issued(w, pc)
  <1>2. /\ i.op = w.op /\ i.delayed = w.delayed /\ i.guard = w.guard /\ i.dest = w.dest
        /\ i.addr = pc /\ i.done = FALSE
    BY DEF Issued
  <1>3. /\ i.op \in Transfers \cup {"alu", "mem", "sts"} /\ i.op \in program
        /\ w.dest \in Places /\ w.guard \in BOOLEAN /\ w.delayed \in BOOLEAN
    <2>1. WrittenForm(w)
      BY WrittenForms
    <2>2. i.op \in program
      BY <1>1, <1>2 DEF MayFetch
    <2> HIDE DEF i
    <2> QED BY <1>2, <2>1, <2>2 DEF WrittenForm
  <1>4. /\ ~ disableIF /\ ~ halt /\ handling = 0 /\ turn = "IF" /\ turn' = "MW" /\ ~ stalled
        /\ disableIF' = TRUE /\ nPC' = Succ(pc) /\ pc \in Nat /\ delay \in 0 .. 3
        /\ UNCHANGED <<stalled, handling, unit, pc, halt, arch, base, regs, running, program>>
    BY DEF Orderly, Fetches, IF_, Decode, FetchHit, TurnInv, TypeInv, Succ
  <1>5. i \in InStage
    <2>1. i.op \in StageOps
      BY <1>3, <1>4, Constants DEF Orderly, TypeInv, StageOps
    <2>2. i = [op |-> i.op, delayed |-> w.delayed, guard |-> w.guard, dest |-> w.dest,
               addr |-> pc, done |-> FALSE]
      BY DEF Issued
    <2> HIDE DEF i
    <2> QED BY <1>3, <1>4, <2>1, <2>2, StageForm
  <1>6. /\ Kept /\ Fetched' = i /\ MW' = MW /\ EX' = EX /\ DR' = DR
        /\ pipe' = [pipe EXCEPT !["IF"] = i]
    BY <1>1, <1>4, <1>5, FetchedOnly DEF Kept, Orderly
  <1>7. MayFetch(w) /\ delay' = DelayAfter(w)
    BY <1>1
  <1> HIDE DEF i
  <1>8. Fetched.op \in {"bubble", "halt"}
    BY <1>4 DEF Orderly, ChainInv
  <1>9. DR.op # "intr" /\ EX.op # "intr" /\ MW.op # "intr"
    BY <1>4 DEF Orderly, DelayInv
  <1>10. Real(i) /\ i.op \notin {"bubble", "halt", "intr"}
    BY <1>3 DEF Real, Transfers
  <1>11. /\ delay' \in 0 .. 3
         /\ i.op \in CacheFlows => delay' >= 3
         /\ i.op = "br" => delay' >= 2
         /\ delay >= 3 => delay' >= 2
         /\ delay >= 2 => delay' >= 1
    <2>1. IntrDelaySlots(w) = IF i.op = "br" THEN 2 ELSE IF i.op \in CacheFlows THEN 3 ELSE 0
      BY <1>2 DEF IntrDelaySlots, CacheFlows
    <2>2. delay' = IF IntrDelaySlots(w) >= delay THEN IntrDelaySlots(w) ELSE delay - 1
      BY <1>7 DEF DelayAfter
    <2>3. i.op = "br" => i.op \notin CacheFlows
      BY DEF CacheFlows
    <2> QED BY <1>4, <2>1, <2>2, <2>3
  <1>12. TypeInv'
    <2>1. nPC' \in Nat
      BY <1>4, SuccType
    <2> QED BY <1>3, <1>4, <1>5, <1>6, <1>11, <2>1, KeptType DEF Orderly, TypeInv
  <1>13. ChainInv' /\ ReadyInv' /\ RegsInv'
    <2>1. LiveIF => Fits(AfterDR, i)
      BY <1>4, <1>7, FetchFits DEF Orderly, i
    <2>2. ~ LiveIF => Doomed(i)
      BY <1>2, <1>7, ShadowSeen DEF MayFetch, Doomed
    <2> QED BY <1>4, <1>6, <1>10, <2>1, <2>2, KeptChainInv, KeptRegs DEF Orderly, None
  <1>14. FlushInv'
    BY <1>2, <1>6, <1>9, KeptFlush DEF Orderly
  <1>15. UnitInv'
    <2>1. Changes(i) => ~ Changes(MW) /\ ~ Changes(EX) /\ ~ Changes(DR)
      <3>1. Changes(i) => ModeIsSettled
        BY <1>2, <1>7, <1>10 DEF MayFetch, Changes, ModeChanges
      <3> QED BY <3>1 DEF ModeIsSettled, InFlight, Changes, MW, EX, DR
    <2> QED BY <1>2, <1>4, <1>5, <1>6, <1>8, <1>10, <2>1, KeptModes DEF Orderly
  <1>16. TurnInv'
    BY <1>4, <1>6, KeptChain DEF Orderly, TurnInv
  <1>17. NextPCInv'
    BY <1>2, <1>4, <1>6, KeptChain DEF NextPCInv
  <1>18. AddrInv'
    BY <1>2, <1>4, <1>6, KeptChain DEF Orderly, AddrInv
  <1>19. DelayInv'
    BY <1>4, <1>6, <1>9, <1>10, <1>11 DEF Orderly, DelayInv
  <1>20. HaltInv'
    <2>1. ~ (\E s \in Stages : pipe'[s].op = "halt")
      BY <1>4, <1>5, <1>6, <1>10, FetchedOnly, EveryStage DEF Orderly, HaltInv
    <2> HIDE DEF Stages
    <2> QED BY <1>4, <1>6, <2>1, KeptChain DEF Orderly, HaltInv
  <1> QED BY <1>12, <1>13, <1>14, <1>15, <1>16, <1>17, <1>18, <1>19, <1>20 DEF Orderly

\* The modes that are kept at once.
LEMMA ModesOK ==
  ASSUME NEW a, ArchOK(a)
  PROVE  /\ a.modes \in Seq(0 .. 3) /\ Len(a.modes) \in Nat
         /\ Len(a.modes) > 0 /\ Len(a.modes) <= MaxNesting
         /\ a.modes[1] \in 0 .. 3
  <1>1. a.modes \in Seq(0 .. 3) /\ Len(a.modes) \in 1 .. MaxNesting
    BY DEF ArchOK, ArchType
  <1> QED BY <1>1, Constants

\* An interrupt finds the modes settled, and the lowest bit of Status is the one that
\* the program has set.
LEMMA InterruptAllowed ==
  ASSUME Orderly, Sound, ~ disableIF, ~ halt, handling = 0, delay = 0, turn = "IF",
         Unit!InterruptPending(unit)
  PROVE  /\ LiveIF /\ AfterDR.slots = 0 /\ AfterDR.modes[1] % 2 = 1
         /\ unit.status = Encoded(AfterDR.modes) /\ ModesInUnit = AfterDR.modes
         /\ DR.op \notin Flows \cup {"sts"} /\ EX.op \notin Flows \cup {"sts"}
         /\ MW.op \notin CacheFlows /\ (MW.op = "sts" => MW.done)
         /\ "sts" \in program /\ "trap" \notin program
  <1>1. /\ MW \in InStage /\ EX \in InStage /\ DR \in InStage
        /\ ArchOK(arch) /\ ArchOK(AfterMW) /\ Fits(arch, MW)
    BY StageTypes, ChainOK DEF Orderly, ChainInv
  <1>2. DR.op \notin Flows /\ EX.op \notin Flows /\ MW.op \notin CacheFlows
    BY DEF Orderly, DelayInv, Flows, CacheFlows
  <1>3. LiveIF /\ LiveDR /\ LiveEX
    BY <1>2 DEF LiveIF, LiveDR, LiveEX, Kills, KillsLate, Late
  <1>4. /\ ArchOK(AfterEX) /\ ArchOK(AfterDR) /\ Fits(AfterMW, EX) /\ Fits(AfterEX, DR)
    BY <1>3, ChainOK DEF Orderly, ChainInv
  <1>5. AfterDR.slots = 0
    <2>1. arch.slots \in 0 .. 3 /\ AfterMW.slots # 3 /\ AfterMW.slots \in 0 .. 3
      BY <1>1, <1>2, ChainSlots DEF Orderly, Taken, Flows, ArchOK, ArchType
    <2>2. AfterEX.slots \in {0, 1}
      BY <1>2, <1>3, <2>1, ChainSlots DEF Orderly, Taken
    <2> QED BY <1>2, <1>3, <2>2, ChainSlots DEF Orderly, Taken
  <1>6. unit.mask # {} /\ unit.status % 2 = 1
    BY DEF Unit!InterruptPending
  <1>7. "sts" \in program
    BY <1>6 DEF Orderly, UnitInv
  <1>8. "trap" \notin program
    BY <1>7 DEF Orderly, TypeInv, Sound
  <1>9. unit.status = Encoded(ModesInUnit)
    BY <1>8 DEF Orderly, UnitInv
  <1>10. ModesInUnit = IF MW.op = "sts" /\ MW.done THEN AfterMW.modes ELSE arch.modes
    <2>1. Fetched.op # "intr" /\ MW.op \notin {"intr", "xret"} /\ DR.op # "intr"
          /\ EX.op # "intr"
      BY <1>2 DEF Orderly, ChainInv, CacheFlows, Flows
    <2> QED BY <2>1, EveryStage DEF ModesInUnit
  <1>11. ASSUME NEW s \in Seq(0 .. 3), Len(s) > 0, unit.status = Encoded(s)
         PROVE  s[1] % 2 = 1
    <2>1. s[1] \in 0 .. 3 /\ Encoded(Tail(s)) \in Nat
          /\ Encoded(s) = s[1] + (4 * Encoded(Tail(s)))
      BY <1>11, EncodedSplit
    <2> QED BY <1>6, <1>11, <2>1
  <1>12. ASSUME ModesInUnit = arch.modes
         PROVE  arch.modes[1] # 2
    <2>1. arch.modes[1] % 2 = 1
      BY <1>1, <1>9, <1>11, <1>12, ModesOK
    <2> QED BY <2>1
  <1>13. MW.op = "sts" => MW.done
    <2>1. MW.op = "sts" => arch.modes[1] = 2
      BY <1>1 DEF Fits
    <2> QED BY <1>10, <1>12, <2>1
  <1>14. ModesInUnit = AfterMW.modes
    <2>1. CASE MW.op = "sts"
      BY <1>10, <1>13, <2>1
    <2>2. CASE MW.op # "sts"
      <3>1. ~ Changes(MW)
        BY <1>2, <2>2 DEF Changes, ModeChanges, CacheFlows
      <3> QED BY <1>10, <2>2, <3>1, ModesAreKept DEF Orderly
    <2> QED BY <2>1, <2>2
  <1>15. AfterMW.modes[1] # 2
    <2>1. AfterMW.modes[1] % 2 = 1
      BY <1>1, <1>9, <1>11, <1>14, ModesOK
    <2> QED BY <2>1
  <1>16. EX.op # "sts"
    BY <1>4, <1>15 DEF Fits
  <1>17. ~ Changes(EX)
    BY <1>2, <1>16 DEF Changes, ModeChanges, Flows, CacheFlows
  <1>18. AfterEX.modes = AfterMW.modes
    BY <1>1, <1>4, <1>17, AfterModes DEF AfterEX, Changes, ModeChanges, EntersHandler
  <1>19. DR.op # "sts"
    BY <1>4, <1>15, <1>18 DEF Fits
  <1>20. ~ Changes(DR)
    BY <1>2, <1>19 DEF Changes, ModeChanges, Flows, CacheFlows
  <1>21. AfterDR.modes = AfterMW.modes
    BY <1>3, <1>17, <1>20, SettledModes DEF Orderly
  <1>22. AfterDR.modes[1] % 2 = 1
    BY <1>4, <1>9, <1>11, <1>14, <1>21, ModesOK
  <1> QED BY <1>2, <1>3, <1>5, <1>7, <1>8, <1>9, <1>13, <1>14, <1>16, <1>19, <1>21, <1>22

\* Entering a handler: the modes move up in Status, which has room for one more.
LEMMA EnteredStatus ==
  ASSUME NEW s \in Seq(0 .. 3), Len(s) < MaxNesting
  PROVE  Unit!Entered(Encoded(s)) = Encoded(<<2>> \o s)
  <1>1. Encoded(<<2>> \o s) = 2 + (4 * Encoded(s)) /\ Encoded(s) \in Nat
    BY EncodedPushed
  <1>2. <<2>> \o s \in Seq(0 .. 3) /\ Len(<<2>> \o s) <= MaxNesting
    <2>1. Len(<<2>> \o s) = 1 + Len(s) /\ Len(s) \in Nat /\ <<2>> \o s \in Seq(0 .. 3)
      OBVIOUS
    <2> QED BY <2>1, Constants
  <1>3. 2 + (4 * Encoded(s)) < StatusSpan /\ StatusSpan \in Nat
    BY <1>1, <1>2, StatusHasRoom, PipelineAssumption
  <1>4. (Encoded(s) * 4) % StatusSpan = 4 * Encoded(s)
    <2> DEFINE n == Encoded(s)
    <2>1. n \in Nat /\ 4 * n < StatusSpan
      BY <1>1, <1>3
    <2> HIDE DEF n
    <2>2. n * 4 = 4 * n /\ n * 4 \in 0 .. StatusSpan - 1
      BY <1>3, <2>1
    <2>3. (n * 4) % StatusSpan = n * 4
      BY <1>3, <2>2
    <2> QED BY <2>2, <2>3 DEF n
  <1> QED BY <1>1, <1>4 DEF Unit!Entered

\* An interrupt takes the place of what has been fetched.
LEMMA TakeInterruptStep ==
  ASSUME Orderly, Sound, Fetches, TakeInterrupt
  PROVE  Orderly'
  <1> DEFINE i == Issued(Instruction("intr", FALSE, TRUE, Place(Handler, Handler)), pc)
  <1>1. /\ i.op = "intr" /\ i.delayed = FALSE /\ i.guard = TRUE /\ i.done = FALSE
        /\ i.dest = Place(Handler, Handler) /\ i.addr = pc
    BY DEF Issued, Instruction
  <1>2. /\ ~ disableIF /\ ~ halt /\ turn = "IF" /\ turn' = "MW" /\ ~ stalled
        /\ disableIF' = TRUE /\ pc \in Nat /\ nPC \in Nat /\ delay \in 0 .. 3
        /\ Unit!InterruptPending(unit) /\ delay = 0 /\ handling = 0 /\ handling' = 3
        /\ unit' = Unit!NextInterrupt(unit)
        /\ UNCHANGED <<stalled, delay, pc, nPC, base, halt, regs, arch, running, program>>
    BY DEF Orderly, Fetches, IF_, TakeInterrupt, FetchHit, TakesInterrupt, TurnInv, TypeInv
  <1>3. i \in InStage
    <2>1. Place(Handler, Handler) \in Places /\ "intr" \in StageOps
      BY Constants DEF Place, Places, StageOps
    <2> QED BY <1>2, <2>1, StageForm DEF Issued, Instruction
  <1>4. pipe' = [pipe EXCEPT !["IF"] = i]
    BY DEF TakeInterrupt
  <1> HIDE DEF i
  <1>5. Kept /\ Fetched' = i /\ MW' = MW /\ EX' = EX /\ DR' = DR
    BY <1>2, <1>3, <1>4, FetchedOnly DEF Kept, Orderly
  <1>6. /\ LiveIF /\ AfterDR.slots = 0 /\ AfterDR.modes[1] % 2 = 1
        /\ unit.status = Encoded(AfterDR.modes) /\ ModesInUnit = AfterDR.modes
        /\ DR.op \notin Flows \cup {"sts"} /\ EX.op \notin Flows \cup {"sts"}
        /\ MW.op \notin CacheFlows /\ (MW.op = "sts" => MW.done)
        /\ "sts" \in program /\ "trap" \notin program
    BY <1>2, InterruptAllowed
  <1>7. ArchOK(AfterDR)
    BY <1>6, ChainOK DEF Orderly, LiveIF
  <1>8. Fetched.op \in {"bubble", "halt"}
    BY <1>2 DEF Orderly, ChainInv
  <1>9. Fits(AfterDR, i)
    <2>1. pc = AfterDR.next /\ ~ AfterDR.halted
      BY <1>2, <1>6, NotAtEnd DEF Orderly, ChainInv
    <2> QED BY <1>1, <1>6, <2>1 DEF Fits, None, Real
  <1>10. unit' \in UnitType /\ unit'.mask = unit.mask
         /\ unit'.status = Unit!Entered(unit.status)
    <2>1. unit \in UnitType /\ unit.pending \cap unit.mask = {Device}
      BY <1>2 DEF Orderly, TypeInv, UnitType, Unit!InterruptPending
    <2>2. Unit!Min({Device}) = Device
      BY DEF Unit!Min, Device
    <2>3. Unit!Chosen(unit) = Device
      BY <2>1, <2>2 DEF Unit!Chosen
    <2>4. unit' = [unit EXCEPT !.source = Device, !.pending = unit.pending \ {Device},
                               !.status = Unit!Entered(unit.status)]
      BY <1>2, <2>3 DEF Unit!NextInterrupt
    <2>5. Unit!Entered(unit.status) \in Nat
      <3>1. unit.status \in Nat /\ StatusSpan \in Nat /\ StatusSpan > 0
        <4>1. Encoded(AfterDR.modes) < StatusSpan /\ Encoded(AfterDR.modes) \in Nat
          BY <1>7, ModesOK, StatusHasRoom, EncodedSplit
        <4> QED BY <1>6, <4>1, PipelineAssumption
      <3> QED BY <3>1 DEF Unit!Entered
    <2> QED BY <2>1, <2>4, <2>5 DEF UnitType
  <1>11. TypeInv'
    <2>1. handling' \in 0 .. 3 /\ ~ Real(i)
      BY <1>1, <1>2 DEF Real
    <2> QED BY <1>2, <1>3, <1>4, <1>5, <1>10, <2>1, KeptType DEF Orderly, TypeInv
  <1>12. ChainInv' /\ ReadyInv' /\ RegsInv'
    BY <1>1, <1>2, <1>5, <1>6, <1>9, KeptChainInv, KeptRegs DEF Orderly, None
  <1>13. FlushInv'
    BY <1>1, <1>5, <1>6, KeptFlush DEF Orderly, Flows, CacheFlows
  <1>14. TurnInv' /\ NextPCInv'
    BY <1>1, <1>2, <1>5, KeptChain DEF Orderly, TurnInv, NextPCInv, Real
  <1>15. AddrInv'
    <2>1. ~ Saves(DR)
      BY <1>6 DEF Saves, Flows, CacheFlows
    <2> QED BY <1>2, <1>5, <2>1, KeptChain DEF Orderly, AddrInv
  <1>16. DelayInv'
    BY <1>1, <1>2, <1>5, <1>6 DEF DelayInv, Flows, CacheFlows
  <1>17. HaltInv'
    <2>1. ~ (\E s \in Stages : pipe'[s].op = "halt")
      BY <1>1, <1>2, <1>3, <1>4, FetchedOnly, EveryStage DEF Orderly, HaltInv
    <2> HIDE DEF Stages
    <2> QED BY <1>2, <1>5, <2>1, KeptChain DEF Orderly, HaltInv
  <1>18. UnitInv'
    <2>1. \E s \in Stages : pipe'[s].op = "intr"
      <3>1. pipe'["IF"] = i /\ "IF" \in Stages
        BY <1>3, <1>4, FetchedOnly DEF Orderly, Stages
      <3> QED BY <1>1, <3>1
    <2>2. ModesInUnit' = <<2>> \o ModesInUnit
      <3>1. ModesInUnit = IF MW.op \in {"sts", "xret"} /\ MW.done THEN AfterMW.modes
                                                                  ELSE arch.modes
        <4>1. Fetched.op # "intr" /\ MW.op # "intr" /\ DR.op # "intr" /\ EX.op # "intr"
          BY <1>6, <1>8 DEF CacheFlows, Flows
        <4> QED BY <4>1, EveryStage DEF ModesInUnit
      <3> QED BY <1>2, <1>5, <2>1, <3>1, KeptChain DEF ModesInUnit
    <2>3. unit'.status = Encoded(ModesInUnit')
      <3>1. Len(AfterDR.modes) # MaxNesting
        BY <1>6, <1>7 DEF ArchOK
      <3>2. Len(AfterDR.modes) < MaxNesting /\ AfterDR.modes \in Seq(0 .. 3)
        BY <1>7, <3>1, ModesOK, Constants
      <3> QED BY <1>6, <1>10, <2>2, <3>2, EnteredStatus
    <2>4. ~ Changes(EX) /\ ~ Changes(DR) /\ (Changes(MW) => MW.op = "sts" /\ MW.done)
      BY <1>6 DEF Changes, ModeChanges, Flows, CacheFlows
    <2>5. \A s \in Stages \ {"MW"} : pipe'[s].op \in {"sts", "xret"} => ~ pipe'[s].done
      BY <1>1, <1>3, <1>4, FetchedOnly DEF Orderly, UnitInv
    <2> HIDE DEF Stages
    <2> QED BY <1>1, <1>2, <1>5, <1>6, <2>3, <2>4, <2>5, KeptChain DEF UnitInv
  <1> QED BY <1>11, <1>12, <1>13, <1>14, <1>15, <1>16, <1>17, <1>18 DEF Orderly

\* Every fetch keeps the pipeline in order.
LEMMA FetchStep ==
  ASSUME Orderly, Sound, Fetches
  PROVE  Orderly'
  BY SkipFetchStep, FetchMissStep, FetchHaltStep, TakeInterruptStep, FetchBubbleStep,
     DecodeStep DEF Fetches, IF_, Sound

-----------------------------------------------------------------------------
(* EX: it works on one stage, or throws out what is behind it.              *)

Works == EX_ /\ UNCHANGED program

\* Only one stage has another instruction.
LEMMA WorkedOn ==
  ASSUME TypeInv, NEW s \in {"EX", "MW"}, NEW e \in InStage, pipe' = [pipe EXCEPT ![s] = e]
  PROVE  /\ s = "EX" => MW' = MW /\ EX' = e
         /\ s = "MW" => MW' = e /\ EX' = EX
         /\ DR' = DR /\ Fetched' = Fetched
         /\ pipe' \in [Stages -> InStage]
         /\ \A r \in Stages \ {s} : pipe'[r] = pipe[r]
         /\ pipe'[s] = e
  BY DEF TypeInv, Stages, MW, EX, DR, Fetched

\* EX fills in what its instruction has read or done.
LEMMA WorkDone ==
  ASSUME Orderly, Works, EX.op # "br", NEW e \in InStage, SameInstruction(EX, e),
         pipe' = [pipe EXCEPT !["EX"] = e],
         UNCHANGED <<pc, nPC, base, halt, regs>>,
         unit' \in UnitType, unit'.mask = unit.mask,
         "trap" \notin program => unit'.status = unit.status,
         e.op \in {"sts", "xret"} => ~ e.done,
         e.op = "ret" => e.dest = AfterMW.link,
         e.op = "xret" => e.dest = AfterMW.saved,
         e.op \in {"trap", "intr"} => e.dest = Place(Handler, Handler)
  PROVE  Orderly'
  <1>1. /\ turn = "EX" /\ turn' = "DR"
        /\ UNCHANGED <<stalled, running, disableIF, delay, handling, arch, program>>
        /\ UNCHANGED <<pc, nPC, base, halt, regs>>
    BY DEF Works, EX_, fetching
  <1>2. /\ MW' = MW /\ EX' = e /\ DR' = DR /\ Fetched' = Fetched
        /\ pipe' \in [Stages -> InStage]
        /\ \A r \in Stages \ {"EX"} : pipe'[r] = pipe[r]
        /\ pipe'["EX"] = e /\ EX \in InStage
    BY WorkedOn, StageTypes DEF Orderly
  <1>3. /\ e.op = EX.op /\ e.delayed = EX.delayed /\ e.guard = EX.guard /\ e.addr = EX.addr
    BY DEF SameInstruction
  <1>4. /\ AfterMW' = AfterMW /\ AfterEX' = AfterEX /\ AfterDR' = AfterDR
    BY <1>1, <1>2, SameMeaning DEF AfterMW, AfterEX, AfterDR
  <1>5. /\ LiveEX' <=> LiveEX
        /\ LiveDR' <=> LiveDR
        /\ LiveIF' <=> LiveIF
        /\ Applied' <=> Applied
    BY <1>1, <1>2, SameMeaning DEF LiveEX, LiveDR, LiveIF, Applied
  <1>6. TypeInv'
    <2>1. \A s \in Stages : Real(pipe'[s]) => pipe'[s].op \in program
      BY <1>2, <1>3 DEF Orderly, TypeInv, Real, Stages, EX
    <2> HIDE DEF Stages
    <2> QED BY <1>1, <1>2, <2>1 DEF Orderly, TypeInv
  <1>7. ChainInv'
    <2>1. /\ Fits(AfterMW, EX) => Fits(AfterMW, e)
          /\ Doomed(EX) => Doomed(e)
      BY <1>2, SameMeaning
    <2> QED BY <1>1, <1>2, <1>4, <1>5, <2>1 DEF Orderly, ChainInv
  <1>8. TurnInv'
    BY <1>1, <1>2, <1>5 DEF Orderly, TurnInv
  <1>9. FlushInv'
    <2>1. (Kills(e) <=> Kills(EX)) /\ (None(e) <=> None(EX))
      BY <1>2, SameMeaning
    <2>2. KillsLate(MW) /\ MW.op \notin {"callr", "trap"} => None(EX)
      BY <1>1 DEF Orderly, FlushInv
    <2> QED BY <1>1, <1>2, <1>3, <2>1, <2>2 DEF Orderly, FlushInv, None
  <1>10. NextPCInv'
    BY <1>1, <1>2, <1>3, <1>5 DEF Orderly, NextPCInv
  <1>11. AddrInv'
    <2>1. Saves(e) <=> Saves(EX)
      BY <1>3 DEF Saves, Late
    <2> QED BY <1>1, <1>2, <1>3, <1>5, <2>1 DEF Orderly, AddrInv
  <1>12. DelayInv'
    BY <1>1, <1>2, <1>3 DEF Orderly, DelayInv
  <1>13. HaltInv'
    <2>1. (\E s \in Stages : pipe'[s].op = "halt") => \E s \in Stages : pipe[s].op = "halt"
      BY <1>2, <1>3 DEF Stages, EX
    <2> HIDE DEF Stages
    <2> QED BY <1>1, <1>2, <1>5, <2>1 DEF Orderly, HaltInv
  <1>14. ReadyInv'
    BY <1>1, <1>2, <1>4 DEF Orderly, ReadyInv
  <1>15. RegsInv'
    BY <1>1, <1>2, <1>4, <1>5 DEF Orderly, RegsInv
  <1>16. UnitInv'
    <2>1. (\E s \in Stages : pipe'[s].op = "intr") <=> \E s \in Stages : pipe[s].op = "intr"
      BY <1>2, <1>3 DEF Stages, EX
    <2>2. ModesInUnit' = ModesInUnit
      BY <1>1, <1>2, <1>4, <2>1 DEF ModesInUnit
    <2>3. Changes(e) <=> Changes(EX)
      BY <1>3 DEF Changes
    <2>4. "sts" \notin program => \A s \in Stages : pipe'[s].op # "intr"
      BY <2>1 DEF Orderly, UnitInv
    <2>5. \A s \in Stages \ {"MW"} : pipe'[s].op \in {"sts", "xret"} => ~ pipe'[s].done
      BY <1>2 DEF Orderly, UnitInv
    <2> HIDE DEF Stages
    <2>6. "trap" \notin program => unit'.status = Encoded(ModesInUnit')
      BY <2>2 DEF Orderly, UnitInv
    <2> QED BY <1>1, <1>2, <1>3, <1>5, <2>3, <2>4, <2>5, <2>6 DEF Orderly, UnitInv
  <1> QED BY <1>6, <1>7, <1>8, <1>9, <1>10, <1>11, <1>12, <1>13, <1>14, <1>15, <1>16
          DEF Orderly

\* What is in EX reads its registers behind the one in MW.
LEMMA LinkIsReady ==
  ASSUME TypeInv, ChainInv, RegsInv, EX.op = "ret"
  PROVE  regs.link = AfterMW.link
  <1>1. LiveEX /\ Fits(AfterMW, EX) /\ ArchOK(AfterMW) /\ MW \in InStage
    BY ChainOK, StageTypes DEF ChainInv, Doomed
  <1>2. ~ (AfterMW.slots > 0)
    BY <1>1 DEF Fits, Real, Transfers
  <1>3. EventualLink(AfterMW) = AfterMW.link
    BY <1>2 DEF EventualLink
  <1>4. ~ (Late(MW) /\ IsCall(MW))
    <2>1. SUFFICES ASSUME Late(MW), IsCall(MW) PROVE FALSE
      OBVIOUS
    <2>2. MW.delayed /\ Taken(MW) /\ MW.op # "br"
      BY <1>1, <2>1 DEF LiveEX, KillsLate, Late, Taken, Flows, IsCall
    <2>3. AfterMW.slots = 3
      BY <2>2, ChainSlots
    <2> QED BY <1>2, <2>3
  <1>5. regs.link = EventualLink(arch)
    BY <1>4 DEF RegsInv, IsCall
  <1>6. EventualLink(AfterMW) = EventualLink(arch)
    BY <1>1, <1>4, AfterLink DEF ChainInv, AfterMW
  <1> QED BY <1>3, <1>5, <1>6

\* xret in EX reads the address that it will return to.
LEMMA SavedIsReady ==
  ASSUME TypeInv, ChainInv, RegsInv, EX.op = "xret"
  PROVE  regs.saved = AfterMW.saved
  <1>1. LiveEX /\ Fits(arch, MW) /\ MW \in InStage /\ ArchOK(arch)
    BY StageTypes DEF ChainInv, Doomed
  <1>2. ~ (Late(MW) /\ EntersHandler(MW))
    BY <1>1 DEF Fits, LiveEX, KillsLate, EntersHandler
  <1>3. regs.saved = arch.saved
    BY <1>2 DEF RegsInv, EntersHandler
  <1>4. ~ (EntersHandler(MW) /\ MW.guard)
    BY <1>2 DEF EntersHandler, Late, CacheFlows
  <1>5. AfterMW.saved = arch.saved
    BY <1>1, <1>4, AfterSaved DEF AfterMW
  <1> QED BY <1>3, <1>5

\* ret and xret read their registers.
LEMMA ReturnEXStep ==
  ASSUME Orderly, Works, ReturnEX
  PROVE  Orderly'
  <1> DEFINE dest == IF EX.op = "ret" THEN regs.link ELSE regs.saved
             e == [EX EXCEPT !.dest = dest]
  <1>1. /\ EX.op \in {"ret", "xret"} /\ EX \in InStage
        /\ UNCHANGED <<pc, nPC, base, halt, regs, unit>>
    BY StageTypes DEF Orderly, ReturnEX, control
  <1>2. pipe' = [pipe EXCEPT !["EX"] = e]
    BY DEF ReturnEX, EX, Orderly, TypeInv, Stages
  <1>3. dest \in Places
    BY DEF Orderly, TypeInv
  <1>4. e \in InStage /\ SameInstruction(EX, e) /\ e.dest = dest /\ e.op = EX.op
    <2> HIDE DEF dest
    <2>1. e \in InStage
      BY <1>1, <1>3 DEF InStage
    <2> QED BY <1>1, <2>1 DEF SameInstruction, InStage
  <1>5. e.done <=> EX.done
    BY <1>1 DEF InStage
  <1>6. EX.op \in {"sts", "xret"} => ~ EX.done
    BY DEF Orderly, UnitInv, Stages, EX
  <1>7. /\ e.op = "ret" => e.dest = AfterMW.link
        /\ e.op = "xret" => e.dest = AfterMW.saved
    BY <1>1, <1>4, LinkIsReady, SavedIsReady DEF Orderly
  <1>8. unit' \in UnitType /\ unit'.mask = unit.mask /\ unit'.status = unit.status
    BY <1>1 DEF Orderly, TypeInv
  <1> HIDE DEF e
  <1> QED BY <1>1, <1>2, <1>4, <1>5, <1>6, <1>7, <1>8, WorkDone

\* trap shifts Status.
LEMMA TrapEXStep ==
  ASSUME Orderly, Works, TrapEX
  PROVE  Orderly'
  <1> DEFINE dest == Place(Handler, Handler)
             e == [EX EXCEPT !.dest = dest]
  <1>1. /\ EX.op = "trap" /\ EX \in InStage
        /\ UNCHANGED <<pc, nPC, base, halt, regs>>
    BY StageTypes DEF Orderly, TrapEX
  <1>2. pipe' = [pipe EXCEPT !["EX"] = e]
    BY DEF TrapEX, EX, Orderly, TypeInv, Stages
  <1>3. dest \in Places
    BY Constants DEF Places, Place
  <1>4. e \in InStage /\ SameInstruction(EX, e) /\ e.dest = dest /\ e.op = EX.op
    <2> HIDE DEF dest
    <2>1. e \in InStage
      BY <1>1, <1>3 DEF InStage
    <2> QED BY <1>1, <2>1 DEF SameInstruction, InStage
  <1>5. EX.op \in program
    BY <1>1 DEF Orderly, TypeInv, Stages, EX, Real
  <1>6. unit' \in UnitType /\ unit'.mask = unit.mask
    <2>1. unit \in UnitType
      BY DEF Orderly, TypeInv
    <2>2. CASE EX.guard
      <3>1. unit' = [unit EXCEPT !.source = 0, !.status = Unit!Entered(unit.status)]
        BY <2>2 DEF TrapEX, Unit!Trapped
      <3>2. StatusSpan \in Nat /\ StatusSpan > 0
        <4>1. arch.modes \in Seq(0 .. 3) /\ Len(arch.modes) > 0 /\ Len(arch.modes) <= MaxNesting
          BY ModesOK DEF Orderly, ChainInv
        <4>2. Encoded(arch.modes) < StatusSpan /\ Encoded(arch.modes) \in Nat
          BY <4>1, StatusHasRoom, EncodedSplit
        <4> QED BY <4>2, PipelineAssumption
      <3>3. Unit!Entered(unit.status) \in Nat
        BY <2>1, <3>2 DEF Unit!Entered, UnitType
      <3> QED BY <2>1, <3>1, <3>3 DEF UnitType
    <2>3. CASE ~ EX.guard
      BY <2>1, <2>3 DEF TrapEX
    <2> QED BY <2>2, <2>3
  <1> HIDE DEF e
  <1> QED BY <1>1, <1>2, <1>4, <1>5, <1>6, WorkDone

\* A predicate or special register is written.
LEMMA EffectEXStep ==
  ASSUME Orderly, Works, EffectEX
  PROVE  Orderly'
  <1> DEFINE e == [EX EXCEPT !.done = TRUE]
  <1>1. /\ EX.op = "alu" /\ EX \in InStage
        /\ UNCHANGED <<pc, nPC, base, halt, regs, unit>>
    BY StageTypes DEF Orderly, EffectEX, control
  <1>2. pipe' = [pipe EXCEPT !["EX"] = e]
    BY DEF EffectEX, EX, Orderly, TypeInv, Stages
  <1>3. e \in InStage /\ SameInstruction(EX, e) /\ e.op = EX.op
    BY <1>1 DEF InStage, SameInstruction
  <1>4. unit' \in UnitType /\ unit'.mask = unit.mask /\ unit'.status = unit.status
    BY <1>1 DEF Orderly, TypeInv
  <1> HIDE DEF e
  <1> QED BY <1>1, <1>2, <1>3, <1>4, WorkDone

\* What EX does for the others cannot be seen here.
LEMMA OtherEXStep ==
  ASSUME Orderly, Works, OtherEX
  PROVE  Orderly'
  <1>1. /\ EX.op \notin {"alu", "br", "ret", "xret", "trap"} /\ EX \in InStage
        /\ UNCHANGED <<pc, nPC, base, halt, regs, unit, pipe>>
    BY StageTypes DEF Orderly, OtherEX, control
  <1>2. pipe' = [pipe EXCEPT !["EX"] = EX] /\ SameInstruction(EX, EX)
    BY <1>1 DEF EX, Orderly, TypeInv, SameInstruction
  <1>3. EX.op \in {"sts", "xret"} => ~ EX.done
    BY DEF Orderly, UnitInv, Stages, EX
  <1>4. EX.op = "intr" => EX.dest = Place(Handler, Handler)
    BY DEF Orderly, ChainInv, Doomed, Fits
  <1>5. unit' \in UnitType /\ unit'.mask = unit.mask /\ unit'.status = unit.status
    BY <1>1 DEF Orderly, TypeInv
  <1> QED BY <1>1, <1>2, <1>3, <1>4, <1>5, WorkDone

-----------------------------------------------------------------------------
\* What EX leaves of the pipeline when it flushes.
LEMMA FlushedStages ==
  ASSUME TypeInv
  PROVE  LET thrown == Flushed("EX")
         IN  /\ thrown \in [Stages -> InStage]
             /\ thrown["MW"] = MW /\ thrown["EX"] = EX
             /\ thrown["DR"] = NoInstruction /\ thrown["IF"] = NoInstruction
  <1>1. NoInstruction \in InStage
    BY DEF NoInstruction, InStage, StageOps, Nowhere, Places
  <1> QED BY <1>1 DEF TypeInv, Flushed, Before, Stages, MW, EX

\* What is in the shadow of a transfer is no transfer of its own, nor an interrupt.
LEMMA BranchEXStep ==
  ASSUME Orderly, Works, BranchEX
  PROVE  Orderly'
  <1>1. /\ turn = "EX" /\ turn' = "DR" /\ EX.op = "br"
        /\ UNCHANGED <<stalled, running, disableIF, delay, handling, arch, program>>
        /\ UNCHANGED <<pc, base, halt, regs, unit>>
        /\ nPC' = IF EX.guard THEN EX.dest.pc ELSE nPC
        /\ pipe' = IF EX.guard /\ ~ EX.delayed THEN Flushed("EX") ELSE pipe
    BY DEF Works, EX_, fetching, BranchEX
  <1>2. EX \in InStage /\ MW \in InStage /\ DR \in InStage /\ Fetched \in InStage
    BY StageTypes DEF Orderly
  <1>3. Kills(EX) <=> EX.guard /\ ~ EX.delayed
    BY <1>1 DEF Kills, Flows
  <1>4. /\ pipe' \in [Stages -> InStage]
        /\ pipe'["MW"] = MW /\ pipe'["EX"] = EX
        /\ Kills(EX) => pipe'["DR"] = NoInstruction /\ pipe'["IF"] = NoInstruction
        /\ ~ Kills(EX) => pipe'["DR"] = DR /\ pipe'["IF"] = Fetched
    BY <1>1, <1>3, FlushedStages DEF Orderly, TypeInv, MW, EX, DR, Fetched
  <1>5. /\ MW' = MW /\ EX' = EX
        /\ Kills(EX) => DR' = NoInstruction /\ Fetched' = NoInstruction
        /\ ~ Kills(EX) => DR' = DR /\ Fetched' = Fetched
    BY <1>4 DEF MW, EX, DR, Fetched
  <1>6. NoInstruction.op = "bubble"
    BY DEF NoInstruction
  <1>7. /\ AfterMW' = AfterMW /\ AfterEX' = AfterEX
        /\ ~ Kills(EX) => AfterDR' = AfterDR
    BY <1>1, <1>5 DEF AfterMW, AfterEX, AfterDR
  <1>8. /\ LiveEX' <=> LiveEX
        /\ LiveDR' <=> LiveDR
        /\ Kills(EX) => ~ LiveDR /\ ~ LiveIF /\ ~ LiveIF'
        /\ ~ Kills(EX) => (LiveIF' <=> LiveIF)
        /\ Applied' <=> Applied
    BY <1>1, <1>5 DEF LiveEX, LiveDR, LiveIF, Applied
  <1>9. TypeInv'
    <2>1. \A s \in Stages : Real(pipe'[s]) => pipe'[s].op \in program
      BY <1>4, <1>6 DEF Orderly, TypeInv, Real, Stages, MW, EX, DR, Fetched
    <2>2. nPC' \in Nat
      BY <1>1, <1>2 DEF Orderly, TypeInv, InStage, Places
    <2> HIDE DEF Stages
    <2> QED BY <1>1, <1>4, <2>1, <2>2 DEF Orderly, TypeInv
  <1>10. ChainInv'
    <2>1. CASE Kills(EX)
      BY <1>1, <1>5, <1>6, <1>7, <1>8, <2>1 DEF Orderly, ChainInv, Doomed
    <2>2. CASE ~ Kills(EX)
      BY <1>1, <1>5, <1>7, <1>8, <2>2 DEF Orderly, ChainInv
    <2> QED BY <2>1, <2>2
  <1>11. TurnInv'
    BY <1>1, <1>5, <1>8 DEF Orderly, TurnInv
  <1>12. FlushInv'
    <2>1. ~ (KillsLate(MW) /\ (~ stalled \/ MW.op \notin {"callr", "trap"}))
          /\ MW.op # "intr"
      BY <1>1 DEF Orderly, FlushInv, None
    <2>2. CASE Kills(EX)
      BY <1>1, <1>5, <1>6, <2>1, <2>2 DEF FlushInv, None
    <2>3. CASE ~ Kills(EX)
      BY <1>1, <1>5, <2>1, <2>3 DEF Orderly, FlushInv
    <2> QED BY <2>2, <2>3
  <1>13. EX.guard => ~ (Applied /\ Late(MW))
    <2>1. SUFFICES ASSUME EX.guard, Applied, Late(MW) PROVE FALSE
      OBVIOUS
    <2>2. ~ KillsLate(MW)
      BY <1>1, <2>1 DEF Orderly, FlushInv, Applied, None
    <2>3. MW.delayed /\ Taken(MW) /\ MW.op # "br"
      BY <2>1, <2>2 DEF KillsLate, Late, Taken, Flows, CacheFlows
    <2>4. AfterMW.slots = 3 /\ ArchOK(AfterMW) /\ Fits(AfterMW, EX)
      BY <2>2, <2>3, ChainSlots, ChainOK DEF Orderly, ChainInv, LiveEX
    <2> QED BY <1>1, <2>4 DEF Fits, Real, Transfers
  <1>14. NextPCInv'
    <2>1. CASE EX.guard
      BY <1>1, <1>5, <1>8, <1>13, <2>1 DEF NextPCInv
    <2>2. CASE ~ EX.guard
      BY <1>1, <1>3, <1>5, <1>8, <2>2 DEF Orderly, NextPCInv
    <2> QED BY <2>1, <2>2
  <1>15. AddrInv'
    <2>1. ~ Saves(EX) /\ ~ Saves(NoInstruction)
      BY <1>1, <1>6 DEF Saves
    <2>2. CASE Kills(EX)
      BY <1>1, <1>5, <1>8, <2>1, <2>2 DEF Orderly, AddrInv
    <2>3. CASE ~ Kills(EX)
      BY <1>1, <1>5, <1>8, <2>1, <2>3 DEF Orderly, AddrInv
    <2> QED BY <2>2, <2>3
  <1>16. Kills(EX) => DR.op # "intr" /\ Fetched.op # "intr"
    BY <1>8 DEF Orderly, ChainInv, Doomed
  <1>17. DelayInv'
    <2>1. CASE Kills(EX)
      BY <1>1, <1>5, <1>6, <1>16, <2>1 DEF Orderly, DelayInv, CacheFlows
    <2>2. CASE ~ Kills(EX)
      BY <1>1, <1>5, <2>2 DEF Orderly, DelayInv
    <2> QED BY <2>1, <2>2
  <1>18. HaltInv'
    <2>1. (\E s \in Stages : pipe'[s].op = "halt") => \E s \in Stages : pipe[s].op = "halt"
      BY <1>4, <1>6 DEF Stages, MW, EX, DR, Fetched
    <2> HIDE DEF Stages
    <2> QED BY <1>1, <1>5, <1>8, <2>1 DEF Orderly, HaltInv
  <1>19. ReadyInv'
    BY <1>1, <1>5, <1>7 DEF Orderly, ReadyInv
  <1>20. RegsInv'
    BY <1>1, <1>5, <1>7, <1>8 DEF Orderly, RegsInv
  <1>21. UnitInv'
    <2>1. (\E s \in Stages : pipe'[s].op = "intr") <=> \E s \in Stages : pipe[s].op = "intr"
      BY <1>4, <1>6, <1>16 DEF Stages, MW, EX, DR, Fetched
    <2>2. ModesInUnit' = ModesInUnit
      BY <1>1, <1>5, <1>7, <2>1 DEF ModesInUnit
    <2>3. ~ Changes(NoInstruction)
      BY <1>6 DEF Changes, ModeChanges
    <2>4. "sts" \notin program => \A s \in Stages : pipe'[s].op # "intr"
      BY <2>1 DEF Orderly, UnitInv
    <2>5. \A s \in Stages \ {"MW"} : pipe'[s].op \in {"sts", "xret"} => ~ pipe'[s].done
      BY <1>4, <1>6 DEF Orderly, UnitInv, Stages, EX, DR, Fetched
    <2> HIDE DEF Stages
    <2>6. CASE Kills(EX)
      BY <1>1, <1>5, <1>8, <2>2, <2>3, <2>4, <2>5, <2>6 DEF Orderly, UnitInv
    <2>7. CASE ~ Kills(EX)
      BY <1>1, <1>5, <1>8, <2>2, <2>4, <2>5, <2>7 DEF Orderly, UnitInv
    <2> QED BY <2>6, <2>7
  <1> QED BY <1>9, <1>10, <1>11, <1>12, <1>14, <1>15, <1>17, <1>18, <1>19, <1>20, <1>21
          DEF Orderly

\* Every cycle of EX keeps the pipeline in order.
LEMMA WorkStep ==
  ASSUME Orderly, Works
  PROVE  Orderly'
  BY BranchEXStep, ReturnEXStep, TrapEXStep, EffectEXStep, OtherEXStep DEF Works, EX_

-----------------------------------------------------------------------------
(* MW: what an instruction may do in a cycle that it spends there.          *)

\* The stages behind MW stay, or are thrown out.
Behind ==
  \/ EX' = EX /\ DR' = DR /\ Fetched' = Fetched
  \/ KillsLate(MW) /\ None(EX') /\ None(DR') /\ None(Fetched')

Dispatched ==
  ~ halt' => IF Late(MW) /\ ~ stalled' THEN nPC' = MW.dest.pc /\ base' = MW.dest.base
                                       ELSE UNCHANGED <<nPC, base>>

Stored ==
  regs' = IF Late(MW) /\ ~ stalled /\ IsCall(MW)
          THEN [regs EXCEPT !.link = Place(base, ReturnPC)]
          ELSE IF Late(MW) /\ ~ stalled /\ EntersHandler(MW)
          THEN [regs EXCEPT !.saved = Place(base, IF MW.op = "intr" THEN MW.addr
                                                                    ELSE EX.addr)]
          ELSE regs

Noted(m) ==
  \/ unit' = unit /\ (MW.op \in {"sts", "xret"} => (m.done <=> MW.done))
  \/ /\ MW.op \in {"sts", "xret"} /\ ~ MW.done /\ m.done
     /\ unit' \in UnitType /\ unit'.mask = unit.mask
     /\ "trap" \notin program => unit'.status = Encoded(AfterMW.modes)

Executing(m) ==
  /\ turn = "MW" /\ turn' = "EX"
  /\ UNCHANGED <<running, disableIF, delay, handling, arch, program, pc>>
  /\ MW.op # "halt" /\ m \in InStage /\ SameInstruction(MW, m) /\ m.dest = MW.dest
  /\ pipe' \in [Stages -> InStage] /\ MW' = m /\ Behind
  /\ KillsLate(MW) /\ (~ stalled' \/ MW.op \notin {"callr", "trap"})
       => None(EX') /\ None(DR') /\ None(Fetched')
  /\ Saves(MW) /\ (stalled' \/ MW.op = "call") => EX'.addr = EX.addr
  /\ stalled' \in BOOLEAN /\ (stalled => stalled')
  /\ nPC' \in Nat /\ base' \in Nat /\ halt' \in BOOLEAN /\ regs' \in [link : Places, saved : Places]
  /\ Dispatched /\ Stored /\ Noted(m)
  /\ \/ halt' <=> halt
     \/ halt' /\ KillsLate(MW) /\ MW.op = "ret" /\ MW.dest.base = 0 /\ stalled' = stalled
  /\ KillsLate(MW) /\ MW.op = "ret" /\ MW.dest.base = 0 => halt'
  /\ MW.op = "sts" => m.done
  /\ ~ stalled /\ MW.op = "xret" /\ MW.guard => m.done

\* The stages as names.
StageIs(op) == MW.op = op \/ EX.op = op \/ DR.op = op \/ Fetched.op = op

\* The stages and their meaning while MW works.
LEMMA ExecutingStages ==
  ASSUME Orderly, NEW m, Executing(m)
  PROVE  /\ AfterMW' = AfterMW
         /\ MW' = m /\ m.op = MW.op /\ m.delayed = MW.delayed /\ m.guard = MW.guard
         /\ m.addr = MW.addr
         /\ KillsLate(m) <=> KillsLate(MW)
         /\ Late(m) <=> Late(MW)
         /\ LiveEX' <=> LiveEX
         /\ ~ Applied
         /\ Applied' <=> ~ stalled'
         /\ KillsLate(MW) => Doomed(EX) /\ Doomed(DR) /\ Doomed(Fetched)
         /\ \A op : op # "bubble" /\ StageIs(op)' => StageIs(op)
         /\ StageIs("intr") => StageIs("intr")'
  <1>1. m \in InStage /\ MW \in InStage /\ SameInstruction(MW, m) /\ MW' = m
        /\ arch' = arch /\ turn = "MW" /\ turn' = "EX" /\ Behind
    BY StageTypes DEF Executing, Orderly
  <1>2. /\ AfterMW' = AfterMW
        /\ KillsLate(m) <=> KillsLate(MW)
        /\ Late(m) <=> Late(MW)
        /\ LiveEX' <=> LiveEX
    BY <1>1, SameMeaning DEF AfterMW, LiveEX
  <1>3. KillsLate(MW) => Doomed(EX) /\ Doomed(DR) /\ Doomed(Fetched)
    BY DEF Orderly, ChainInv, LiveEX, LiveDR, LiveIF
  <1>4. m.op = MW.op /\ m.delayed = MW.delayed /\ m.guard = MW.guard /\ m.addr = MW.addr
    BY <1>1 DEF SameInstruction
  <1>5. \A op : op # "bubble" /\ StageIs(op)' => StageIs(op)
    BY <1>1, <1>4 DEF StageIs, Behind, None
  <1>6. StageIs("intr") => StageIs("intr")'
    BY <1>1, <1>3, <1>4 DEF StageIs, Behind, Doomed
  <1> QED BY <1>1, <1>2, <1>3, <1>4, <1>5, <1>6 DEF Applied

\* While MW works the state stays well typed.
LEMMA ExecutingType ==
  ASSUME Orderly, NEW m, Executing(m)
  PROVE  TypeInv'
  <1>1. \A s \in Stages : Real(pipe'[s]) => pipe'[s].op \in program
    <2>1. MW'.op = MW.op
      BY ExecutingStages
    <2>2. Behind
      BY DEF Executing
    <2>3. pipe'["MW"].op = pipe["MW"].op
      BY <2>1 DEF MW
    <2>4. \A s \in {"EX", "DR", "IF"} : pipe'[s] = pipe[s] \/ pipe'[s].op = "bubble"
      BY <2>2 DEF Behind, None, EX, DR, Fetched
    <2> QED BY <2>3, <2>4 DEF Orderly, TypeInv, Stages, Real
  <1>2. unit' \in UnitType
    BY DEF Executing, Noted, Orderly, TypeInv
  <1> HIDE DEF Stages
  <1> QED BY <1>1, <1>2 DEF Executing, Orderly, TypeInv

\* While MW works each stage still holds what the machine will execute next.
LEMMA ExecutingChain ==
  ASSUME Orderly, NEW m, Executing(m)
  PROVE  ChainInv'
  <1>1. /\ MW' = m /\ m \in InStage /\ MW \in InStage /\ SameInstruction(MW, m)
        /\ UNCHANGED <<disableIF, arch, pc>> /\ (halt => halt') /\ Behind
    BY StageTypes DEF Executing, Orderly
  <1>2. Fits(arch, m) /\ AfterMW' = AfterMW
        /\ (LiveEX' <=> LiveEX)
    BY <1>1, SameMeaning, ExecutingStages DEF Orderly, ChainInv
  <1>3. CASE EX' = EX /\ DR' = DR /\ Fetched' = Fetched
    <2>1. /\ AfterEX' = AfterEX /\ AfterDR' = AfterDR
          /\ LiveDR' <=> LiveDR
          /\ LiveIF' <=> LiveIF
      BY <1>2, <1>3 DEF AfterEX, AfterDR, LiveDR, LiveIF
    <2> QED BY <1>1, <1>2, <1>3, <2>1 DEF Orderly, ChainInv
  <1>4. CASE KillsLate(MW) /\ None(EX') /\ None(DR') /\ None(Fetched')
    <2>1. ~ LiveEX' /\ ~ LiveDR' /\ ~ LiveIF'
      BY <1>2, <1>4 DEF LiveEX, LiveDR, LiveIF
    <2>2. Doomed(EX') /\ Doomed(DR') /\ Doomed(Fetched') /\ Fetched'.op = "bubble"
      BY <1>4 DEF None, Doomed
    <2> QED BY <1>1, <1>2, <2>1, <2>2 DEF Orderly, ChainInv
  <1> QED BY <1>1, <1>3, <1>4 DEF Behind

\* While MW works: the parts of the cycle, the end of the program, the destinations.
LEMMA ExecutingTurn ==
  ASSUME Orderly, NEW m, Executing(m)
  PROVE  TurnInv' /\ HaltInv' /\ ReadyInv'
  <1>1. /\ MW' = m /\ m.op = MW.op /\ m.dest = MW.dest /\ (KillsLate(m) <=> KillsLate(MW))
        /\ turn = "MW" /\ turn' = "EX" /\ ~ Applied /\ (Applied' <=> ~ stalled')
        /\ UNCHANGED <<disableIF, arch>> /\ MW.op # "halt"
        /\ (stalled => stalled') /\ (halt => halt') /\ stalled' \in BOOLEAN
        /\ (halt' => halt \/ (KillsLate(MW) /\ MW.op = "ret" /\ MW.dest.base = 0
                             /\ stalled' = stalled))
        /\ (KillsLate(MW) /\ MW.op = "ret" /\ MW.dest.base = 0 => halt')
    BY ExecutingStages DEF Executing
  <1>2. TurnInv'
    BY <1>1 DEF Orderly, TurnInv
  <1>3. ReadyInv'
    BY <1>1 DEF Orderly, ReadyInv
  <1>4. KillsLate(MW) /\ MW.dest.base = 0 => MW.op = "ret"
    <2>1. SUFFICES ASSUME KillsLate(MW), MW.op # "ret" PROVE MW.dest.base # 0
      OBVIOUS
    <2>2. MW.op \in {"brcf", "call", "callr", "xret", "trap", "intr"}
      BY <2>1 DEF KillsLate, Late, CacheFlows
    <2>3. CASE MW.op \in {"brcf", "call", "callr"}
      BY <2>3, RealForms DEF Orderly, ChainInv, Real
    <2>4. CASE MW.op = "xret"
      BY <2>4 DEF Orderly, ReadyInv, ChainInv, Fits, ArchOK
    <2>5. CASE MW.op \in {"trap", "intr"}
      BY <2>5, Constants DEF Orderly, ReadyInv, Place
    <2> QED BY <2>2, <2>3, <2>4, <2>5
  <1>5. (\E s \in Stages : pipe'[s].op = "halt") => halt
    <2>1. (\E s \in Stages : pipe'[s].op = "halt") => StageIs("halt")'
      BY DEF StageIs, Stages, MW, EX, DR, Fetched
    <2>2. StageIs("halt") => \E s \in Stages : pipe[s].op = "halt"
      BY EveryStage DEF StageIs
    <2>3. StageIs("halt")' => StageIs("halt")
      BY ExecutingStages
    <2> HIDE DEF Stages
    <2> QED BY <2>1, <2>2, <2>3 DEF Orderly, HaltInv
  <1>6. HaltInv'
    <2> HIDE DEF Stages
    <2>1. halt' /\ ~ Applied' => ~ disableIF
      BY <1>1 DEF Orderly, TurnInv, HaltInv
    <2>2. arch.halted => halt /\ ~ disableIF
      BY DEF Orderly, HaltInv
    <2>3. halt => arch.halted \/ (KillsLate(MW) /\ MW.op = "ret" /\ MW.dest.base = 0)
      BY DEF Orderly, HaltInv
    <2> QED BY <1>1, <1>4, <1>5, <2>1, <2>2, <2>3 DEF HaltInv
  <1> QED BY <1>2, <1>3, <1>6

\* While MW works: the flush, the addresses that are kept, the counters.
LEMMA ExecutingFlush ==
  ASSUME Orderly, NEW m, Executing(m)
  PROVE  FlushInv' /\ AddrInv' /\ DelayInv'
  <1>1. /\ MW' = m /\ m.op = MW.op /\ m.addr = MW.addr /\ (KillsLate(m) <=> KillsLate(MW))
        /\ m.delayed = MW.delayed /\ (Late(m) <=> Late(MW))
        /\ turn = "MW" /\ turn' = "EX" /\ ~ Applied /\ (Applied' <=> ~ stalled')
        /\ (LiveEX' <=> LiveEX)
        /\ UNCHANGED <<disableIF, delay, handling, pc>> /\ (halt => halt') /\ Behind
        /\ (KillsLate(MW) => Doomed(EX) /\ Doomed(DR) /\ Doomed(Fetched))
        /\ (KillsLate(MW) /\ (~ stalled' \/ MW.op \notin {"callr", "trap"})
             => None(EX') /\ None(DR') /\ None(Fetched'))
        /\ (Saves(MW) /\ (stalled' \/ MW.op = "call") => EX'.addr = EX.addr)
    BY ExecutingStages DEF Executing
  <1>2. Saves(m) <=> Saves(MW)
    BY <1>1 DEF Saves
  <1>3. CASE EX' = EX /\ DR' = DR /\ Fetched' = Fetched
    <2>1. LiveDR' <=> LiveDR
      BY <1>1, <1>3 DEF LiveDR
    <2>2. FlushInv'
      BY <1>1, <1>3 DEF Orderly, FlushInv, None
    <2>3. AddrInv'
      BY <1>1, <1>2, <1>3, <2>1 DEF Orderly, AddrInv
    <2>4. DelayInv'
      BY <1>1, <1>3 DEF Orderly, DelayInv
    <2> QED BY <2>2, <2>3, <2>4
  <1>4. CASE KillsLate(MW) /\ None(EX') /\ None(DR') /\ None(Fetched')
    <2>1. FlushInv'
      BY <1>1, <1>4 DEF FlushInv, None
    <2>2. AddrInv'
      <3>1. ~ Saves(EX') /\ ~ Saves(DR')
        BY <1>4 DEF Saves, None
      <3> QED BY <1>1, <1>2, <3>1 DEF Orderly, AddrInv
    <2>3. DelayInv'
      <3>1. EX.op # "intr" /\ DR.op # "intr" /\ Fetched.op # "intr"
        BY <1>1, <1>4 DEF Doomed
      <3> QED BY <1>1, <1>4, <3>1 DEF Orderly, DelayInv, None, CacheFlows
    <2> QED BY <2>1, <2>2, <2>3
  <1> QED BY <1>1, <1>3, <1>4 DEF Behind

\* While MW works: nPC.
LEMMA ExecutingNextPC ==
  ASSUME Orderly, NEW m, Executing(m)
  PROVE  NextPCInv'
  <1>1. /\ MW' = m /\ m.dest = MW.dest /\ (Late(m) <=> Late(MW))
        /\ turn = "MW" /\ turn' = "EX" /\ ~ Applied /\ (Applied' <=> ~ stalled')
        /\ UNCHANGED <<disableIF>> /\ (halt => halt') /\ Behind /\ Dispatched
    BY ExecutingStages DEF Executing
  <1>2. CASE EX' = EX /\ DR' = DR /\ Fetched' = Fetched
    BY <1>1, <1>2 DEF Orderly, NextPCInv, Dispatched
  <1>3. CASE KillsLate(MW) /\ None(EX') /\ None(DR') /\ None(Fetched')
    BY <1>1, <1>3 DEF NextPCInv, Dispatched, None, Real
  <1> QED BY <1>1, <1>2, <1>3 DEF Behind

\* Behind a call with delay slots nPC is the address behind the third slot.
LEMMA BehindSlots ==
  ASSUME Orderly, turn = "MW", ~ stalled, ~ halt, Late(MW), IsCall(MW), MW.delayed
  PROVE  nPC = Ahead(Succ(MW.addr), 3)
  <1>1. /\ disableIF /\ ~ Applied
        /\ MW \in InStage /\ EX \in InStage /\ DR \in InStage /\ Fetched \in InStage
    BY StageTypes DEF Orderly, TurnInv, Applied
  <1>2. Taken(MW) /\ MW.op # "br" /\ LiveEX /\ Real(MW)
    BY DEF Taken, Flows, Late, IsCall, CacheFlows, LiveEX, KillsLate, Real
  <1>3. /\ AfterMW.slots = 3 /\ ArchOK(arch) /\ ArchOK(AfterMW) /\ ArchOK(AfterEX)
        /\ Fits(arch, MW) /\ Fits(AfterMW, EX) /\ arch.slots = 0 /\ ~ Kills(MW)
    BY <1>1, <1>2, ChainSlots, ChainOK, AfterSlots DEF Orderly, ChainInv, Kills
  <1>4. ASSUME NEW a, ArchOK(a), NEW i \in InStage, Fits(a, i), a.slots \in {1, 2, 3}
        PROVE  Real(i) /\ ~ Taken(i) /\ ~ Kills(i) /\ i.addr = a.next
    <2>1. a.slots # 0 /\ a.slots > 0 /\ ~ a.halted
      BY <1>4 DEF ArchOK
    <2>2. i.op \notin {"bubble", "halt", "intr"}
      BY <1>4, <2>1 DEF Fits, None
    <2>3. Real(i) /\ i.op \notin Transfers
      BY <1>4, <2>1, <2>2 DEF Fits, Real
    <2> QED BY <1>4, <2>2, <2>3 DEF Fits, Taken, Kills, Flows, CacheFlows, Transfers
  <1>5. AfterMW.next = Succ(MW.addr)
    BY <1>1, <1>2, <1>3, AfterNext DEF AfterMW
  <1>6. Real(EX) /\ ~ Taken(EX) /\ ~ Kills(EX) /\ EX.addr = AfterMW.next
    BY <1>1, <1>3, <1>4
  <1>7. AfterEX.slots = 2 /\ AfterEX.next = Succ(EX.addr) /\ LiveDR /\ Fits(AfterEX, DR)
    <2>1. AfterEX.slots = 2 /\ LiveDR
      BY <1>2, <1>3, <1>6, ChainSlots DEF Orderly, LiveDR
    <2>2. AfterEX.next = Succ(EX.addr)
      BY <1>1, <1>3, <1>6, AfterNext DEF AfterEX
    <2> QED BY <2>1, <2>2 DEF Orderly, ChainInv
  <1>8. Real(DR) /\ ~ Taken(DR) /\ ~ Kills(DR) /\ DR.addr = AfterEX.next
    BY <1>1, <1>2, <1>3, <1>4, <1>7
  <1>9. /\ AfterDR.slots = 1 /\ AfterDR.next = Succ(DR.addr) /\ LiveIF
        /\ Fits(AfterDR, Fetched) /\ ArchOK(AfterDR)
    <2>1. AfterDR.slots = 1 /\ LiveIF /\ ArchOK(AfterDR)
      BY <1>7, <1>8, ChainSlots, ChainOK DEF Orderly, LiveIF
    <2>2. AfterDR.next = Succ(DR.addr)
      BY <1>1, <1>2, <1>3, <1>7, <1>8, AfterNext DEF AfterDR
    <2> QED BY <1>1, <2>1, <2>2 DEF Orderly, ChainInv
  <1>10. Real(Fetched) /\ Fetched.addr = AfterDR.next
    BY <1>1, <1>4, <1>9
  <1>11. nPC = Succ(Fetched.addr)
    <2>1. ~ (EX.op = "br" /\ EX.guard)
      BY <1>6 DEF Taken, Flows
    <2> QED BY <1>1, <1>10, <2>1 DEF Orderly, NextPCInv
  <1> QED BY <1>5, <1>6, <1>7, <1>8, <1>9, <1>10, <1>11 DEF Ahead

\* What is in MW has not been passed by the end of the program.
LEMMA NotHalted ==
  ASSUME Orderly, MW.op \notin {"bubble", "halt", "ret"}
  PROVE  ~ halt /\ ~ arch.halted
  <1>1. ~ arch.halted
    BY DEF Orderly, ChainInv, Fits
  <1> QED BY <1>1 DEF Orderly, HaltInv

\* The addresses that a call and the entry of a handler keep.
LEMMA KeptAddress ==
  ASSUME Orderly, turn = "MW", ~ stalled, Late(MW), IsCall(MW) \/ EntersHandler(MW)
  PROVE  /\ base = arch.base
         /\ IsCall(MW) => ReturnPC = IF MW.delayed THEN Ahead(Succ(MW.addr), 3)
                                                   ELSE Succ(MW.addr)
         /\ MW.op = "trap" => EX.addr = Succ(MW.addr)
  <1>1. ~ halt /\ ~ Applied /\ MW \in InStage /\ ArchOK(arch) /\ Fits(arch, MW)
    BY NotHalted, StageTypes DEF Orderly, Applied, ChainInv, IsCall, EntersHandler
  <1>2. base = arch.base
    <2>1. base = EventualBase(arch)
      BY <1>1 DEF Orderly, RegsInv
    <2>2. arch.slots = 0
      <3>1. Taken(MW)
        BY DEF Taken, Late, Flows
      <3> QED BY <1>1, <3>1, AfterSlots
    <2> QED BY <2>1, <2>2 DEF EventualBase
  <1>3. MW.op = "trap" => EX.addr = Succ(MW.addr)
    <2>1. MW.op = "trap" => Saves(MW)
      BY <1>1 DEF Fits, Saves
    <2> QED BY <1>1, <2>1 DEF Orderly, AddrInv
  <1>4. CASE IsCall(MW) /\ ~ MW.delayed
    <2>1. Saves(MW)
      BY <1>4 DEF Saves, IsCall
    <2>2. EX.addr = Succ(MW.addr)
      BY <1>1, <2>1 DEF Orderly, AddrInv
    <2>3. ReturnPC = EX.addr
      BY <1>4 DEF ReturnPC, EX
    <2> QED BY <1>2, <1>3, <1>4, <2>2, <2>3
  <1>5. CASE IsCall(MW) /\ MW.delayed
    <2>1. nPC = Ahead(Succ(MW.addr), 3)
      BY <1>1, <1>5, BehindSlots
    <2> QED BY <1>2, <1>3, <1>5, <2>1 DEF ReturnPC
  <1> QED BY <1>2, <1>3, <1>4, <1>5

\* While MW works: BASE and the return registers.
LEMMA ExecutingRegs ==
  ASSUME Orderly, NEW m, Executing(m)
  PROVE  RegsInv'
  <1>1. /\ MW' = m /\ m.op = MW.op /\ (Late(m) <=> Late(MW)) /\ MW \in InStage
        /\ AfterMW' = AfterMW /\ arch' = arch /\ (halt => halt') /\ (stalled => stalled')
        /\ turn = "MW" /\ ~ Applied /\ (Applied' <=> ~ stalled') /\ Dispatched /\ Stored
        /\ ArchOK(arch) /\ Fits(arch, MW) /\ regs \in [link : Places, saved : Places]
    BY ExecutingStages, StageTypes DEF Executing, Orderly, ChainInv, TypeInv
  <1>2. ~ halt => base = EventualBase(arch)
    BY <1>1 DEF Orderly, RegsInv
  <1>3. EventualBase(AfterMW) = IF Late(MW) THEN MW.dest.base ELSE EventualBase(arch)
    BY <1>1, AfterBase, LateTarget DEF Orderly, AfterMW
  <1>4. ~ halt' => base' = EventualBase(IF Applied' THEN AfterMW ELSE arch)
    BY <1>1, <1>2, <1>3 DEF Dispatched
  <1>5. ~ (Late(MW) /\ IsCall(MW)) => regs'.link = EventualLink(arch)
    <2>1. ~ (Late(MW) /\ IsCall(MW)) => regs'.link = regs.link
      BY <1>1 DEF Stored
    <2> QED BY <2>1 DEF Orderly, RegsInv, IsCall
  <1>6. ~ stalled' => regs'.link = EventualLink(AfterMW)
    <2>1. CASE ~ stalled' /\ Late(MW) /\ IsCall(MW)
      <3>1. ~ stalled /\ regs'.link = Place(base, ReturnPC)
        BY <1>1, <2>1 DEF Stored
      <3>2. EventualLink(AfterMW) =
              Place(arch.base, IF MW.delayed THEN Ahead(Succ(MW.addr), 3)
                                             ELSE Succ(MW.addr))
        BY <1>1, <2>1, AfterLink DEF AfterMW
      <3> QED BY <1>1, <2>1, <3>1, <3>2, KeptAddress
    <2>2. CASE ~ (Late(MW) /\ IsCall(MW))
      <3>1. EventualLink(AfterMW) = EventualLink(arch)
        BY <1>1, <2>2, AfterLink DEF AfterMW
      <3> QED BY <1>5, <2>2, <3>1
    <2> QED BY <2>1, <2>2
  <1>7. ~ (Late(MW) /\ EntersHandler(MW)) => regs'.saved = arch.saved
    <2>1. ~ (Late(MW) /\ EntersHandler(MW)) => regs'.saved = regs.saved
      BY <1>1 DEF Stored
    <2> QED BY <2>1 DEF Orderly, RegsInv, EntersHandler
  <1>8. EntersHandler(MW) /\ MW.guard => Late(MW)
    BY DEF EntersHandler, Late, CacheFlows
  <1>9. ~ stalled' => regs'.saved = AfterMW.saved
    <2>1. CASE ~ stalled' /\ Late(MW) /\ EntersHandler(MW)
      <3>1. ~ IsCall(MW) /\ MW.guard
        BY <2>1 DEF EntersHandler, IsCall, Late
      <3>2. ~ stalled /\ regs'.saved = Place(base, IF MW.op = "intr" THEN MW.addr
                                                                     ELSE EX.addr)
        BY <1>1, <2>1, <3>1 DEF Stored
      <3>3. AfterMW.saved = Place(arch.base, IF MW.op = "intr" THEN MW.addr
                                                               ELSE Succ(MW.addr))
        BY <1>1, <2>1, <3>1, AfterSaved DEF AfterMW
      <3>4. MW.op # "intr" => MW.op = "trap"
        BY <2>1 DEF EntersHandler
      <3> QED BY <1>1, <2>1, <3>2, <3>3, <3>4, KeptAddress
    <2>2. CASE ~ (Late(MW) /\ EntersHandler(MW))
      <3>1. AfterMW.saved = arch.saved
        BY <1>1, <1>8, <2>2, AfterSaved DEF AfterMW
      <3> QED BY <1>7, <2>2, <3>1
    <2> QED BY <2>1, <2>2
  <1> QED BY <1>1, <1>4, <1>5, <1>6, <1>7, <1>9 DEF RegsInv, IsCall, EntersHandler

\* While MW works: Status and who is about to change it.
LEMMA ExecutingUnit ==
  ASSUME Orderly, NEW m, Executing(m)
  PROVE  UnitInv'
  <1>1. /\ MW' = m /\ m.op = MW.op /\ m.guard = MW.guard
        /\ AfterMW' = AfterMW /\ arch' = arch /\ program' = program
        /\ turn = "MW" /\ turn' = "EX" /\ (Applied' <=> ~ stalled')
        /\ (stalled => stalled') /\ Behind /\ Noted(m)
        /\ (MW.op = "sts" => m.done)
        /\ (~ stalled /\ MW.op = "xret" /\ MW.guard => m.done)
        /\ m \in InStage /\ MW \in InStage
    BY ExecutingStages, StageTypes DEF Executing, Orderly
  <1>2. /\ (\E s \in Stages : pipe[s].op = "intr") <=> StageIs("intr")
        /\ (\E s \in Stages : pipe'[s].op = "intr") <=> StageIs("intr")'
        /\ StageIs("intr") <=> StageIs("intr")'
    <2>1. (\E s \in Stages : pipe'[s].op = "intr") <=> StageIs("intr")'
      BY DEF StageIs, Stages, MW, EX, DR, Fetched
    <2>2. (\E s \in Stages : pipe[s].op = "intr") <=> StageIs("intr")
      BY EveryStage DEF StageIs
    <2> HIDE DEF Stages, StageIs
    <2> QED BY <2>1, <2>2, ExecutingStages
  <1>3. "sts" \notin program => unit'.mask = {} /\ \A s \in Stages : pipe'[s].op # "intr"
    BY <1>1, <1>2 DEF Noted, Orderly, UnitInv
  <1>4. ModesInUnit' = LET settled == IF MW.op \in {"sts", "xret"} /\ m.done
                                      THEN AfterMW.modes ELSE arch.modes
                       IN  IF StageIs("intr") THEN <<2>> \o settled ELSE settled
    BY <1>1, <1>2 DEF ModesInUnit
  <1>5. ModesInUnit = LET settled == IF MW.op \in {"sts", "xret"} /\ MW.done
                                     THEN AfterMW.modes ELSE arch.modes
                      IN  IF StageIs("intr") THEN <<2>> \o settled ELSE settled
    BY <1>2 DEF ModesInUnit
  <1>6. MW.op \in {"sts", "xret"} /\ ~ MW.done =>
          ~ StageIs("intr") /\ ~ Changes(EX) /\ ~ Changes(DR) /\ ~ Changes(Fetched)
    <2>1. MW.op \in {"sts", "xret"} => Changes(MW) /\ MW.op # "intr"
      BY DEF Changes, ModeChanges
    <2>2. /\ EX.op = "intr" => Changes(EX)
          /\ DR.op = "intr" => Changes(DR)
          /\ Fetched.op = "intr" => Changes(Fetched)
      BY DEF Changes, ModeChanges
    <2> QED BY <2>1, <2>2 DEF Orderly, UnitInv, StageIs
  <1>7. "trap" \notin program => unit'.status = Encoded(ModesInUnit')
    <2>1. CASE unit' = unit /\ (MW.op \in {"sts", "xret"} => (m.done <=> MW.done))
      <3>1. ModesInUnit' = ModesInUnit
        BY <1>4, <1>5, <2>1
      <3> QED BY <2>1, <3>1 DEF Orderly, UnitInv
    <2>2. CASE /\ MW.op \in {"sts", "xret"} /\ ~ MW.done /\ m.done
               /\ "trap" \notin program => unit'.status = Encoded(AfterMW.modes)
      BY <1>4, <1>6, <2>2
    <2> QED BY <1>1, <2>1, <2>2 DEF Noted
  <1>8. m.done \/ ~ MW.done \/ MW.op # "sts"
    BY <1>1
  <1>9. /\ EX' = EX \/ ~ Changes(EX')
        /\ DR' = DR \/ ~ Changes(DR')
        /\ Fetched' = Fetched \/ ~ Changes(Fetched')
    BY <1>1 DEF Behind, None, Changes, ModeChanges
  <1>10. Changes(m) <=> Changes(MW)
    BY <1>1 DEF Changes
  <1>11. \A s \in Stages \ {"MW"} : pipe'[s].op \in {"sts", "xret"} => ~ pipe'[s].done
    <2>1. \A s \in {"EX", "DR", "IF"} : pipe'[s] = pipe[s] \/ pipe'[s].op = "bubble"
      BY <1>1 DEF Behind, None, EX, DR, Fetched
    <2> QED BY <2>1 DEF Orderly, UnitInv, Stages
  <1> HIDE DEF Stages
  <1>12. /\ Changes(EX') => ~ Changes(MW') \/ (MW'.op = "sts" /\ MW'.done /\ EX'.op = "intr")
         /\ Changes(DR') => ~ Changes(MW') \/ (MW'.op = "sts" /\ MW'.done /\ DR'.op = "intr")
         /\ Changes(Fetched') => ~ Changes(MW') \/ (MW'.op = "sts" /\ MW'.done /\ Fetched'.op = "intr")
         /\ Changes(DR') => ~ Changes(EX')
         /\ Changes(Fetched') => ~ Changes(EX') /\ ~ Changes(DR')
    BY <1>1, <1>9, <1>10 DEF Orderly, UnitInv
  <1> QED BY <1>1, <1>3, <1>7, <1>11, <1>12 DEF UnitInv

\* What an instruction does in MW keeps the pipeline in order.
LEMMA ExecutingDone ==
  ASSUME Orderly, NEW m, Executing(m)
  PROVE  Orderly'
  BY ExecutingType, ExecutingChain, ExecutingTurn, ExecutingFlush, ExecutingNextPC,
     ExecutingRegs, ExecutingUnit DEF Orderly

-----------------------------------------------------------------------------
(* MW: what each instruction does there.                                    *)

Executes == MW_ /\ UNCHANGED program

\* What no instruction changes in MW.
LEMMA ExecutesFrame ==
  ASSUME Executes
  PROVE  /\ turn = "MW" /\ turn' = "EX"
         /\ UNCHANGED <<running, disableIF, delay, handling, arch, program>>
  BY DEF Executes, MW_, fetching

\* What MW leaves of the pipeline when it flushes.
LEMMA Discarding ==
  ASSUME TypeInv
  PROVE  LET thrown == Flushed("MW")
         IN  /\ thrown \in [Stages -> InStage]
             /\ thrown["MW"] = MW
             /\ \A s \in {"EX", "DR", "IF"} : thrown[s] = NoInstruction
  <1>1. NoInstruction \in InStage
    BY DEF NoInstruction, InStage, StageOps, Nowhere, Places
  <1> QED BY <1>1 DEF TypeInv, Flushed, Before, Stages, MW

\* The stages behind MW are thrown out; at is what EX keeps for a call.
LEMMA ThrownOut ==
  ASSUME TypeInv, NEW m \in InStage, NEW at \in Nat,
         pipe' = [Flushed("MW") EXCEPT !["MW"] = m, !["EX"].addr = at]
  PROVE  /\ pipe' \in [Stages -> InStage]
         /\ MW' = m /\ None(EX') /\ None(DR') /\ None(Fetched') /\ EX'.addr = at
  <1> DEFINE thrown == Flushed("MW")
             e == [NoInstruction EXCEPT !.addr = at]
  <1>1. /\ thrown \in [Stages -> InStage]
        /\ \A s \in {"EX", "DR", "IF"} : thrown[s] = NoInstruction
    BY Discarding
  <1>2. e \in InStage /\ e.op = "bubble" /\ e.addr = at /\ NoInstruction.op = "bubble"
    BY DEF NoInstruction, InStage, StageOps, Nowhere, Places
  <1>3. pipe' = [thrown EXCEPT !["MW"] = m, !["EX"] = e]
    BY <1>1
  <1> HIDE DEF thrown, e
  <1>4. /\ pipe' \in [Stages -> InStage]
        /\ pipe'["MW"] = m /\ pipe'["EX"] = e
        /\ pipe'["DR"] = NoInstruction /\ pipe'["IF"] = NoInstruction
    BY <1>1, <1>2, <1>3 DEF Stages
  <1> QED BY <1>2, <1>4 DEF MW, EX, DR, Fetched, None

\* The stages behind MW stay.
LEMMA StaysBehind ==
  ASSUME TypeInv, NEW m \in InStage, pipe' = [pipe EXCEPT !["MW"] = m]
  PROVE  /\ pipe' \in [Stages -> InStage] /\ MW' = m
         /\ EX' = EX /\ DR' = DR /\ Fetched' = Fetched
  BY WorkedOn

\* The method cache answers, and nPC and BASE follow.
LEMMA Dispatching ==
  ASSUME TypeInv, NEW loaded \in BOOLEAN, FetchAndDispatch(loaded), MW.op \in CacheFlows
  PROVE  /\ stalled' \in BOOLEAN /\ (stalled => stalled')
         /\ nPC' \in Nat /\ base' \in Nat /\ Dispatched
  <1>1. MW \in InStage /\ stalled \in BOOLEAN /\ nPC \in Nat /\ base \in Nat
    BY StageTypes DEF TypeInv
  <1>2. MW.dest.base \in Nat /\ MW.dest.pc \in Nat /\ MW.guard \in BOOLEAN
    BY <1>1 DEF InStage, Places
  <1>3. Late(MW) <=> MW.guard
    BY DEF Late
  <1> QED BY <1>1, <1>2, <1>3 DEF FetchAndDispatch, Dispatched

\* A call or the entry of a handler keeps its return address.
LEMMA Storing ==
  ASSUME TypeInv, MW.op \in CacheFlows, NEW register, NEW from \in Nat,
         StoreReturnAddress(register, from),
         \/ IsCall(MW) /\ register = "link" /\ from = ReturnPC
         \/ EntersHandler(MW) /\ register = "saved"
              /\ from = IF MW.op = "intr" THEN MW.addr ELSE EX.addr
  PROVE  Stored /\ regs' \in [link : Places, saved : Places]
  <1>1. regs \in [link : Places, saved : Places] /\ base \in Nat
    BY DEF TypeInv
  <1>2. Late(MW) <=> MW.guard
    BY DEF Late
  <1>3. Place(base, from) \in Places
    BY <1>1 DEF Place, Places
  <1>4. CASE IsCall(MW) /\ register = "link" /\ from = ReturnPC
    BY <1>1, <1>2, <1>3, <1>4 DEF StoreReturnAddress, Stored
  <1>5. CASE EntersHandler(MW) /\ register = "saved"
               /\ from = IF MW.op = "intr" THEN MW.addr ELSE EX.addr
    <2>1. ~ IsCall(MW)
      BY <1>5 DEF EntersHandler, IsCall
    <2> QED BY <1>1, <1>2, <1>3, <1>5, <2>1 DEF StoreReturnAddress, Stored
  <1> QED BY <1>4, <1>5

\* The address behind a call.
LEMMA ReturnPCType ==
  ASSUME TypeInv
  PROVE  ReturnPC \in Nat /\ EX.addr \in Nat /\ MW.addr \in Nat
  <1>1. EX.addr \in Nat /\ MW.addr \in Nat /\ nPC \in Nat
    BY StageTypes DEF TypeInv, InStage
  <1> QED BY <1>1 DEF ReturnPC, EX

\* What changes the modes has not changed Status before it has been in MW.
LEMMA UnchangedModes ==
  ASSUME Orderly, MW.op \in {"sts", "xret"}, ~ MW.done, "trap" \notin program
  PROVE  unit.status = Encoded(arch.modes)
  <1>1. Changes(MW) /\ MW.op # "intr"
    BY DEF Changes, ModeChanges
  <1>2. ~ Changes(EX) /\ ~ Changes(DR) /\ ~ Changes(Fetched)
    BY <1>1 DEF Orderly, UnitInv
  <1>3. ~ \E s \in Stages : pipe[s].op = "intr"
    BY <1>1, <1>2, EveryStage DEF Changes, ModeChanges
  <1>4. ModesInUnit = arch.modes
    BY <1>3 DEF ModesInUnit
  <1> QED BY <1>4 DEF Orderly, UnitInv

\* No transfer but a return to 0 changes halt.
LEMMA FlowExecuted ==
  ASSUME Orderly, Executes, NEW m \in InStage, SameInstruction(MW, m), m.dest = MW.dest,
         NEW loaded \in BOOLEAN, MW.op \in CacheFlows, FetchAndDispatch(loaded),
         UNCHANGED <<pc, halt>>,
         \/ pipe' = [pipe EXCEPT !["MW"] = m]
              /\ (KillsLate(MW) => stalled' /\ MW.op \in {"callr", "trap"})
         \/ KillsLate(MW)
              /\ (Saves(MW) /\ (stalled' \/ MW.op = "call") => MW.op = "call")
              /\ \E at \in Nat :
                   /\ MW.op = "call" => at = EX.addr
                   /\ pipe' = [Flushed("MW") EXCEPT !["MW"] = m, !["EX"].addr = at],
         Stored, regs' \in [link : Places, saved : Places], Noted(m),
         MW.op = "ret" /\ KillsLate(MW) => MW.dest.base # 0,
         ~ stalled /\ MW.op = "xret" /\ MW.guard => m.done
  PROVE  Executing(m)
  <1>1. /\ stalled' \in BOOLEAN /\ (stalled => stalled')
        /\ nPC' \in Nat /\ base' \in Nat /\ Dispatched /\ halt' \in BOOLEAN
    BY Dispatching DEF Orderly, TypeInv
  <1>2. MW.op # "halt" /\ MW.op # "sts"
    BY DEF CacheFlows
  <1>3. CASE pipe' = [pipe EXCEPT !["MW"] = m]
               /\ (KillsLate(MW) => stalled' /\ MW.op \in {"callr", "trap"})
    <2>1. /\ pipe' \in [Stages -> InStage] /\ MW' = m
          /\ EX' = EX /\ DR' = DR /\ Fetched' = Fetched
      BY <1>3, StaysBehind DEF Orderly
    <2> QED BY <1>1, <1>2, <1>3, <2>1, ExecutesFrame DEF Executing, Behind
  <1>4. CASE KillsLate(MW)
               /\ (Saves(MW) /\ (stalled' \/ MW.op = "call") => MW.op = "call")
               /\ \E at \in Nat :
                    /\ MW.op = "call" => at = EX.addr
                    /\ pipe' = [Flushed("MW") EXCEPT !["MW"] = m, !["EX"].addr = at]
    <2>1. PICK at \in Nat :
            /\ MW.op = "call" => at = EX.addr
            /\ pipe' = [Flushed("MW") EXCEPT !["MW"] = m, !["EX"].addr = at]
      BY <1>4
    <2>2. /\ pipe' \in [Stages -> InStage]
          /\ MW' = m /\ None(EX') /\ None(DR') /\ None(Fetched') /\ EX'.addr = at
      BY <2>1, ThrownOut DEF Orderly
    <2> QED BY <1>1, <1>2, <1>4, <2>1, <2>2, ExecutesFrame DEF Executing, Behind
  <1> QED BY <1>3, <1>4

\* A flush of the stages behind an instruction that stays as it is.
LEMMA PlainFlush ==
  ASSUME TypeInv
  PROVE  /\ pipe = [pipe EXCEPT !["MW"] = MW]
         /\ \E at \in Nat :
              Flushed("MW") = [Flushed("MW") EXCEPT !["MW"] = MW, !["EX"].addr = at]
         /\ \A at \in Nat :
              [Flushed("MW") EXCEPT !["EX"].addr = at]
                = [Flushed("MW") EXCEPT !["MW"] = MW, !["EX"].addr = at]
  <1>1. pipe = [pipe EXCEPT !["MW"] = MW]
    BY DEF TypeInv, MW
  <1> DEFINE thrown == Flushed("MW")
  <1>2. /\ thrown \in [Stages -> InStage] /\ thrown["MW"] = MW
        /\ thrown["EX"] = NoInstruction
    BY Discarding
  <1>3. 0 \in Nat /\ NoInstruction = [NoInstruction EXCEPT !.addr = 0]
    <2>1. NoInstruction \in InStage /\ NoInstruction.addr = 0
      BY DEF NoInstruction, InStage, StageOps, Nowhere, Places
    <2> QED BY <2>1 DEF InStage
  <1> HIDE DEF thrown
  <1>4. thrown = [thrown EXCEPT !["MW"] = MW, !["EX"].addr = 0]
    BY <1>2, <1>3
  <1>5. \A at \in Nat :
          [thrown EXCEPT !["EX"].addr = at] = [thrown EXCEPT !["MW"] = MW, !["EX"].addr = at]
    BY <1>2 DEF Stages
  <1> QED BY <1>1, <1>3, <1>4, <1>5 DEF thrown

\* call in MW.
LEMMA CallStep ==
  ASSUME Orderly, Executes, NEW loaded \in BOOLEAN, CallMW(loaded)
  PROVE  Executing(MW)
  <1>1. /\ TypeInv /\ MW \in InStage /\ SameInstruction(MW, MW) /\ MW.op = "call"
        /\ ReturnPC \in Nat
    BY StageTypes, ReturnPCType DEF Orderly, SameInstruction, CallMW
  <1>2. /\ StoreReturnAddress("link", ReturnPC) /\ FetchAndDispatch(loaded)
        /\ UNCHANGED <<pc, halt, unit>>
        /\ pipe' = IF MW.guard /\ ~ MW.delayed
                   THEN [Flushed("MW") EXCEPT !["EX"].addr = ReturnPC] ELSE pipe
    BY DEF CallMW
  <1>3. Noted(MW) /\ MW.op \in CacheFlows /\ IsCall(MW)
    BY <1>1, <1>2 DEF Noted, CacheFlows, IsCall
  <1>4. Stored /\ regs' \in [link : Places, saved : Places]
    BY <1>1, <1>2, <1>3, Storing
  <1>5. KillsLate(MW) <=> MW.guard /\ ~ MW.delayed
    BY <1>3 DEF KillsLate, Late
  <1>6. CASE KillsLate(MW)
    <2>1. ReturnPC = EX.addr
      BY <1>5, <1>6 DEF ReturnPC, EX
    <2>2. pipe' = [Flushed("MW") EXCEPT !["MW"] = MW, !["EX"].addr = ReturnPC]
      BY <1>1, <1>2, <1>5, <1>6, PlainFlush
    <2> QED BY <1>1, <1>2, <1>3, <1>4, <1>6, <2>1, <2>2, FlowExecuted
  <1>7. CASE ~ KillsLate(MW)
    <2>1. pipe' = [pipe EXCEPT !["MW"] = MW]
      BY <1>1, <1>2, <1>5, <1>7, PlainFlush
    <2> QED BY <1>1, <1>2, <1>3, <1>4, <1>7, <2>1, FlowExecuted
  <1> QED BY <1>6, <1>7

\* callr in MW.
LEMMA CallRegisterStep ==
  ASSUME Orderly, Executes, NEW loaded \in BOOLEAN, CallRegisterMW(loaded)
  PROVE  Executing(MW)
  <1>1. /\ TypeInv /\ MW \in InStage /\ SameInstruction(MW, MW) /\ MW.op = "callr"
        /\ ReturnPC \in Nat
    BY StageTypes, ReturnPCType DEF Orderly, SameInstruction, CallRegisterMW
  <1>2. /\ StoreReturnAddress("link", ReturnPC) /\ FetchAndDispatch(loaded)
        /\ UNCHANGED <<pc, halt, unit>>
        /\ pipe' = IF MW.guard /\ ~ MW.delayed /\ ~ stalled' THEN Flushed("MW") ELSE pipe
    BY DEF CallRegisterMW
  <1>3. Noted(MW) /\ MW.op \in CacheFlows /\ IsCall(MW)
    BY <1>1, <1>2 DEF Noted, CacheFlows, IsCall
  <1>4. Stored /\ regs' \in [link : Places, saved : Places]
    BY <1>1, <1>2, <1>3, Storing
  <1>5. KillsLate(MW) <=> MW.guard /\ ~ MW.delayed
    BY <1>3 DEF KillsLate, Late
  <1>6. stalled' \in BOOLEAN
    BY <1>1, <1>2, <1>3, Dispatching
  <1>7. CASE KillsLate(MW) /\ ~ stalled'
    <2>1. \E at \in Nat : pipe' = [Flushed("MW") EXCEPT !["MW"] = MW, !["EX"].addr = at]
      BY <1>1, <1>2, <1>5, <1>7, PlainFlush
    <2> QED BY <1>1, <1>2, <1>3, <1>4, <1>7, <2>1, FlowExecuted
  <1>8. CASE ~ (KillsLate(MW) /\ ~ stalled')
    <2>1. pipe' = [pipe EXCEPT !["MW"] = MW]
      BY <1>1, <1>2, <1>5, <1>8, PlainFlush
    <2> QED BY <1>1, <1>2, <1>3, <1>4, <1>6, <1>8, <2>1, FlowExecuted
  <1> QED BY <1>7, <1>8

\* trap and intr in MW.
LEMMA HandlerStep ==
  ASSUME Orderly, Executes, NEW loaded \in BOOLEAN, TrapMW(loaded) \/ InterruptMW(loaded)
  PROVE  Executing(MW)
  <1> DEFINE from == IF MW.op = "intr" THEN MW.addr ELSE EX.addr
  <1>1. /\ TypeInv /\ MW \in InStage /\ SameInstruction(MW, MW) /\ EntersHandler(MW)
        /\ from \in Nat /\ EnterHandler(from, loaded)
    BY StageTypes, ReturnPCType
    DEF Orderly, SameInstruction, TrapMW, InterruptMW, EntersHandler, EX
  <1> HIDE DEF from
  <1>2. /\ StoreReturnAddress("saved", from) /\ FetchAndDispatch(loaded)
        /\ UNCHANGED <<pc, halt, unit>>
        /\ pipe' = IF MW.guard /\ ~ stalled' THEN Flushed("MW") ELSE pipe
    BY <1>1 DEF EnterHandler
  <1>3. Noted(MW) /\ MW.op \in CacheFlows
    BY <1>1, <1>2 DEF Noted, CacheFlows, EntersHandler
  <1>4. Stored /\ regs' \in [link : Places, saved : Places]
    BY <1>1, <1>2, <1>3, Storing DEF from
  <1>5. KillsLate(MW) <=> MW.guard
    BY <1>1, <1>3 DEF KillsLate, Late, Orderly, ChainInv, Fits, EntersHandler
  <1>6. stalled' \in BOOLEAN
    BY <1>1, <1>2, <1>3, Dispatching
  <1>7. MW.op = "intr" => None(EX) /\ None(DR) /\ None(Fetched)
    BY DEF Orderly, FlushInv
  <1>8. ~ (MW.op = "ret" /\ KillsLate(MW)) /\ MW.op # "xret" /\ MW.op # "call"
    BY <1>1 DEF EntersHandler
  <1>9. CASE KillsLate(MW) /\ ~ stalled'
    <2>1. \E at \in Nat : pipe' = [Flushed("MW") EXCEPT !["MW"] = MW, !["EX"].addr = at]
      BY <1>1, <1>2, <1>5, <1>9, PlainFlush
    <2> QED BY <1>1, <1>2, <1>3, <1>4, <1>8, <1>9, <2>1, FlowExecuted
  <1>10. CASE ~ (KillsLate(MW) /\ ~ stalled')
    <2>1. pipe' = [pipe EXCEPT !["MW"] = MW]
      BY <1>1, <1>2, <1>5, <1>10, PlainFlush
    <2>2. CASE MW.op = "trap" \/ ~ KillsLate(MW)
      BY <1>1, <1>2, <1>3, <1>4, <1>6, <1>8, <1>10, <2>1, <2>2, FlowExecuted
    <2>3. CASE MW.op = "intr" /\ KillsLate(MW)
      <3>1. /\ pipe' \in [Stages -> InStage] /\ MW' = MW
            /\ EX' = EX /\ DR' = DR /\ Fetched' = Fetched
        BY <1>1, <2>1, StaysBehind
      <3>2. /\ None(EX') /\ None(DR') /\ None(Fetched')
            /\ halt' \in BOOLEAN
        BY <1>1, <1>2, <1>7, <2>3, <3>1 DEF TypeInv
      <3>3. /\ stalled' \in BOOLEAN /\ (stalled => stalled')
            /\ nPC' \in Nat /\ base' \in Nat /\ Dispatched
        BY <1>1, <1>2, <1>3, Dispatching
      <3> QED BY <1>1, <1>2, <1>3, <1>4, <1>8, <2>3, <3>1, <3>2, <3>3, ExecutesFrame
              DEF Executing, Behind
    <2> QED BY <1>1, <2>2, <2>3 DEF EntersHandler
  <1> QED BY <1>9, <1>10

\* brcf in MW: base 0 is not among its destinations.
LEMMA BranchCacheStep ==
  ASSUME Orderly, Executes, NEW loaded \in BOOLEAN, BranchCacheMW(loaded)
  PROVE  Executing(MW)
  <1>1. TypeInv /\ MW \in InStage /\ SameInstruction(MW, MW) /\ MW.op = "brcf"
    BY StageTypes DEF Orderly, SameInstruction, BranchCacheMW
  <1>2. MW.dest.base # 0
    BY <1>1, RealForms DEF Orderly, ChainInv, Real
  <1>3. /\ FetchAndDispatch(loaded) /\ UNCHANGED <<pc, halt, regs, unit>>
        /\ pipe' = IF MW.guard /\ ~ MW.delayed THEN Flushed("MW") ELSE pipe
    BY <1>2 DEF BranchCacheMW
  <1>4. Noted(MW) /\ MW.op \in CacheFlows
    BY <1>1, <1>3 DEF Noted, CacheFlows
  <1>5. Stored /\ regs' \in [link : Places, saved : Places]
    BY <1>1, <1>3 DEF Stored, TypeInv, IsCall, EntersHandler
  <1>6. KillsLate(MW) <=> MW.guard /\ ~ MW.delayed
    BY <1>4 DEF KillsLate, Late
  <1>7. ~ Saves(MW)
    BY <1>1 DEF Saves
  <1>8. CASE KillsLate(MW)
    <2>1. \E at \in Nat : pipe' = [Flushed("MW") EXCEPT !["MW"] = MW, !["EX"].addr = at]
      BY <1>1, <1>3, <1>6, <1>8, PlainFlush
    <2> QED BY <1>1, <1>3, <1>4, <1>5, <1>7, <1>8, <2>1, FlowExecuted
  <1>9. CASE ~ KillsLate(MW)
    <2>1. pipe' = [pipe EXCEPT !["MW"] = MW]
      BY <1>1, <1>3, <1>6, <1>9, PlainFlush
    <2> QED BY <1>1, <1>3, <1>4, <1>5, <1>9, <2>1, FlowExecuted
  <1> QED BY <1>8, <1>9

\* ret in MW, to a caller or to the end of the program.
LEMMA ReturnStep ==
  ASSUME Orderly, Executes, NEW loaded \in BOOLEAN, ReturnMW(loaded)
  PROVE  Executing(MW)
  <1>1. /\ TypeInv /\ MW \in InStage /\ SameInstruction(MW, MW) /\ MW.op = "ret"
        /\ MW.dest = arch.link /\ Fits(arch, MW) /\ ArchOK(arch)
    BY StageTypes DEF Orderly, SameInstruction, ReturnMW, ReadyInv, ChainInv
  <1>2. MW.delayed => MW.dest.base # 0
    BY <1>1 DEF Fits, ArchOK
  <1>3. UNCHANGED <<pc, regs, unit>>
    BY DEF ReturnMW
  <1>4. Noted(MW) /\ MW.op \in CacheFlows
    BY <1>1, <1>3 DEF Noted, CacheFlows
  <1>5. Stored /\ regs' \in [link : Places, saved : Places]
    BY <1>1, <1>3 DEF Stored, TypeInv, IsCall, EntersHandler
  <1>6. KillsLate(MW) <=> MW.guard /\ ~ MW.delayed
    BY <1>4 DEF KillsLate, Late
  <1>7. ~ Saves(MW)
    BY <1>1 DEF Saves
  <1>8. CASE MW.guard /\ MW.dest.base = 0
    <2>1. halt' = TRUE /\ pipe' = Flushed("MW") /\ UNCHANGED <<stalled, base, nPC>>
      BY <1>1, <1>8 DEF ReturnMW
    <2>2. PICK at \in Nat : pipe' = [Flushed("MW") EXCEPT !["MW"] = MW, !["EX"].addr = at]
      BY <1>1, <2>1, PlainFlush
    <2>3. /\ pipe' \in [Stages -> InStage]
          /\ MW' = MW /\ None(EX') /\ None(DR') /\ None(Fetched')
      BY <1>1, <2>2, ThrownOut
    <2>4. stalled' \in BOOLEAN /\ nPC' \in Nat /\ base' \in Nat /\ halt' \in BOOLEAN
      BY <1>1, <2>1 DEF TypeInv
    <2>5. KillsLate(MW)
      BY <1>2, <1>6, <1>8
    <2> QED BY <1>1, <1>3, <1>4, <1>5, <1>7, <1>8, <2>1, <2>3, <2>4, <2>5, ExecutesFrame
            DEF Executing, Behind, Dispatched
  <1>9. CASE ~ (MW.guard /\ MW.dest.base = 0)
    <2>1. /\ FetchAndDispatch(loaded) /\ UNCHANGED halt
          /\ pipe' = IF MW.guard /\ ~ MW.delayed THEN Flushed("MW") ELSE pipe
      BY <1>9 DEF ReturnMW
    <2>2. MW.op = "ret" /\ KillsLate(MW) => MW.dest.base # 0
      BY <1>6, <1>9
    <2>3. CASE KillsLate(MW)
      <3>1. \E at \in Nat : pipe' = [Flushed("MW") EXCEPT !["MW"] = MW, !["EX"].addr = at]
        BY <1>1, <2>1, <1>6, <2>3, PlainFlush
      <3> QED BY <1>1, <1>3, <1>4, <1>5, <1>7, <2>1, <2>2, <2>3, <3>1, FlowExecuted
    <2>4. CASE ~ KillsLate(MW)
      <3>1. pipe' = [pipe EXCEPT !["MW"] = MW]
        BY <1>1, <2>1, <1>6, <2>4, PlainFlush
      <3> QED BY <1>1, <1>3, <1>4, <1>5, <2>1, <2>2, <2>4, <3>1, FlowExecuted
    <2> QED BY <2>3, <2>4
  <1> QED BY <1>8, <1>9

\* xret in MW gives the mode back once.
LEMMA ExceptionReturnStep ==
  ASSUME Orderly, Executes, NEW loaded \in BOOLEAN, ExceptionReturnMW(loaded)
  PROVE  \E m : Executing(m)
  <1> DEFINE first == MW.guard /\ ~ MW.done /\ ~ stalled
             m == [MW EXCEPT !.done = MW.done \/ first]
             thrown == Flushed("MW")
  <1>1. /\ TypeInv /\ MW \in InStage /\ MW.op = "xret" /\ Fits(arch, MW) /\ ArchOK(arch)
        /\ stalled \in BOOLEAN
    BY StageTypes DEF Orderly, ExceptionReturnMW, ChainInv, TypeInv
  <1>2. /\ m \in InStage /\ SameInstruction(MW, m) /\ m.dest = MW.dest
        /\ m.done <=> MW.done \/ first
    BY <1>1 DEF InStage, SameInstruction
  <1>3. /\ FetchAndDispatch(loaded) /\ UNCHANGED <<pc, halt, regs>>
        /\ unit' = IF first THEN Unit!Resumed(unit) ELSE unit
        /\ pipe' = [IF MW.guard /\ ~ MW.delayed THEN thrown ELSE pipe
                      EXCEPT !["MW"].done = @ \/ first]
    BY DEF ExceptionReturnMW
  <1>4. MW.op \in CacheFlows
    BY <1>1 DEF CacheFlows
  <1>5. KillsLate(MW) <=> MW.guard /\ ~ MW.delayed
    BY <1>4 DEF KillsLate, Late
  <1>6. pipe' = [IF MW.guard /\ ~ MW.delayed THEN thrown ELSE pipe EXCEPT !["MW"] = m]
    <2>1. thrown["MW"] = MW /\ pipe["MW"] = MW
      BY <1>1, Discarding DEF MW
    <2> HIDE DEF thrown, first
    <2> QED BY <1>3, <2>1
  <1>7. Noted(m)
    <2>1. CASE first
      <3>1. ~ MW.done /\ m.done /\ MW.guard
        BY <1>2, <2>1
      <3>2. unit' = [unit EXCEPT !.status = unit.status \div 4] /\ unit \in UnitType
        BY <1>1, <1>3, <2>1 DEF Unit!Resumed, TypeInv
      <3>3. unit' \in UnitType /\ unit'.mask = unit.mask /\ unit'.status = unit.status \div 4
        <4>1. unit.status \div 4 \in Nat
          BY <3>2 DEF UnitType
        <4> QED BY <3>2, <4>1 DEF UnitType
      <3>4. AfterMW.modes = Tail(arch.modes)
        BY <1>1, <3>1, AfterModes DEF AfterMW
      <3>5. "trap" \notin program => unit'.status = Encoded(AfterMW.modes)
        <4>1. "trap" \notin program => unit.status = Encoded(arch.modes)
          BY <1>1, <3>1, UnchangedModes
        <4>2. /\ Encoded(arch.modes) = arch.modes[1] + (4 * Encoded(Tail(arch.modes)))
              /\ arch.modes[1] \in 0 .. 3 /\ Encoded(Tail(arch.modes)) \in Nat
          BY <1>1, ModesOK, EncodedSplit
        <4>3. Encoded(arch.modes) \div 4 = Encoded(Tail(arch.modes))
          BY <4>2
        <4> QED BY <3>3, <3>4, <4>1, <4>3
      <3> QED BY <1>1, <3>1, <3>3, <3>5 DEF Noted
    <2>2. CASE ~ first
      <3>1. m.done <=> MW.done
        BY <1>2, <2>2
      <3> QED BY <1>3, <2>2, <3>1 DEF Noted
    <2> QED BY <2>1, <2>2
  <1>8. ~ stalled /\ MW.op = "xret" /\ MW.guard => m.done
    BY <1>1, <1>2
  <1> HIDE DEF m, first
  <1>9. Stored /\ regs' \in [link : Places, saved : Places]
    BY <1>1, <1>3 DEF Stored, TypeInv, IsCall, EntersHandler
  <1>10. ~ Saves(MW) /\ MW.op # "ret" /\ MW.op # "call"
    BY <1>1 DEF Saves
  <1>11. CASE KillsLate(MW)
    <2>1. pipe' = [thrown EXCEPT !["MW"] = m]
      BY <1>5, <1>6, <1>11
    <2>2. \E at \in Nat : pipe' = [Flushed("MW") EXCEPT !["MW"] = m, !["EX"].addr = at]
      <3>1. /\ thrown \in [Stages -> InStage] /\ thrown["EX"] = NoInstruction
        BY <1>1, Discarding
      <3>2. NoInstruction \in InStage /\ NoInstruction.addr = 0
        BY DEF NoInstruction, InStage, StageOps, Nowhere, Places
      <3>3. NoInstruction = [NoInstruction EXCEPT !.addr = 0]
        BY <3>2 DEF InStage
      <3> HIDE DEF thrown
      <3>4. [thrown EXCEPT !["MW"] = m] = [thrown EXCEPT !["MW"] = m, !["EX"].addr = 0]
        BY <3>1, <3>3 DEF Stages
      <3> QED BY <2>1, <3>4 DEF thrown
    <2> QED BY <1>2, <1>3, <1>4, <1>7, <1>8, <1>9, <1>10, <1>11, <2>2, FlowExecuted
  <1>12. CASE ~ KillsLate(MW)
    <2>1. pipe' = [pipe EXCEPT !["MW"] = m]
      BY <1>5, <1>6, <1>12
    <2> QED BY <1>2, <1>3, <1>4, <1>7, <1>8, <1>9, <1>10, <1>12, <2>1, FlowExecuted
  <1> QED BY <1>11, <1>12

\* Loads and stores in MW; one to Status changes it once.
LEMMA AccessStep ==
  ASSUME Orderly, Sound, Executes, NEW answer \in BOOLEAN, AccessMW(answer)
  PROVE  \E m : Executing(m)
  <1> DEFINE now == MW.done \/ MW.op = "sts" \/ answer
             m == [MW EXCEPT !.done = now]
  <1>1. /\ TypeInv /\ MW \in InStage /\ MW.op \in {"mem", "sts"}
        /\ Fits(arch, MW) /\ ArchOK(arch)
    BY StageTypes DEF Orderly, AccessMW, ChainInv
  <1>2. /\ stalled' = (stalled \/ (MW.op = "mem" /\ ~ MW.done /\ ~ answer))
        /\ unit' = IF MW.op = "sts" /\ ~ MW.done
                   THEN Unit!Written(unit, 0, 4 * (unit.status \div 4) + MW.dest.base)
                   ELSE unit
        /\ UNCHANGED <<pc, nPC, base, halt, regs>>
    BY DEF AccessMW
  <1>3. /\ m \in InStage /\ SameInstruction(MW, m) /\ m.dest = MW.dest
        /\ m.done <=> MW.done \/ MW.op = "sts" \/ answer
    BY <1>1 DEF InStage, SameInstruction
  <1>4. pipe' = [pipe EXCEPT !["MW"] = m]
    BY <1>1 DEF AccessMW, MW, TypeInv, Stages
  <1>5. Noted(m)
    <2>1. CASE MW.op = "sts" /\ ~ MW.done
      <3>1. "trap" \notin program /\ MW.op \in program
        BY <1>1, <2>1 DEF TypeInv, Real, Stages, MW, Sound
      <3>2. unit.status = Encoded(arch.modes)
        BY <1>1, <2>1, <3>1, UnchangedModes
      <3>3. /\ Encoded(arch.modes) = arch.modes[1] + (4 * Encoded(Tail(arch.modes)))
            /\ arch.modes[1] = 2 /\ Encoded(Tail(arch.modes)) \in Nat
            /\ \A v \in 0 .. 3 :
                 Encoded([arch.modes EXCEPT ![1] = v]) = v + (4 * Encoded(Tail(arch.modes)))
        BY <1>1, <2>1, ModesOK, EncodedSplit DEF Fits
      <3>4. MW.dest.base \in 0 .. 3
        BY <1>1, <2>1, RealForms DEF Real
      <3>5. /\ unit.status \div 4 = Encoded(Tail(arch.modes))
            /\ (unit.status \div 2) % 2 = 1
        BY <3>2, <3>3
      <3> DEFINE v == 4 * (unit.status \div 4) + MW.dest.base
      <3>6. v = Encoded(AfterMW.modes) /\ v \in Nat
        <4>1. AfterMW.modes = [arch.modes EXCEPT ![1] = MW.dest.base]
          BY <1>1, <2>1, AfterModes DEF AfterMW
        <4>2. v = MW.dest.base + (4 * Encoded(Tail(arch.modes))) /\ v \in Nat
          BY <3>3, <3>4, <3>5
        <4> QED BY <3>3, <3>4, <4>1, <4>2
      <3>7. unit' = Unit!Written(unit, 0, v)
        BY <1>2, <2>1
      <3> HIDE DEF v
      <3>8. unit' = [unit EXCEPT !.status = v]
        BY <3>5, <3>7 DEF Unit!Written, Unit!Privileged, Unit!VectorBase
      <3>9. unit' \in UnitType /\ unit'.mask = unit.mask /\ unit'.status = v
        BY <1>1, <3>6, <3>8 DEF TypeInv, UnitType
      <3> QED BY <1>3, <2>1, <3>6, <3>9 DEF Noted
    <2>2. CASE ~ (MW.op = "sts" /\ ~ MW.done)
      <3>1. MW.op \in {"sts", "xret"} => (m.done <=> MW.done)
        BY <1>1, <1>3, <2>2
      <3> QED BY <1>2, <2>2, <3>1 DEF Noted
    <2> QED BY <2>1, <2>2
  <1> HIDE DEF m, now
  <1>6. ~ Late(MW) /\ ~ KillsLate(MW) /\ ~ Saves(MW) /\ MW.op \notin {"halt", "ret", "xret"}
    BY <1>1 DEF Late, KillsLate, Saves, CacheFlows
  <1>7. /\ pipe' \in [Stages -> InStage] /\ MW' = m
        /\ EX' = EX /\ DR' = DR /\ Fetched' = Fetched
    BY <1>1, <1>3, <1>4, StaysBehind
  <1>8. /\ stalled' \in BOOLEAN /\ (stalled => stalled')
        /\ nPC' \in Nat /\ base' \in Nat /\ halt' \in BOOLEAN
        /\ regs' \in [link : Places, saved : Places]
    BY <1>1, <1>2 DEF TypeInv, InStage
  <1>9. Executing(m)
    BY <1>1, <1>2, <1>3, <1>5, <1>6, <1>7, <1>8, ExecutesFrame
    DEF Executing, Behind, Dispatched, Stored
  <1> QED BY <1>9

\* The others have nothing to do in MW.
LEMMA OtherMWStep ==
  ASSUME Orderly, Executes, OtherMW
  PROVE  Executing(MW)
  <1>1. /\ TypeInv /\ MW \in InStage /\ SameInstruction(MW, MW)
        /\ MW.op \in {"alu", "br", "bubble"}
        /\ UNCHANGED <<pipe, stalled, pc, nPC, base, halt, regs, unit>>
    BY StageTypes DEF Orderly, SameInstruction, OtherMW, control
  <1>2. ~ Late(MW) /\ ~ KillsLate(MW) /\ ~ Saves(MW)
        /\ MW.op \notin {"halt", "ret", "xret", "sts"}
    BY <1>1 DEF Late, KillsLate, Saves, CacheFlows
  <1>3. MW' = MW /\ EX' = EX /\ DR' = DR /\ Fetched' = Fetched
    BY <1>1 DEF MW, EX, DR, Fetched
  <1> QED BY <1>1, <1>2, <1>3, ExecutesFrame
          DEF Executing, Behind, Dispatched, Stored, Noted, TypeInv

\* Every cycle of MW that does not end the simulation.
LEMMA SomeExecuting ==
  ASSUME Orderly, Sound, Executes
  PROVE  \E m : Executing(m)
  BY CallStep, CallRegisterStep, HandlerStep, BranchCacheStep, ReturnStep,
     ExceptionReturnStep, AccessStep, OtherMWStep DEF Executes, MW_

\* Every cycle of MW keeps the pipeline in order.
LEMMA ExecuteStep ==
  ASSUME Orderly, Sound, Executes
  PROVE  Orderly'
  BY SomeExecuting, ExecutingDone

-----------------------------------------------------------------------------
(* The end of the cycle, and the invariant.                                 *)

\* The end of a cycle without a stall.
LEMMA MoveStep ==
  ASSUME Orderly, Moves
  PROVE  Orderly'
  BY MoveType, MoveChain, MoveTurn, MoveAddr, MoveDelay, MoveHalt, MoveReady, MoveRegs,
     MoveUnit DEF Orderly

Stays == DR_ /\ stalled /\ UNCHANGED program

\* The end of a cycle with a stall.
LEMMA StayStep ==
  ASSUME Orderly, Stays
  PROVE  Orderly'
  <1>1. /\ turn = "DR" /\ turn' = "IF" /\ stalled = TRUE /\ stalled' = FALSE
        /\ UNCHANGED <<pipe, pc, disableIF, arch, program>>
        /\ UNCHANGED <<nPC, base, delay, handling, halt, running, regs>>
    BY DEF Stays, DR_, Stay, Orderly, TypeInv
  <1>2. MW' = MW /\ EX' = EX /\ DR' = DR /\ Fetched' = Fetched
    BY <1>1 DEF MW, EX, DR, Fetched
  <1>3. /\ AfterMW' = AfterMW /\ AfterEX' = AfterEX /\ AfterDR' = AfterDR
        /\ LiveEX' <=> LiveEX
        /\ LiveDR' <=> LiveDR
        /\ LiveIF' <=> LiveIF
        /\ ~ Applied /\ ~ Applied'
    BY <1>1, <1>2 DEF AfterMW, AfterEX, AfterDR, LiveEX, LiveDR, LiveIF, Applied
  <1>4. unit' \in UnitType /\ unit'.status = unit.status /\ unit'.mask = unit.mask
    BY TickUnit DEF Stays, DR_, Orderly
  <1>5. TypeInv'
    BY <1>1, <1>4 DEF Orderly, TypeInv
  <1>6. ChainInv'
    BY <1>1, <1>2, <1>3 DEF Orderly, ChainInv
  <1>7. TurnInv'
    BY <1>1, <1>3 DEF TurnInv
  <1>8. FlushInv'
    BY <1>1, <1>2 DEF Orderly, FlushInv
  <1>9. NextPCInv'
    BY <1>1, <1>2, <1>3 DEF Orderly, NextPCInv
  <1>10. AddrInv'
    BY <1>1, <1>2, <1>3 DEF Orderly, AddrInv
  <1>11. DelayInv'
    BY <1>1, <1>2 DEF Orderly, DelayInv
  <1>12. HaltInv'
    BY <1>1, <1>2, <1>3 DEF Orderly, HaltInv
  <1>13. ReadyInv'
    BY <1>1, <1>2, <1>3 DEF Orderly, ReadyInv
  <1>14. RegsInv'
    BY <1>1, <1>2, <1>3 DEF Orderly, RegsInv
  <1>15. UnitInv'
    <2>1. ModesInUnit' = ModesInUnit
      BY <1>1, <1>2, <1>3 DEF ModesInUnit
    <2> QED BY <1>1, <1>2, <1>3, <1>4, <2>1 DEF Orderly, UnitInv
  <1> QED BY <1>5, <1>6, <1>7, <1>8, <1>9, <1>10, <1>11, <1>12, <1>13, <1>14, <1>15
          DEF Orderly

\* The end of the simulation.
LEMMA HaltStep ==
  ASSUME TypeInv, HaltMW, UNCHANGED program
  PROVE  TypeInv' /\ ~ running' /\ turn' = "MW"
  <1>1. /\ running' = FALSE /\ turn = "MW"
        /\ UNCHANGED <<pipe, turn, stalled, disableIF, delay, handling, pc, nPC, base, halt,
                       regs, unit, program>>
    BY DEF HaltMW, fetching, control
  <1> QED BY <1>1 DEF TypeInv

\* Status when the simulation starts.
LEMMA EncodedReset == Encoded(<<2>>) = 2
  <1>1. Encoded(<< >>) = 0
    <2>1. << >> \in Seq(0 .. 3) /\ Len(<< >>) = 0
      OBVIOUS
    <2>2. PICK t : Weights(<< >>, t) /\ Encoded(<< >>) = t[0]
      BY <2>1, WeightsExist
    <2> QED BY <2>1, <2>2 DEF Weights
  <1>2. <<2>> \in Seq(0 .. 3) /\ Len(<<2>>) = 1 /\ <<2>>[1] = 2 /\ Tail(<<2>>) = << >>
    OBVIOUS
  <1>3. Encoded(<<2>>) = 2 + (4 * Encoded(<< >>))
    <2>1. PICK s \in Seq(0 .. 3) : s = <<2>>
      BY <1>2
    <2>2. Len(s) > 0 /\ s[1] = 2 /\ Tail(s) = << >>
      BY <1>2, <2>1
    <2>3. Encoded(s) = s[1] + (4 * Encoded(Tail(s)))
      BY <2>2, EncodedSplit
    <2> QED BY <2>1, <2>2, <2>3
  <1> QED BY <1>1, <1>3

\* The empty pipeline is in order.
LEMMA InitOrderly ==
  ASSUME Init
  PROVE  Orderly /\ running
  <1>1. /\ pipe = [s \in Stages |-> NoInstruction]
        /\ turn = "IF" /\ stalled = FALSE /\ disableIF = FALSE
        /\ pc = Entry /\ nPC = Entry /\ base = Entry /\ delay = 0 /\ handling = 0
        /\ halt = FALSE /\ running = TRUE
        /\ regs = [link |-> Nowhere, saved |-> Nowhere] /\ program \in Programs
        /\ arch = ArchInit
    BY DEF Init, OrderInit
  <1>2. /\ NoInstruction \in InStage /\ NoInstruction.op = "bubble"
        /\ NoInstruction.done = FALSE
    BY DEF NoInstruction, InStage, StageOps, Nowhere, Places
  <1>3. /\ MW = NoInstruction /\ EX = NoInstruction /\ DR = NoInstruction
        /\ Fetched = NoInstruction /\ pipe \in [Stages -> InStage]
        /\ \A s \in Stages : pipe[s] = NoInstruction
    BY <1>1, <1>2 DEF MW, EX, DR, Fetched, Stages
  <1>4. unit \in UnitType /\ unit.status = 2 /\ ("sts" \notin program => unit.mask = {})
    <2>1. unit = [Unit!ResetUnit EXCEPT !.vector[Device] = Handler,
                                        !.mask = {d \in {Device} : "sts" \in program}]
      BY DEF Init
    <2>2. Unit!ResetUnit.vector = [e \in {Device} |-> NoIsr]
      BY DEF Unit!ResetUnit
    <2>3. [Unit!ResetUnit.vector EXCEPT ![Device] = Handler] \in [{Device} -> {Handler}]
      BY <2>2
    <2> DEFINE vector == [Unit!ResetUnit.vector EXCEPT ![Device] = Handler]
               mask == {d \in {Device} : "sts" \in program}
    <2>4. vector \in [{Device} -> {Handler}] /\ mask \in SUBSET {Device}
          /\ ("sts" \notin program => mask = {})
      BY <2>3
    <2>5. unit = [Unit!ResetUnit EXCEPT !.vector = vector, !.mask = mask]
      BY <2>1
    <2> HIDE DEF vector, mask
    <2>6. unit = [enabled |-> TRUE, status |-> 2, mask |-> mask, pending |-> {},
                  source |-> 0, vector |-> vector]
      BY <2>5 DEF Unit!ResetUnit
    <2> QED BY <2>4, <2>6 DEF UnitType
  <1>5. Nowhere \in Places /\ Nowhere = [base |-> 0, pc |-> 0]
    BY DEF Nowhere, Places
  <1>6. TypeInv
    <2>1. \A s \in Stages : Real(pipe[s]) => pipe[s].op \in program
      BY <1>2, <1>3 DEF Real
    <2>2. regs \in [link : Places, saved : Places]
      BY <1>1, <1>5
    <2>3. pc \in Nat /\ nPC \in Nat /\ base \in Nat
      BY <1>1, Constants
    <2>4. /\ turn \in {"IF", "MW", "EX", "DR"}
          /\ stalled \in BOOLEAN /\ disableIF \in BOOLEAN
          /\ halt \in BOOLEAN /\ running \in BOOLEAN
          /\ program \in Programs
      BY <1>1
    <2>5. delay \in 0 .. 3 /\ handling \in 0 .. 3
      BY <1>1
    <2> QED BY <1>3, <1>4, <2>1, <2>2, <2>3, <2>4, <2>5, Zenon DEF TypeInv
  <1>7. ArchOK(arch) /\ arch.slots = 0 /\ ~ arch.halted /\ arch.next = Entry
        /\ arch.base = Entry /\ arch.link = Nowhere /\ arch.saved = Nowhere
        /\ arch.modes = <<2>>
    <2>1. /\ arch.slots = 0 /\ ~ arch.halted /\ arch.next = Entry
          /\ arch.base = Entry /\ arch.link = Nowhere /\ arch.saved = Nowhere
          /\ arch.modes = <<2>>
      BY <1>1 DEF ArchInit
    <2>2. arch \in ArchType
      BY <1>1, <1>5, Constants DEF ArchInit, ArchType
    <2> QED BY <2>1, <2>2, Constants DEF ArchOK
  <1>8. /\ ~ Kills(NoInstruction) /\ ~ Late(NoInstruction) /\ ~ KillsLate(NoInstruction)
        /\ ~ Saves(NoInstruction) /\ ~ Changes(NoInstruction) /\ ~ Real(NoInstruction)
        /\ Doomed(NoInstruction) /\ None(NoInstruction)
        /\ Fits(arch, NoInstruction) /\ After(arch, NoInstruction) = arch
    BY <1>2, <1>7 DEF Kills, Late, KillsLate, Saves, Changes, Real, Doomed, None, Fits, After,
       Flows, CacheFlows, ModeChanges
  <1>9. LiveEX /\ LiveDR /\ LiveIF /\ AfterMW = arch /\ AfterEX = arch /\ AfterDR = arch
        /\ ~ Applied
    BY <1>1, <1>3, <1>8 DEF LiveEX, LiveDR, LiveIF, AfterMW, AfterEX, AfterDR, Applied
  <1>10. ChainInv
    BY <1>1, <1>2, <1>3, <1>7, <1>8, <1>9 DEF ChainInv
  <1>11. TurnInv /\ NextPCInv /\ ReadyInv
    BY <1>1, <1>2, <1>3, <1>9 DEF TurnInv, NextPCInv, ReadyInv
  <1>12. FlushInv /\ AddrInv
    BY <1>1, <1>2, <1>3, <1>8 DEF FlushInv, AddrInv
  <1>13. DelayInv
    BY <1>1, <1>2, <1>3 DEF DelayInv, CacheFlows
  <1>14. HaltInv
    BY <1>1, <1>2, <1>3, <1>7, <1>9 DEF HaltInv
  <1>15. RegsInv
    <2>1. EventualBase(arch) = Entry /\ EventualLink(arch) = Nowhere
      BY <1>7 DEF EventualBase, EventualLink
    <2> QED BY <1>1, <1>7, <1>9, <2>1 DEF RegsInv
  <1>16. UnitInv
    <2>1. ModesInUnit = <<2>>
      BY <1>2, <1>3, <1>7 DEF ModesInUnit
    <2>2. /\ \A s \in Stages : pipe[s].op # "intr"
          /\ \A s \in Stages \ {"MW"} : pipe[s].op \in {"sts", "xret"} => ~ pipe[s].done
      BY <1>2, <1>3
    <2> HIDE DEF Stages
    <2> QED BY <1>1, <1>2, <1>3, <1>4, <1>8, <2>1, <2>2, EncodedReset DEF UnitInv
  <1> QED BY <1>1, <1>6, <1>10, <1>11, <1>12, <1>13, <1>14, <1>15, <1>16 DEF Orderly

\* The invariant, by its parts while the simulation runs.
LEMMA OrderlyRunning == PipeIInv <=> /\ TypeInv
                                     /\ running => Orderly
                                     /\ ~ running => turn = "MW"
  BY DEF PipeIInv, Orderly

\* Every step keeps the invariant.
LEMMA PipeStep ==
  ASSUME PipeIInv, Sound, [Next]_vars
  PROVE  PipeIInv'
  <1>1. CASE UNCHANGED vars
    <2>1. /\ MW' = MW /\ EX' = EX /\ DR' = DR /\ Fetched' = Fetched
          /\ UNCHANGED <<pipe, turn, stalled, disableIF, pc, nPC, base, delay, handling, halt,
                         running, regs, unit, program, arch>>
      BY <1>1 DEF vars, MW, EX, DR, Fetched
    <2> QED BY <2>1 DEF PipeIInv, TypeInv, ChainInv, TurnInv, FlushInv, NextPCInv, AddrInv,
            DelayInv, HaltInv, ReadyInv, RegsInv, UnitInv, ModesInUnit, LiveEX, LiveDR,
            LiveIF, AfterMW, AfterEX, AfterDR, Applied
  <1>2. CASE Next
    <2>1. Orderly /\ TypeInv
      BY <1>2, OrderlyRunning DEF Next, IF_, MW_, HaltMW, EX_, DR_
    <2>2. CASE HaltMW /\ UNCHANGED program
      BY <2>1, <2>2, HaltStep, OrderlyRunning DEF PipeIInv
    <2>3. CASE (IF_ \/ MW_ \/ EX_ \/ DR_) /\ UNCHANGED program
      <3>1. running' = running /\ running
        BY <2>3 DEF IF_, MW_, EX_, DR_
      <3>2. Orderly'
        <4>1. IF_ /\ UNCHANGED program => Orderly'
          BY <2>1, FetchStep DEF Fetches
        <4>2. MW_ /\ UNCHANGED program => Orderly'
          BY <2>1, ExecuteStep DEF Executes
        <4>3. EX_ /\ UNCHANGED program => Orderly'
          BY <2>1, WorkStep DEF Works
        <4>4. DR_ /\ UNCHANGED program => Orderly'
          BY <2>1, <3>1, MoveStep, StayStep DEF Moves, Stays
        <4> QED BY <2>3, <4>1, <4>2, <4>3, <4>4
      <3> QED BY <3>1, <3>2 DEF Orderly, PipeIInv
    <2> QED BY <1>2, <2>2, <2>3 DEF Next
  <1> QED BY <1>1, <1>2

\* The inductive invariant of the pipeline: each stage holds what the program will execute
\* next, unless a transfer before it will throw it out, and nPC, BASE, the return
\* registers, Status and the counters of the fetch (simulation-core.cc) go with it.
THEOREM PipeAlways ==
  ASSUME Sound
  PROVE  Spec => []PipeIInv
  <1>1. Init => PipeIInv
    BY InitOrderly, OrderlyRunning DEF Orderly
  <1>2. PipeIInv /\ [Next]_vars => PipeIInv'
    BY PipeStep
  <1> QED BY <1>1, <1>2, PTL DEF Spec

-----------------------------------------------------------------------------
(* What follows for the runs' properties.                                   *)

\* What the invariant says of Status between two cycles.
LEMMA StatusKept ==
  ASSUME PipeIInv
  PROVE  StatusHoldsModes
  <1> SUFFICES ASSUME turn = "IF", "trap" \notin program,
                      \A s \in Stages : pipe[s].op \notin ModeChanges
               PROVE  unit.status = Encoded(arch.modes)
    BY DEF StatusHoldsModes
  <1>1. UnitInv
    BY DEF PipeIInv
  <1>2. /\ \A s \in Stages : pipe[s].op # "intr"
        /\ MW.op \notin {"sts", "xret"}
    BY DEF ModeChanges, Stages, MW
  <1>3. ModesInUnit = arch.modes
    <2> HIDE DEF Stages
    <2> QED BY <1>2 DEF ModesInUnit
  <1> QED BY <1>1, <1>3 DEF UnitInv

\* Status holds the modes of the handlers that are nested, whatever stalls, is flushed or
\* interrupted: excunit_t::next, resume and write are called once for each of them.
THEOREM PipelineStatus ==
  ASSUME Sound
  PROVE  Spec => []StatusHoldsModes
  BY PipeAlways, StatusKept, PTL

\* Only callr and trap throw out what EX has done.
LEMMA NoEffectDiscarded ==
  ASSUME PipeIInv, Sound, [Next]_vars, DiscardsAnEffect
  PROVE  MW.op \in {"callr", "trap"}
  <1>1. PICK s \in {"DR", "EX"} :
          pipe[s].op = "alu" /\ pipe[s].done /\ pipe'[s].op = "bubble"
    BY DEF DiscardsAnEffect
  <1>2. turn = "MW" /\ pipe' # pipe
    BY <1>1 DEF DiscardsAnEffect
  <1>3. Executes
    BY <1>2 DEF vars, Next, Executes, IF_, HaltMW, EX_, DR_
  <1>4. Orderly
    BY <1>3 DEF PipeIInv, Orderly, Executes, MW_
  <1>5. EX.op = "alu" /\ EX.done /\ EX'.op = "bubble"
    BY <1>1, <1>4 DEF Orderly, FlushInv, DR, EX
  <1>6. PICK m : Executing(m)
    BY <1>3, <1>4, SomeExecuting
  <1>7. KillsLate(MW)
    BY <1>5, <1>6 DEF Executing, Behind
  <1> QED BY <1>4, <1>5, <1>7 DEF Orderly, FlushInv

\* pipeline_flush comes in time for every transfer but callr and trap: what it throws out
\* has written no predicate and no special register in EX.
THEOREM PipelineFlushes ==
  ASSUME Sound
  PROVE  Spec => FlushedInTimeHasNoEffect
  <1>1. PipeIInv /\ [Next]_vars => [DiscardsAnEffect => MW.op \in {"callr", "trap"}]_vars
    BY NoEffectDiscarded
  <1> QED BY <1>1, PipeAlways, PTL DEF Spec, FlushedInTimeHasNoEffect

\* A transfer that reads where it goes from a register means the same whatever it holds.
LEMMA MeaningAsWritten ==
  ASSUME NEW a, NEW i, NEW w, NEW at,
         w.op = i.op, w.delayed = i.delayed, w.guard = i.guard,
         i.op \notin {"ret", "xret", "trap"} => w.dest = i.dest
  PROVE  Meaning(a, w, at) = Meaning(a, i, at)
  <1>1. DelaySlots(w) = DelaySlots(i)
    BY DEF DelaySlots
  <1>2. CASE i.op \in {"ret", "xret", "trap"}
    <2>1. CASE i.op = "ret"
      BY <1>1, <2>1 DEF Meaning
    <2>2. CASE i.op = "xret"
      BY <1>1, <2>2 DEF Meaning
    <2>3. CASE i.op = "trap"
      BY <1>1, <2>3 DEF Meaning
    <2> QED BY <1>2, <2>1, <2>2, <2>3
  <1>3. CASE i.op \notin {"ret", "xret", "trap"}
    <2>1. w.dest = i.dest
      BY <1>3
    <2>2. CASE ~ i.guard
      BY <2>2 DEF Meaning
    <2>3. CASE i.guard /\ i.op = "sts"
      BY <2>1, <2>3 DEF Meaning
    <2>4. CASE i.guard /\ i.op = "br"
      BY <1>1, <2>1, <2>4 DEF Meaning
    <2>5. CASE i.guard /\ i.op \in {"brcf", "call", "callr"}
      BY <1>1, <2>1, <2>5 DEF Meaning
    <2>6. CASE i.guard /\ i.op \notin {"sts", "br", "brcf", "call", "callr"}
      BY <1>3, <2>6 DEF Meaning
    <2> QED BY <2>2, <2>3, <2>4, <2>5, <2>6
  <1> QED BY <1>2, <1>3

\* What leaves MW is a step of the program.
LEMMA RetireRefines ==
  ASSUME Orderly, Moves
  PROVE  [OrderNext]_arch
  <1>1. arch' = AfterMW /\ MW.op # "halt" /\ Fits(arch, MW) /\ MW \in InStage
    BY RetiredInstruction, StageTypes DEF Orderly, ChainInv
  <1>2. CASE MW.op = "bubble"
    BY <1>1, <1>2, AfterNothing DEF AfterMW
  <1>3. CASE MW.op = "intr"
    <2>1. arch' = Handle(arch, arch.next)
      BY <1>1, <1>3 DEF AfterMW, After, Fits, Real
    <2> QED BY <1>1, <1>3, <2>1 DEF OrderNext, Interrupt, Fits
  <1>4. CASE Real(MW)
    <2>1. /\ arch' = Meaning(arch, MW, arch.next) /\ ~ arch.halted /\ AsWritten(MW)
          /\ arch.slots > 0 => MW.op \notin Transfers
      BY <1>1, <1>4 DEF AfterMW, After, Fits, Real
    <2>2. PICK w \in Instructions :
            /\ w.op = MW.op /\ w.delayed = MW.delayed /\ w.guard = MW.guard
            /\ MW.op \notin {"ret", "xret", "trap"} => w.dest = MW.dest
      BY <2>1 DEF AsWritten
    <2>3. arch' = Meaning(arch, w, arch.next)
      BY <2>1, <2>2, MeaningAsWritten
    <2> QED BY <2>1, <2>2, <2>3 DEF OrderNext, Execute
  <1> QED BY <1>1, <1>2, <1>3, <1>4 DEF Real

\* Every step of the pipeline is a step of the program, or none.
LEMMA StepRefines ==
  ASSUME PipeIInv, Sound, [Next]_vars
  PROVE  [OrderNext]_arch
  <1>1. CASE UNCHANGED vars \/ IF_ \/ MW_ \/ EX_ \/ (DR_ /\ stalled)
    BY <1>1 DEF vars, IF_, MW_, EX_, DR_, Stay
  <1>2. CASE DR_ /\ ~ stalled /\ UNCHANGED program
    <2>1. Orderly /\ Moves
      BY <1>2 DEF PipeIInv, Orderly, Moves, DR_
    <2> QED BY <2>1, RetireRefines
  <1>3. CASE HaltMW
    <2>1. arch.halted
      BY <1>3 DEF PipeIInv, ChainInv, Fits, HaltMW
    <2> QED BY <1>3, <2>1 DEF HaltMW, OrderNext, Stop
  <1> QED BY <1>1, <1>2, <1>3 DEF Next

\* simulator_t::run executes the program in its order, whatever the caches, the memory and
\* the devices do: it implements ProgramOrder, which knows no stages.
THEOREM PipelineRefines ==
  ASSUME Sound
  PROVE  Spec => RefinesProgramOrder
  <1>1. Init => OrderInit
    BY DEF Init
  <1>2. PipeIInv /\ [Next]_vars => [OrderNext]_arch
    BY StepRefines
  <1> QED BY <1>1, <1>2, PipeAlways, PTL DEF Spec, RefinesProgramOrder, OrderSpec
=============================================================================
