--------------------------- MODULE DatapathProofs ---------------------------
(***************************************************************************)
(* Proofs about the registers in the pipeline, for words of any width, any   *)
(* number of registers and predicates, every set of bundles the decoder can  *)
(* make, and every pattern of stalls.                                      *)
(*                                                                         *)
(* The invariant relates what the stages hold to the machine the program     *)
(* sees: the operands in EX are, behind the by-passes, those of the machine; *)
(* MW holds the results and the late effects of the machine's last bundle;   *)
(* and the files lack only what MW still owes them.  MW and EX are called     *)
(* again in every cycle of a stall, so predicates and special registers may  *)
(* already be those of the bundle in EX, and writing them again is harmless. *)
(***************************************************************************)
EXTENDS Datapath, TLAPS

\* The bundle whose slots a stage holds.
Bundle(ss) == <<ss[1].i, ss[2].i>>

\* The file of PRR_t: the predicates and, behind them, their negations.
Full(prr) ==
  [p \in 0 .. 2 * NumPRR - 1 |->
     IF p < NumPRR THEN prr[p] ELSE ~ prr[p - NumPRR]]

\* f is a function with this domain.
Over(S, f) == f = [x \in S |-> f[x]]

PredicateFile == [0 .. NumPRR - 1 -> BOOLEAN]

\* A machine and a set of register files have their fields, over all registers.
IsMachine(m) ==
  /\ m = [gpr |-> m.gpr, prr |-> m.prr, spr |-> m.spr, mem |-> m.mem,
          late |-> m.late, last |-> m.last]
  /\ Over(GPR, m.gpr)
  /\ m.prr \in PredicateFile
  /\ Over(SPR, m.spr)

IsFile(r) ==
  /\ r = [gpr |-> r.gpr, prr |-> r.prr, spr |-> r.spr, mem |-> r.mem]
  /\ Over(GPR, r.gpr)
  /\ Over(SPR, r.spr)

-----------------------------------------------------------------------------
\* What each late effect and each value does to one file.
LoadedGpr(gpr, mem, e) ==
  IF e[1] = "load" /\ e[2] # 0 THEN [gpr EXCEPT ![e[2]] = mem[e[3]]] ELSE gpr
StoredMem(mem, e) == IF e[1] = "store" THEN [mem EXCEPT ![e[3]] = e[2]] ELSE mem
ProducedSpr(spr, e) == IF e[1] = "product" THEN [sl |-> e[2], sh |-> e[3]] ELSE spr

AssignedGpr(gpr, on, i, v) ==
  IF on /\ Target(i) # 0 /\ i.class \in Computing THEN [gpr EXCEPT ![i.d] = v] ELSE gpr
AssignedPrr(prr, on, i, v) ==
  IF on /\ i.class \in {"aluc", "aluci", "alup"} /\ i.d # 0 THEN [prr EXCEPT ![i.d] = v]
  ELSE IF on /\ i.class = "spct" /\ i.op = "s0" THEN PredsOf(v)
  ELSE prr
AssignedSpr(spr, on, i, v) ==
  IF on /\ i.class = "spct" /\ i.op # "s0" THEN [spr EXCEPT ![i.op] = v] ELSE spr

\* What Executed computes and delays for an instruction.
Special(m, i) ==
  IF i.class # "spcf" THEN 0
  ELSE IF i.op = "s0" THEN WordOfPreds(m.prr) ELSE m.spr[i.op]
Operated(m, i) ==
  Value(i, m.gpr[i.s1], m.gpr[i.s2], Holds(m.prr, i.q1), Holds(m.prr, i.q2), Special(m, i))
Delayed(m, i) == IF Enabled(m, i) THEN Late(i, m.gpr[i.s1], m.gpr[i.s2]) ELSE NotLate

-----------------------------------------------------------------------------
\* Functions with one domain are equal if their values are.
LEMMA OverEqual ==
  ASSUME NEW S, NEW f, NEW g, Over(S, f), Over(S, g), \A x \in S : f[x] = g[x]
  PROVE  f = g
BY DEF Over

\* An update keeps the domain and changes one value.
LEMMA OverUpdated ==
  ASSUME NEW S, NEW f, Over(S, f), NEW a, NEW v
  PROVE  /\ Over(S, [f EXCEPT ![a] = v])
         /\ \A x \in S : [f EXCEPT ![a] = v][x] = IF x = a THEN v ELSE f[x]
BY DEF Over

\* A late effect, file by file.
LEMMA PerformedFields ==
  ASSUME NEW m, NEW e,
         m = [gpr |-> m.gpr, prr |-> m.prr, spr |-> m.spr, mem |-> m.mem,
              late |-> m.late, last |-> m.last]
  PROVE  Performed(m, e) =
           [gpr |-> LoadedGpr(m.gpr, m.mem, e), prr |-> m.prr,
            spr |-> ProducedSpr(m.spr, e), mem |-> StoredMem(m.mem, e),
            late |-> m.late, last |-> m.last]
BY SMT DEF Performed, LoadedGpr, ProducedSpr, StoredMem

\* The same of the register files that MW writes.
LEMMA FilePerformed ==
  ASSUME NEW m, NEW e,
         m = [gpr |-> m.gpr, prr |-> m.prr, spr |-> m.spr, mem |-> m.mem]
  PROVE  Performed(m, e) =
           [gpr |-> LoadedGpr(m.gpr, m.mem, e), prr |-> m.prr,
            spr |-> ProducedSpr(m.spr, e), mem |-> StoredMem(m.mem, e)]
BY SMT DEF Performed, LoadedGpr, ProducedSpr, StoredMem

\* A value that an instruction assigns, file by file.
LEMMA AssignedFields ==
  ASSUME NEW m, NEW i, NEW v, 
         m = [gpr |-> m.gpr, prr |-> m.prr, spr |-> m.spr, mem |-> m.mem,
              late |-> m.late, last |-> m.last]
  PROVE  Assigned(m, i, v) =
           [gpr |-> AssignedGpr(m.gpr, TRUE, i, v), prr |-> AssignedPrr(m.prr, TRUE, i, v),
            spr |-> AssignedSpr(m.spr, TRUE, i, v), mem |-> m.mem,
            late |-> m.late, last |-> m.last]
BY SMT DEF Assigned, AssignedGpr, AssignedPrr, AssignedSpr, Computing, Target

\* The same for an instruction that may be disabled.
LEMMA EffectFields ==
  ASSUME NEW m, NEW on \in BOOLEAN, NEW i, NEW v,
         m = [gpr |-> m.gpr, prr |-> m.prr, spr |-> m.spr, mem |-> m.mem,
              late |-> m.late, last |-> m.last]
  PROVE  (IF on THEN Assigned(m, i, v) ELSE m) =
           [gpr |-> AssignedGpr(m.gpr, on, i, v), prr |-> AssignedPrr(m.prr, on, i, v),
            spr |-> AssignedSpr(m.spr, on, i, v), mem |-> m.mem,
            late |-> m.late, last |-> m.last]
<1>1. CASE on
  BY <1>1, AssignedFields DEF AssignedGpr, AssignedPrr, AssignedSpr
<1>2. CASE ~ on
  BY <1>2 DEF AssignedGpr, AssignedPrr, AssignedSpr
<1>3. QED
  BY <1>1, <1>2

\* What a bundle makes of each file.
ExecutedGpr(m, b) ==
  AssignedGpr(
    AssignedGpr(
      LoadedGpr(LoadedGpr(m.gpr, m.mem, m.late[1]), StoredMem(m.mem, m.late[1]), m.late[2]),
      Enabled(m, b[1]), b[1], Operated(m, b[1])),
    Enabled(m, b[2]), b[2], Operated(m, b[2]))
ExecutedPrr(m, b) ==
  AssignedPrr(AssignedPrr(m.prr, Enabled(m, b[1]), b[1], Operated(m, b[1])),
              Enabled(m, b[2]), b[2], Operated(m, b[2]))
ExecutedSpr(m, b) ==
  AssignedSpr(
    AssignedSpr(ProducedSpr(ProducedSpr(m.spr, m.late[1]), m.late[2]),
                Enabled(m, b[1]), b[1], Operated(m, b[1])),
    Enabled(m, b[2]), b[2], Operated(m, b[2]))
ExecutedMem(m) == StoredMem(StoredMem(m.mem, m.late[1]), m.late[2])

\* Executed, file by file.
LEMMA ExecutedFields ==
  ASSUME NEW m, NEW b, IsMachine(m), b = <<b[1], b[2]>>,
         Enabled(m, b[1]) \in BOOLEAN, Enabled(m, b[2]) \in BOOLEAN
  PROVE  Executed(m, b) =
           [gpr |-> ExecutedGpr(m, b), prr |-> ExecutedPrr(m, b),
            spr |-> ExecutedSpr(m, b), mem |-> ExecutedMem(m),
            late |-> <<Delayed(m, b[1]), Delayed(m, b[2])>>, last |-> b]
<1> DEFINE n1 == Performed(m, m.late[1])
           n2 == Performed(n1, m.late[2])
           n3 == IF Enabled(m, b[1]) THEN Assigned(n2, b[1], Operated(m, b[1])) ELSE n2
           n4 == IF Enabled(m, b[2]) THEN Assigned(n3, b[2], Operated(m, b[2])) ELSE n3
<1>1. n1 = [gpr |-> LoadedGpr(m.gpr, m.mem, m.late[1]), prr |-> m.prr,
            spr |-> ProducedSpr(m.spr, m.late[1]), mem |-> StoredMem(m.mem, m.late[1]),
            late |-> m.late, last |-> m.last]
  BY PerformedFields DEF IsMachine
<1>2. n2 = [gpr |-> LoadedGpr(n1.gpr, n1.mem, m.late[2]), prr |-> n1.prr,
            spr |-> ProducedSpr(n1.spr, m.late[2]), mem |-> StoredMem(n1.mem, m.late[2]),
            late |-> n1.late, last |-> n1.last]
  <2> HIDE DEF n1
  <2>1. n1 = [gpr |-> n1.gpr, prr |-> n1.prr, spr |-> n1.spr, mem |-> n1.mem,
              late |-> n1.late, last |-> n1.last]
    BY <1>1
  <2>2. QED
    BY <2>1, PerformedFields
<1>3. n3 = [gpr |-> AssignedGpr(n2.gpr, Enabled(m, b[1]), b[1], Operated(m, b[1])),
            prr |-> AssignedPrr(n2.prr, Enabled(m, b[1]), b[1], Operated(m, b[1])),
            spr |-> AssignedSpr(n2.spr, Enabled(m, b[1]), b[1], Operated(m, b[1])),
            mem |-> n2.mem, late |-> n2.late, last |-> n2.last]
  <2> HIDE DEF n1, n2
  <2>1. n2 = [gpr |-> n2.gpr, prr |-> n2.prr, spr |-> n2.spr, mem |-> n2.mem,
              late |-> n2.late, last |-> n2.last]
    BY <1>2
  <2>2. QED
    BY <2>1, EffectFields
<1>4. n4 = [gpr |-> AssignedGpr(n3.gpr, Enabled(m, b[2]), b[2], Operated(m, b[2])),
            prr |-> AssignedPrr(n3.prr, Enabled(m, b[2]), b[2], Operated(m, b[2])),
            spr |-> AssignedSpr(n3.spr, Enabled(m, b[2]), b[2], Operated(m, b[2])),
            mem |-> n3.mem, late |-> n3.late, last |-> n3.last]
  <2> HIDE DEF n1, n2, n3
  <2>1. n3 = [gpr |-> n3.gpr, prr |-> n3.prr, spr |-> n3.spr, mem |-> n3.mem,
              late |-> n3.late, last |-> n3.last]
    BY <1>3
  <2>2. QED
    BY <2>1, EffectFields
<1>5. Executed(m, b) =
        [n4 EXCEPT !.late = <<Delayed(m, b[1]), Delayed(m, b[2])>>, !.last = b]
  BY DEF Executed, Delayed, Operated, Special
<1>6. Executed(m, b) =
        [gpr |-> n4.gpr, prr |-> n4.prr, spr |-> n4.spr, mem |-> n4.mem,
         late |-> <<Delayed(m, b[1]), Delayed(m, b[2])>>, last |-> b]
  <2> HIDE DEF n1, n2, n3, n4
  <2>1. QED
    BY <1>4, <1>5
<1>7. QED
  <2> HIDE DEF n1, n2, n3, n4
  <2>1. QED
    BY <1>1, <1>2, <1>3, <1>4, <1>6
       DEF ExecutedGpr, ExecutedPrr, ExecutedSpr, ExecutedMem

-----------------------------------------------------------------------------
ResultOK(t) ==
  /\ t = [i |-> t.i, on |-> t.on, value |-> t.value, done |-> t.done, late |-> t.late,
          bypass |-> t.bypass]
  /\ t.on \in BOOLEAN /\ t.done \in BOOLEAN
  /\ t.done => t.on /\ t.i.class \in Accessing
  /\ t.late[1] = IF t.on /\ t.i.class = "ldt" THEN "load"
                 ELSE IF t.on /\ t.i.class = "stt" THEN "store"
                 ELSE IF t.on /\ t.i.class = "alum" THEN "product" ELSE "none"
  /\ t.late[1] = "load" => t.late[2] = t.i.d
  /\ t.bypass = IF t.on /\ t.i.class \in Computing /\ t.i.d # 0
                THEN <<t.i.d, t.value>> ELSE NoBypass

Now(t, answered) ==
  IF t.on /\ ~ t.done /\ ~ Waits(t, answered) THEN t.late ELSE NotLate

\* What MW makes of the files for one slot.
LEMMA MWSlotFields ==
  ASSUME NEW r, NEW t, NEW answered \in BOOLEAN, ResultOK(t),
         r = [gpr |-> r.gpr, prr |-> r.prr, spr |-> r.spr, mem |-> r.mem]
  PROVE  MWSlot(r, t, answered) =
           [gpr |-> IF t.bypass # NoBypass THEN [r.gpr EXCEPT ![t.i.d] = t.value]
                    ELSE LoadedGpr(r.gpr, r.mem, Now(t, answered)),
            prr |-> r.prr, spr |-> ProducedSpr(r.spr, t.late),
            mem |-> StoredMem(r.mem, Now(t, answered))]
<1> DEFINE idle == ~ t.on \/ t.done \/ Waits(t, answered)
<1>1. t.bypass # NoBypass <=> t.on /\ Target(t.i) # 0 /\ t.i.class \in Computing
  BY DEF ResultOK, NoBypass, Target, Computing
<1>2. CASE idle
  <2>1. /\ ~ (t.on /\ Target(t.i) # 0 /\ t.i.class \in Computing)
        /\ t.late[1] # "product"
        /\ Now(t, answered)[1] = "none"
    BY <1>2 DEF ResultOK, Waits, Accessing, Computing, Now, NotLate
  <2>2. MWSlot(r, t, answered) = r
    BY <1>2, <2>1 DEF MWSlot
  <2>3. QED
    BY <1>1, <2>1, <2>2 DEF LoadedGpr, ProducedSpr, StoredMem
<1>3. CASE ~ idle /\ t.on /\ Target(t.i) # 0 /\ t.i.class \in Computing
  <2>1. t.late[1] = "none" /\ Now(t, answered)[1] = "none"
    BY <1>3 DEF ResultOK, Computing, Now, NotLate
  <2>2. MWSlot(r, t, answered) = [r EXCEPT !.gpr[t.i.d] = t.value]
    BY <1>3 DEF MWSlot
  <2>3. QED
    BY <1>1, <1>3, <2>1, <2>2 DEF LoadedGpr, ProducedSpr, StoredMem
<1>4. CASE ~ idle /\ ~ (t.on /\ Target(t.i) # 0 /\ t.i.class \in Computing)
  <2>1. MWSlot(r, t, answered) = Performed(r, t.late)
    BY <1>4 DEF MWSlot
  <2>2. Now(t, answered) = t.late
    BY <1>4 DEF Now, ResultOK
  <2>3. QED
    BY <1>1, <1>4, <2>1, <2>2, FilePerformed
<1>5. QED
  BY <1>2, <1>3, <1>4

\* What sets a predicate is a truth value.
IsOperation(i, v) == i.class \in {"aluc", "aluci", "alup"} => v \in BOOLEAN

\* The two halves of the file.
LEMMA FullAt ==
  ASSUME NEW prr \in PredicateFile, NEW p \in 0 .. NumPRR - 1
  PROVE  /\ Full(prr)[p] = prr[p]
         /\ Full(prr)[NumPRR + p] = ~ prr[p]
<1>1. NumPRR \in Nat /\ p \in Int /\ 0 <= p /\ p < NumPRR
  BY BundlesAssumption
<1>2. p \in 0 .. 2 * NumPRR - 1 /\ NumPRR + p \in 0 .. 2 * NumPRR - 1
  BY <1>1
<1>4. Full(prr)[p] = prr[p]
  BY <1>1, <1>2 DEF Full
<1>5. PICK q \in 0 .. 2 * NumPRR - 1 : q = NumPRR + p
  BY <1>2
<1>6. ~ (q < NumPRR) /\ q - NumPRR = p
  BY <1>1, <1>5
<1>7. Full(prr)[q] = IF q < NumPRR THEN prr[q] ELSE ~ prr[q - NumPRR]
  BY Zenon DEF Full
<1>8. Full(prr)[q] = ~ prr[p]
  BY Zenon, <1>6, <1>7
<1>9. QED
  BY <1>4, <1>5, <1>8

\* A file whose halves are each other's negation is full.
LEMMA FullByHalves ==
  ASSUME NEW f, NEW prr \in PredicateFile,
         Over(0 .. 2 * NumPRR - 1, f),
         \A p \in 0 .. NumPRR - 1 : f[p] = prr[p] /\ f[NumPRR + p] = ~ prr[p]
  PROVE  f = Full(prr)
<1>1. ASSUME NEW p \in 0 .. 2 * NumPRR - 1
      PROVE  f[p] = Full(prr)[p]
  <2>1. CASE p < NumPRR
    <3>1. p \in 0 .. NumPRR - 1
      BY <2>1, BundlesAssumption
    <3>2. QED
      BY <3>1, FullAt
  <2>2. CASE p >= NumPRR
    <3>1. PICK q \in 0 .. NumPRR - 1 : p = NumPRR + q
      <4>1. p - NumPRR \in 0 .. NumPRR - 1 /\ p = NumPRR + (p - NumPRR)
        BY <2>2, BundlesAssumption
      <4>2. QED
        BY <4>1
    <3>2. QED
      BY <3>1, FullAt
  <2>3. QED
    BY <2>1, <2>2, BundlesAssumption
<1>2. Over(0 .. 2 * NumPRR - 1, Full(prr))
  BY DEF Full, Over
<1>3. QED
  BY <1>1, <1>2 DEF Over

\* PRR_t::set keeps the negations right, and p0 true.
LEMMA SetInFull ==
  ASSUME NEW prr \in PredicateFile, NEW d \in 0 .. NumPRR - 1,
         NEW v \in BOOLEAN, d # 0
  PROVE  Set(Full(prr), d, v) = Full([prr EXCEPT ![d] = v])
<1> DEFINE new == [prr EXCEPT ![d] = v]
           f == Set(Full(prr), d, v)
<1>1. f = [Full(prr) EXCEPT ![d] = v, ![NumPRR + d] = ~ v]
  BY DEF Set
<1>2. Over(0 .. 2 * NumPRR - 1, f)
  BY <1>1 DEF Full, Over
<1>3. new \in PredicateFile
  BY DEF PredicateFile
<1>4. ASSUME NEW p \in 0 .. NumPRR - 1
      PROVE  f[p] = new[p] /\ f[NumPRR + p] = ~ new[p]
  <2>1. /\ NumPRR \in Nat /\ p \in 0 .. 2 * NumPRR - 1
        /\ NumPRR + p \in 0 .. 2 * NumPRR - 1
        /\ p # NumPRR + d /\ NumPRR + p # d
        /\ NumPRR + p = NumPRR + d => p = d
    BY BundlesAssumption
  <2>2. DOMAIN Full(prr) = 0 .. 2 * NumPRR - 1
    BY DEF Full
  <2>3. f[p] = IF p = d THEN v ELSE Full(prr)[p]
    BY <1>1, <2>1, <2>2
  <2>4. f[NumPRR + p] = IF p = d THEN ~ v ELSE Full(prr)[NumPRR + p]
    <3>1. PICK w : w = ~ v
      OBVIOUS
    <3>2. f = [Full(prr) EXCEPT ![d] = v, ![NumPRR + d] = w]
      BY <1>1, <3>1
    <3>3. f[NumPRR + p] = IF p = d THEN w ELSE Full(prr)[NumPRR + p]
      BY <2>1, <2>2, <3>2
    <3>4. QED
      BY <3>1, <3>3
  <2>5. QED
    BY <2>3, <2>4, FullAt DEF PredicateFile
<1>5. QED
  <2> HIDE DEF f, new
  <2>1. f = Full(new)
    BY <1>2, <1>3, <1>4, FullByHalves
  <2>2. QED
    BY <2>1 DEF f, new

\* So does writing all predicates at once.
LEMMA SetAllIsFull ==
  ASSUME NEW v
  PROVE  SetAll(v) = Full(PredsOf(v))
<1>1. PredsOf(v) \in PredicateFile
  BY DEF PredsOf, PredicateFile
<1>2. Over(0 .. 2 * NumPRR - 1, SetAll(v))
  BY DEF SetAll, Over
<1>3. ASSUME NEW p \in 0 .. NumPRR - 1
      PROVE  SetAll(v)[p] = PredsOf(v)[p] /\ SetAll(v)[NumPRR + p] = ~ PredsOf(v)[p]
  <2>1. /\ NumPRR \in Nat /\ p \in 0 .. 2 * NumPRR - 1 /\ p < NumPRR
        /\ NumPRR + p \in 0 .. 2 * NumPRR - 1 /\ ~ (NumPRR + p < NumPRR)
        /\ NumPRR + p - NumPRR = p /\ (NumPRR + p = NumPRR <=> p = 0)
    BY BundlesAssumption
  <2>2. PredsOf(v)[p] <=> p = 0 \/ p \in Bits(v)
    BY DEF PredsOf
  <2>3. SetAll(v)[p] <=> p = 0 \/ p \in Bits(v)
    BY <2>1 DEF SetAll
  <2>4. SetAll(v)[NumPRR + p] = ~ (p = 0 \/ p \in Bits(v))
    BY <2>1 DEF SetAll
  <2>5. PredsOf(v)[p] = (p = 0 \/ p \in Bits(v)) /\ SetAll(v)[p] = (p = 0 \/ p \in Bits(v))
    BY <2>1 DEF PredsOf, SetAll
  <2>6. QED
    BY <2>4, <2>5
<1>4. QED
  BY <1>1, <1>2, <1>3, FullByHalves

\* What EX makes of the files for one slot.
LEMMA EXWritesFields ==
  ASSUME NEW r, NEW t, NEW prr \in PredicateFile,
         t.on \in BOOLEAN, IsInstruction(t.i), IsOperation(t.i, t.value),
         r = [gpr |-> r.gpr, prr |-> r.prr, spr |-> r.spr, mem |-> r.mem],
         r.prr = Full(prr)
  PROVE  /\ EXWrites(r, t) =
              [gpr |-> r.gpr, prr |-> Full(AssignedPrr(prr, t.on, t.i, t.value)),
               spr |-> AssignedSpr(r.spr, t.on, t.i, t.value), mem |-> r.mem]
         /\ AssignedPrr(prr, t.on, t.i, t.value) \in PredicateFile
<1>1. CASE t.on /\ t.i.class \in {"aluc", "aluci", "alup"}
  <2>1. t.i.d \in 0 .. NumPRR - 1 /\ t.value \in BOOLEAN /\ NumPRR \in Nat \ {0}
    BY <1>1, BundlesAssumption DEF IsInstruction, IsOperation
  <2>2. EXWrites(r, t) = [r EXCEPT !.prr = Set(r.prr, t.i.d, t.value)]
    BY <1>1 DEF EXWrites
  <2>3. CASE t.i.d = 0
    BY <1>1, <2>2, <2>3 DEF Set, AssignedPrr, AssignedSpr
  <2>4. CASE t.i.d # 0
    <3>1. Set(Full(prr), t.i.d, t.value) = Full([prr EXCEPT ![t.i.d] = t.value])
      BY <2>1, <2>4, SetInFull
    <3>2. AssignedPrr(prr, t.on, t.i, t.value) = [prr EXCEPT ![t.i.d] = t.value]
      BY <1>1, <2>4 DEF AssignedPrr
    <3>3. [prr EXCEPT ![t.i.d] = t.value] \in PredicateFile
      BY <2>1 DEF PredicateFile
    <3>4. AssignedSpr(r.spr, t.on, t.i, t.value) = r.spr
      BY <1>1 DEF AssignedSpr
    <3>5. QED
      BY <2>2, <3>1, <3>2, <3>3, <3>4
  <2>5. QED
    BY <2>3, <2>4
<1>2. CASE t.on /\ t.i.class = "spct" /\ t.i.op = "s0"
  <2>1. EXWrites(r, t) = [r EXCEPT !.prr = SetAll(t.value)]
    BY <1>2 DEF EXWrites
  <2>2. AssignedPrr(prr, t.on, t.i, t.value) = PredsOf(t.value)
    BY <1>2 DEF AssignedPrr
  <2>3. PredsOf(t.value) \in PredicateFile
    BY DEF PredsOf, PredicateFile
  <2>4. SetAll(t.value) = Full(PredsOf(t.value))
    BY SetAllIsFull
  <2>5. AssignedSpr(r.spr, t.on, t.i, t.value) = r.spr
    BY <1>2 DEF AssignedSpr
  <2>6. QED
    BY <2>1, <2>2, <2>3, <2>4, <2>5
<1>3. CASE t.on /\ t.i.class = "spct" /\ t.i.op # "s0"
  BY <1>3 DEF EXWrites, AssignedPrr, AssignedSpr
<1>4. CASE ~ t.on \/ t.i.class \notin {"aluc", "aluci", "alup", "spct"}
  BY <1>4 DEF EXWrites, AssignedPrr, AssignedSpr
<1>5. QED
  BY <1>1, <1>2, <1>3, <1>4

\* Comparisons and predicate operations yield truth values.
LEMMA ComparisonsAreTruths ==
  ASSUME NEW a, NEW b, NEW op \in Comparisons
  PROVE  Compare(op, a, b) \in BOOLEAN
<1>1. op = "cmpeq" \/ op = "cmpneq" \/ op = "cmplt" \/ op = "cmple" \/ op = "cmpult"
        \/ op = "cmpule" \/ op = "btest"
  BY DEF Comparisons
<1>2. /\ Compare("cmpeq", a, b) \in BOOLEAN
      /\ Compare("cmpneq", a, b) \in BOOLEAN
      /\ Compare("cmplt", a, b) \in BOOLEAN
      /\ Compare("cmple", a, b) \in BOOLEAN
      /\ Compare("cmpult", a, b) \in BOOLEAN
      /\ Compare("cmpule", a, b) \in BOOLEAN
      /\ Compare("btest", a, b) \in BOOLEAN
  BY SMT DEF Compare
<1>3. QED
  BY <1>1, <1>2

LEMMA ConnectivesAreTruths ==
  ASSUME NEW p \in BOOLEAN, NEW q \in BOOLEAN, NEW op \in Connectives
  PROVE  Logic(op, p, q) \in BOOLEAN
<1>1. op = "por" \/ op = "pand" \/ op = "pxor"
  BY DEF Connectives
<1>2. /\ Logic("por", p, q) \in BOOLEAN
      /\ Logic("pand", p, q) \in BOOLEAN
      /\ Logic("pxor", p, q) \in BOOLEAN
  BY SMT DEF Logic
<1>3. QED
  BY <1>1, <1>2

\* So does what an instruction that sets a predicate computes.
LEMMA OperatedIsOperation ==
  ASSUME NEW m, IsMachine(m), NEW i, IsInstruction(i)
  PROVE  IsOperation(i, Operated(m, i))
<1>1. Holds(m.prr, i.q1) \in BOOLEAN /\ Holds(m.prr, i.q2) \in BOOLEAN
  BY DEF Holds
<1>2. CASE i.class \in {"aluc", "aluci"}
  BY <1>2, ComparisonsAreTruths DEF Operated, Value, IsInstruction, IsOperation
<1>3. CASE i.class = "alup"
  BY <1>1, <1>3, ConnectivesAreTruths DEF Operated, Value, IsInstruction, IsOperation
<1>4. QED
  BY <1>2, <1>3 DEF IsOperation
-----------------------------------------------------------------------------
\* What the pipeline is filled with at first.
Bubble == <<Nop, Nop>>
\* The late effect of t as far as MW has let it happen.
Part(t) == IF t.done THEN t.late ELSE NotLate

\* Both instructions are enabled and write one register or need one unit.
Clash(s) ==
  /\ s[1].on /\ s[2].on
  /\ \/ Target(s[1].i) # 0 /\ Target(s[1].i) = Target(s[2].i)
     \/ {s[1].i.class, s[2].i.class} \subseteq Accessing
     \/ {s[1].i.class, s[2].i.class} = {"alum"}

\* The stages hold instructions of the program, or the bubble before it.
TypesInv ==
  /\ IsMachine(machine) /\ IsFile(regs)
  /\ program \in Programs /\ (fetched = NoBundle \/ fetched \in program)
  /\ dr = <<dr[1], dr[2]>>
  /\ dr \in Bundles \/ (dr = Bubble /\ Bundle(ex) = Bubble)
  /\ \/ Bundle(ex) \in Bundles
     \/ /\ Bundle(ex) = Bubble /\ machine.last = Bubble
        /\ machine.late = <<NotLate, NotLate>>
  /\ \A k \in {1, 2} :
       IsInstruction(dr[k]) /\ IsInstruction(ex[k].i) /\ IsInstruction(mw[k].i)

\* What EX gets, from s and the by-passes of ts, is what m has.
OperandsOK(s, m, ts) ==
  /\ s = [i |-> s.i, on |-> s.on, v1 |-> s.v1, v2 |-> s.v2, p1 |-> s.p1, p2 |-> s.p2,
          special |-> s.special, bypass |-> s.bypass]
  /\ s.bypass = NoBypass
  /\ s.on = Enabled(m, s.i)
  /\ Forward(ts, s.i.s1, s.v1) = m.gpr[s.i.s1]
  /\ Forward(ts, s.i.s2, s.v2) = m.gpr[s.i.s2]
  /\ s.p1 = Holds(m.prr, s.i.q1) /\ s.p2 = Holds(m.prr, s.i.q2)
  /\ s.special = Special(m, s.i)

OperandsInv == (\A k \in {1, 2} : OperandsOK(ex[k], machine, mw)) /\ ~ Clash(ex)

\* MW holds the results of the machine's last bundle.
ResultsInv ==
  /\ \A k \in {1, 2} :
       /\ ResultOK(mw[k])
       /\ mw[k].bypass # NoBypass => machine.gpr[mw[k].i.d] = mw[k].value
  /\ machine.late = <<mw[1].late, mw[2].late>>
  /\ ~ Clash(mw)

\* MW is yet to write, or to write again, g.
Owed(g) == \E k \in {1, 2} : mw[k].bypass # NoBypass /\ mw[k].i.d = g

\* The files are the machine's, but for what MW owes them; the predicates and
\* special registers may be those of one bundle more, if EX has run and stalled.
FilesInv ==
  /\ \A g \in GPR : ~ Owed(g) =>
       regs.gpr[g] = LoadedGpr(LoadedGpr(machine.gpr, machine.mem, Part(mw[1])),
                               machine.mem, Part(mw[2]))[g]
  /\ regs.mem = StoredMem(StoredMem(machine.mem, Part(mw[1])), Part(mw[2]))
  /\ \/ regs.prr = Full(machine.prr)
     \/ regs.prr = Full(ExecutedPrr(machine, Bundle(ex)))
  /\ regs.spr = machine.spr \/ regs.spr = ExecutedSpr(machine, Bundle(ex))

\* Programs avoid what the check of loads misjudges, from MW up to IF.
LoadsInv ==
  ChecksExact =>
    /\ mw[1].i.class = "ldt" => mw[1].on = Enabled(machine, mw[1].i)
    /\ Judged(Bundle(mw), Bundle(ex)) /\ Judged(Bundle(ex), dr)
    /\ fetched # NoBundle => Judged(dr, fetched)

\* What holds as long as no exception has ended the run.
Running == TypesInv /\ OperandsInv /\ ResultsInv /\ FilesInv /\ LoadsInv /\ rejected = NotRefused

\* The inductive invariant.
IInv ==
  /\ BypassesFree /\ IllegalJustly
  /\ error = "none" => Running

-----------------------------------------------------------------------------
\* A load keeps the file whole.
LEMMA LoadedGprOver ==
  ASSUME NEW gpr, NEW mem, NEW e, Over(GPR, gpr)
  PROVE  Over(GPR, LoadedGpr(gpr, mem, e))
BY OverUpdated DEF LoadedGpr

\* A load changes its register and no other.
LEMMA LoadedGprAt ==
  ASSUME NEW gpr, NEW mem, NEW e, Over(GPR, gpr), NEW g \in GPR
  PROVE  LoadedGpr(gpr, mem, e)[g] =
           IF e[1] = "load" /\ e[2] = g /\ g # 0 THEN mem[e[3]] ELSE gpr[g]
<1>1. CASE e[1] = "load" /\ e[2] # 0
  <2>1. LoadedGpr(gpr, mem, e) = [gpr EXCEPT ![e[2]] = mem[e[3]]]
    BY <1>1 DEF LoadedGpr
  <2>2. LoadedGpr(gpr, mem, e)[g] = IF g = e[2] THEN mem[e[3]] ELSE gpr[g]
    BY <2>1 DEF Over
  <2>3. QED
    BY <1>1, <2>2
<1>2. CASE ~ (e[1] = "load" /\ e[2] # 0)
  <2>1. LoadedGpr(gpr, mem, e) = gpr
    BY <1>2 DEF LoadedGpr
  <2>2. QED
    BY <1>2, <2>1
<1>3. QED
  BY <1>1, <1>2

\* The registers after one slot of MW.
Slotted(gpr, mem, t, e) ==
  IF t.bypass # NoBypass THEN [gpr EXCEPT ![t.i.d] = t.value] ELSE LoadedGpr(gpr, mem, e)

\* MW changes the register of a value or of a load and no other.
LEMMA SlottedAt ==
  ASSUME NEW gpr, NEW mem, NEW t, NEW e, Over(GPR, gpr)
  PROVE  /\ Over(GPR, Slotted(gpr, mem, t, e))
         /\ \A g \in GPR : Slotted(gpr, mem, t, e)[g] =
              IF t.bypass # NoBypass THEN IF t.i.d = g THEN t.value ELSE gpr[g]
              ELSE IF e[1] = "load" /\ e[2] = g /\ g # 0 THEN mem[e[3]] ELSE gpr[g]
<1>1. CASE t.bypass # NoBypass
  <2>1. Slotted(gpr, mem, t, e) = [gpr EXCEPT ![t.i.d] = t.value]
    BY <1>1 DEF Slotted
  <2>2. QED
    BY <1>1, <2>1 DEF Over
<1>2. CASE ~ (t.bypass # NoBypass)
  <2>1. Slotted(gpr, mem, t, e) = LoadedGpr(gpr, mem, e)
    BY <1>2 DEF Slotted
  <2>2. QED
    BY <1>2, <2>1, LoadedGprOver, LoadedGprAt
<1>3. QED
  BY <1>1, <1>2

\* The late effect of an access: what of it was done before the MW stage runs,
\* what the stage does, and what is done then.
LEMMA EffectsInMW ==
  ASSUME NEW t, ResultOK(t), NEW answered \in BOOLEAN
  PROVE  /\ t.on /\ t.i.class \in Accessing =>
              \/ Part(t) = t.late /\ Now(t, answered) = NotLate
                   /\ Part(AfterMW(t, answered)) = t.late
              \/ Part(t) = NotLate /\ Now(t, answered) = t.late
                   /\ Part(AfterMW(t, answered)) = t.late
              \/ Part(t) = NotLate /\ Now(t, answered) = NotLate
                   /\ Part(AfterMW(t, answered)) = NotLate
         /\ ~ (t.on /\ t.i.class \in Accessing) =>
              /\ Part(t) = NotLate /\ Part(AfterMW(t, answered)) = NotLate
              /\ Now(t, answered)[1] \notin {"load", "store"}
              /\ t.late[1] \notin {"load", "store"}
<1>1. /\ AfterMW(t, answered).done = (t.done \/ (t.on /\ t.i.class \in Accessing /\ answered))
      /\ AfterMW(t, answered).late = t.late
  BY DEF AfterMW, ResultOK
<1>2. QED
  BY <1>1 DEF ResultOK, Part, Now, Waits, Accessing, NotLate

\* Only one slot of MW accesses memory.
LEMMA OneAccess ==
  ASSUME ResultsInv
  PROVE  /\ ~ (/\ mw[1].on /\ mw[1].i.class \in Accessing
               /\ mw[2].on /\ mw[2].i.class \in Accessing)
         /\ mw[1].late[1] \in {"load", "store"} <=> mw[1].on /\ mw[1].i.class \in Accessing
         /\ mw[2].late[1] \in {"load", "store"} <=> mw[2].on /\ mw[2].i.class \in Accessing
BY DEF ResultsInv, ResultOK, Clash, Accessing

\* What MW makes of memory and of the special registers.
LEMMA MWMemory ==
  ASSUME TypesInv, ResultsInv, FilesInv, NEW answered \in BOOLEAN,
         NEW r1, r1 = MWSlot(MWSlot(regs, mw[1], answered), mw[2], answered)
  PROVE  /\ r1 = [gpr |-> r1.gpr, prr |-> r1.prr, spr |-> r1.spr, mem |-> r1.mem]
         /\ r1.prr = regs.prr
         /\ r1.spr = ProducedSpr(ProducedSpr(regs.spr, mw[1].late), mw[2].late)
         /\ r1.mem = StoredMem(StoredMem(machine.mem, Part(AfterMW(mw[1], answered))),
                               Part(AfterMW(mw[2], answered)))
<1> DEFINE r0 == MWSlot(regs, mw[1], answered)
           e1 == Now(mw[1], answered)
           e2 == Now(mw[2], answered)
<1>1. ResultOK(mw[1]) /\ ResultOK(mw[2])
  BY DEF ResultsInv
<1>2. regs = [gpr |-> regs.gpr, prr |-> regs.prr, spr |-> regs.spr, mem |-> regs.mem]
  BY DEF TypesInv, IsFile
<1>3. r0 = [gpr |-> r0.gpr, prr |-> regs.prr, spr |-> ProducedSpr(regs.spr, mw[1].late),
            mem |-> StoredMem(regs.mem, e1)]
  <2>1. r0 = [gpr |-> IF mw[1].bypass # NoBypass
                      THEN [regs.gpr EXCEPT ![mw[1].i.d] = mw[1].value]
                      ELSE LoadedGpr(regs.gpr, regs.mem, e1),
              prr |-> regs.prr, spr |-> ProducedSpr(regs.spr, mw[1].late),
              mem |-> StoredMem(regs.mem, e1)]
    BY <1>1, <1>2, MWSlotFields
  <2>2. QED
    BY <2>1
<1>4. r1 = [gpr |-> r1.gpr, prr |-> r0.prr, spr |-> ProducedSpr(r0.spr, mw[2].late),
            mem |-> StoredMem(r0.mem, e2)]
  <2>1. r0 = [gpr |-> r0.gpr, prr |-> r0.prr, spr |-> r0.spr, mem |-> r0.mem]
    BY <1>3
  <2> HIDE DEF r0
  <2>2. r1 = [gpr |-> IF mw[2].bypass # NoBypass
                      THEN [r0.gpr EXCEPT ![mw[2].i.d] = mw[2].value]
                      ELSE LoadedGpr(r0.gpr, r0.mem, e2),
              prr |-> r0.prr, spr |-> ProducedSpr(r0.spr, mw[2].late),
              mem |-> StoredMem(r0.mem, e2)]
    BY <1>1, <2>1, MWSlotFields DEF r0
  <2>3. QED
    BY <2>2
<1>5. r1.mem = StoredMem(StoredMem(regs.mem, e1), e2)
  BY <1>3, <1>4
<1>6. regs.mem = StoredMem(StoredMem(machine.mem, Part(mw[1])), Part(mw[2]))
  BY DEF FilesInv
<1>7. r1.mem = StoredMem(StoredMem(machine.mem, Part(AfterMW(mw[1], answered))),
                         Part(AfterMW(mw[2], answered)))
  <2>1. CASE mw[1].on /\ mw[1].i.class \in Accessing
    BY <1>1, <1>5, <1>6, <2>1, OneAccess, EffectsInMW DEF StoredMem, NotLate
  <2>2. CASE ~ (mw[1].on /\ mw[1].i.class \in Accessing)
    BY <1>1, <1>5, <1>6, <2>2, OneAccess, EffectsInMW DEF StoredMem, NotLate
  <2>3. QED
    BY <2>1, <2>2
<1>8. QED
  BY <1>3, <1>4, <1>7

\* What MW makes of the general purpose registers: all results are there.
LEMMA MWGpr ==
  ASSUME TypesInv, ResultsInv, FilesInv, NEW answered \in BOOLEAN,
         NEW r1, r1 = MWSlot(MWSlot(regs, mw[1], answered), mw[2], answered)
  PROVE  r1.gpr =
           LoadedGpr(LoadedGpr(machine.gpr, machine.mem, Part(AfterMW(mw[1], answered))),
                     machine.mem, Part(AfterMW(mw[2], answered)))
<1> DEFINE r0 == MWSlot(regs, mw[1], answered)
           e1 == Now(mw[1], answered)
           e2 == Now(mw[2], answered)
           p1 == Part(mw[1])
           p2 == Part(mw[2])
           q1 == Part(AfterMW(mw[1], answered))
           q2 == Part(AfterMW(mw[2], answered))
           want(f, g) == IF f[1] = "load" /\ f[2] = g /\ g # 0 THEN machine.mem[f[3]]
                         ELSE machine.gpr[g]
<1>1. ResultOK(mw[1]) /\ ResultOK(mw[2])
  BY DEF ResultsInv
<1>2. /\ regs = [gpr |-> regs.gpr, prr |-> regs.prr, spr |-> regs.spr, mem |-> regs.mem]
      /\ Over(GPR, regs.gpr)
      /\ Over(GPR, machine.gpr)
  BY DEF TypesInv, IsFile, IsMachine
<1>3. /\ r0.gpr = Slotted(regs.gpr, regs.mem, mw[1], e1)
      /\ r0.mem = StoredMem(regs.mem, e1)
      /\ r0 = [gpr |-> r0.gpr, prr |-> r0.prr, spr |-> r0.spr, mem |-> r0.mem]
  <2>1. r0 = [gpr |-> IF mw[1].bypass # NoBypass
                      THEN [regs.gpr EXCEPT ![mw[1].i.d] = mw[1].value]
                      ELSE LoadedGpr(regs.gpr, regs.mem, e1),
              prr |-> regs.prr, spr |-> ProducedSpr(regs.spr, mw[1].late),
              mem |-> StoredMem(regs.mem, e1)]
    BY <1>1, <1>2, MWSlotFields
  <2>2. QED
    BY <2>1 DEF Slotted
<1>4. r1.gpr = Slotted(r0.gpr, r0.mem, mw[2], e2)
  <2> HIDE DEF r0
  <2>1. r1 = [gpr |-> IF mw[2].bypass # NoBypass
                      THEN [r0.gpr EXCEPT ![mw[2].i.d] = mw[2].value]
                      ELSE LoadedGpr(r0.gpr, r0.mem, e2),
              prr |-> r0.prr, spr |-> ProducedSpr(r0.spr, mw[2].late),
              mem |-> StoredMem(r0.mem, e2)]
    BY <1>1, <1>3, MWSlotFields DEF r0
  <2>2. QED
    BY <2>1 DEF Slotted
<1> HIDE DEF r0
<1>5. Over(GPR, r0.gpr)
  BY <1>2, <1>3, SlottedAt
<1>6. Over(GPR, r1.gpr)
  BY <1>4, <1>5, SlottedAt
<1>7. ASSUME NEW g \in GPR
      PROVE  /\ r0.gpr[g] = IF mw[1].bypass # NoBypass
                  THEN IF mw[1].i.d = g THEN mw[1].value ELSE regs.gpr[g]
                  ELSE IF e1[1] = "load" /\ e1[2] = g /\ g # 0 THEN regs.mem[e1[3]]
                  ELSE regs.gpr[g]
             /\ r1.gpr[g] = IF mw[2].bypass # NoBypass
                  THEN IF mw[2].i.d = g THEN mw[2].value ELSE r0.gpr[g]
                  ELSE IF e2[1] = "load" /\ e2[2] = g /\ g # 0 THEN r0.mem[e2[3]]
                  ELSE r0.gpr[g]
  <2> HIDE DEF e1, e2
  <2>1. r0.gpr[g] = IF mw[1].bypass # NoBypass
                  THEN IF mw[1].i.d = g THEN mw[1].value ELSE regs.gpr[g]
                  ELSE IF e1[1] = "load" /\ e1[2] = g /\ g # 0 THEN regs.mem[e1[3]]
                  ELSE regs.gpr[g]
    BY <1>2, <1>3, SlottedAt
  <2>2. r1.gpr[g] = IF mw[2].bypass # NoBypass
                  THEN IF mw[2].i.d = g THEN mw[2].value ELSE r0.gpr[g]
                  ELSE IF e2[1] = "load" /\ e2[2] = g /\ g # 0 THEN r0.mem[e2[3]]
                  ELSE r0.gpr[g]
    BY <1>4, <1>5, SlottedAt
  <2>3. QED
    BY <2>1, <2>2
<1>8. ASSUME NEW g \in GPR, NEW f1, NEW f2
      PROVE  LoadedGpr(LoadedGpr(machine.gpr, machine.mem, f1), machine.mem, f2)[g] =
               IF f2[1] = "load" /\ f2[2] = g /\ g # 0 THEN machine.mem[f2[3]]
               ELSE want(f1, g)
  <2>1. Over(GPR, LoadedGpr(machine.gpr, machine.mem, f1))
    BY <1>2, LoadedGprOver
  <2>2. LoadedGpr(machine.gpr, machine.mem, f1)[g] = want(f1, g)
    BY <1>2, LoadedGprAt
  <2>3. QED
    BY <2>1, <2>2, LoadedGprAt
<1>9. ASSUME NEW g \in GPR, ~ Owed(g)
      PROVE  regs.gpr[g] = IF p2[1] = "load" /\ p2[2] = g /\ g # 0 THEN machine.mem[p2[3]]
                           ELSE want(p1, g)
  BY <1>8, <1>9 DEF FilesInv
<1>10. ASSUME NEW k \in {1, 2}
      PROVE  /\ Now(mw[k], answered)[1] = "load" =>
                  /\ mw[k].on /\ mw[k].i.class = "ldt" /\ mw[k].bypass = NoBypass
                  /\ Now(mw[k], answered)[2] = mw[k].i.d
             /\ Part(AfterMW(mw[k], answered))[1] = "load" =>
                  /\ mw[k].on /\ mw[k].i.class = "ldt"
                  /\ Part(AfterMW(mw[k], answered))[2] = mw[k].i.d
  <2>1. /\ Now(mw[k], answered) \in {mw[k].late, NotLate}
        /\ Part(AfterMW(mw[k], answered)) \in {mw[k].late, NotLate}
    BY <1>1, EffectsInMW DEF Now
  <2>2. /\ NotLate[1] = "none" /\ ResultOK(mw[k])
        /\ "ldt" \notin Computing
    BY <1>1 DEF NotLate, Computing
  <2> HIDE DEF e1, e2, p1, p2, q1, q2
  <2>3. QED
    BY <2>1, <2>2 DEF ResultOK
<1>11. ASSUME NEW g \in GPR
       PROVE  r1.gpr[g] = IF q2[1] = "load" /\ q2[2] = g /\ g # 0 THEN machine.mem[q2[3]]
                          ELSE want(q1, g)
  <2>1. CASE Owed(g)
    <3>1. /\ ~ (q1[1] = "load" /\ q1[2] = g /\ g # 0)
          /\ ~ (q2[1] = "load" /\ q2[2] = g /\ g # 0)
          /\ ~ (e1[1] = "load" /\ e1[2] = g /\ g # 0)
          /\ ~ (e2[1] = "load" /\ e2[2] = g /\ g # 0)
      <4>1. PICK k \in {1, 2} : mw[k].bypass # NoBypass /\ mw[k].i.d = g
        BY <2>1 DEF Owed
      <4>2. /\ mw[k].on /\ mw[k].i.class \in Computing /\ g # 0
            /\ mw[k].i.class # "ldt" /\ Target(mw[k].i) = g
        BY <1>1, <4>1 DEF ResultOK, Target, Computing
      <4>3. ASSUME NEW j \in {1, 2}, mw[j].on, mw[j].i.class = "ldt", mw[j].i.d = g
            PROVE  FALSE
        <5>1. j # k /\ Target(mw[j].i) = g
          BY <4>2, <4>3 DEF Target
        <5>2. Clash(mw)
          BY <4>2, <4>3, <5>1 DEF Clash
        <5>3. QED
          BY <5>2 DEF ResultsInv
      <4> HIDE DEF e1, e2, q1, q2
      <4>4. QED
        BY <1>10, <4>3 DEF e1, e2, q1, q2
    <3>2. r1.gpr[g] = machine.gpr[g]
      <4>1. \A k \in {1, 2} : mw[k].bypass # NoBypass /\ mw[k].i.d = g =>
              machine.gpr[g] = mw[k].value
        BY DEF ResultsInv
      <4> HIDE DEF e1, e2, q1, q2
      <4>2. QED
        BY <1>7, <2>1, <3>1, <4>1 DEF Owed
    <3>3. QED
      BY <3>1, <3>2
  <2>2. CASE ~ Owed(g)
    <3>1. (mw[1].bypass # NoBypass => mw[1].i.d # g) /\ (mw[2].bypass # NoBypass => mw[2].i.d # g)
      BY <2>2 DEF Owed
    <3>2. /\ p1 \in {mw[1].late, NotLate} /\ p2 \in {mw[2].late, NotLate}
          /\ regs.mem = StoredMem(StoredMem(machine.mem, p1), p2)
          /\ NotLate[1] = "none"
      BY DEF FilesInv, NotLate, Part
    <3>3. /\ mw[1].on /\ mw[1].i.class \in Accessing =>
               \/ p1 = mw[1].late /\ e1 = NotLate /\ q1 = mw[1].late
               \/ p1 = NotLate /\ e1 = mw[1].late /\ q1 = mw[1].late
               \/ p1 = NotLate /\ e1 = NotLate /\ q1 = NotLate
          /\ ~ (mw[1].on /\ mw[1].i.class \in Accessing) =>
               /\ p1 = NotLate /\ q1 = NotLate /\ e1[1] \notin {"load", "store"}
          /\ mw[2].on /\ mw[2].i.class \in Accessing =>
               \/ p2 = mw[2].late /\ e2 = NotLate /\ q2 = mw[2].late
               \/ p2 = NotLate /\ e2 = mw[2].late /\ q2 = mw[2].late
               \/ p2 = NotLate /\ e2 = NotLate /\ q2 = NotLate
          /\ ~ (mw[2].on /\ mw[2].i.class \in Accessing) =>
               /\ p2 = NotLate /\ q2 = NotLate /\ e2[1] \notin {"load", "store"}
      BY <1>1, EffectsInMW
    <3>4. r0.mem = StoredMem(regs.mem, e1)
      BY <1>3
    <3>5. CASE mw[1].on /\ mw[1].i.class \in Accessing
      <4>1. ~ (mw[2].on /\ mw[2].i.class \in Accessing)
        BY <3>5, OneAccess
      <4> HIDE DEF e1, e2, p1, p2, q1, q2
      <4>2. CASE mw[1].late[1] = "store"
        BY <1>7, <1>9, <2>2, <3>1, <3>2, <3>3, <3>5, <4>1, <4>2
      <4>3. CASE mw[1].late[1] # "store"
        <5>1. regs.mem = machine.mem
          BY <3>2, <3>3, <3>5, <4>1, <4>3 DEF StoredMem
        <5>2. mw[1].bypass = NoBypass
          BY <1>1, <3>5 DEF ResultOK, Computing, Accessing
        <5>3. QED
          BY <1>7, <1>9, <2>2, <3>1, <3>2, <3>3, <3>5, <4>1, <4>3, <5>1, <5>2
      <4>4. QED
        BY <4>2, <4>3
    <3>6. CASE ~ (mw[1].on /\ mw[1].i.class \in Accessing)
      <4> HIDE DEF e1, e2, p1, p2, q1, q2
      <4>1. CASE mw[2].late[1] = "store"
        BY <1>7, <1>9, <2>2, <3>1, <3>2, <3>3, <3>6, <4>1
      <4>2. CASE mw[2].late[1] # "store"
        <5>1. regs.mem = machine.mem /\ r0.mem = machine.mem
          BY <3>2, <3>3, <3>4, <3>6, <4>2 DEF StoredMem
        <5>2. mw[2].on /\ mw[2].i.class \in Accessing => mw[2].bypass = NoBypass
          BY <1>1 DEF ResultOK, Computing, Accessing
        <5>3. QED
          BY <1>7, <1>9, <2>2, <3>1, <3>2, <3>3, <3>6, <4>2, <5>1, <5>2
      <4>3. QED
        BY <4>1, <4>2
    <3>7. QED
      BY <3>5, <3>6
  <2>3. QED
    BY <2>1, <2>2
<1>12. QED
  <2> HIDE DEF q1, q2
  <2>1. Over(GPR, LoadedGpr(machine.gpr, machine.mem, q1))
    BY <1>2, LoadedGprOver
  <2>2. Over(GPR, LoadedGpr(LoadedGpr(machine.gpr, machine.mem, q1), machine.mem, q2))
    BY <2>1, LoadedGprOver
  <2>3. r1.gpr = LoadedGpr(LoadedGpr(machine.gpr, machine.mem, q1), machine.mem, q2)
    <3> DEFINE want2 == LoadedGpr(LoadedGpr(machine.gpr, machine.mem, q1), machine.mem, q2)
    <3>1. \A g \in GPR : r1.gpr[g] = want2[g]
      BY <1>8, <1>11
    <3> HIDE DEF want2
    <3>2. QED
      BY <1>6, <2>2, <3>1, OverEqual DEF want2
  <2>4. QED
    BY <2>3 DEF q1, q2
-----------------------------------------------------------------------------
\* An instruction keeps a predicate or gives it a value that does not depend on it.
LEMMA PrrKeptOrGiven ==
  ASSUME NEW f \in PredicateFile, NEW g \in PredicateFile,
         NEW on \in BOOLEAN, NEW i, NEW v, NEW p \in 0 .. NumPRR - 1
  PROVE  \/ AssignedPrr(f, on, i, v)[p] = AssignedPrr(g, on, i, v)[p]
         \/ /\ AssignedPrr(f, on, i, v)[p] = f[p]
            /\ AssignedPrr(g, on, i, v)[p] = g[p]
BY DEF AssignedPrr, PredicateFile

\* Executing a bundle keeps predicates predicates.
LEMMA PrrTyped ==
  ASSUME NEW prr \in PredicateFile, NEW on \in BOOLEAN, NEW i, NEW v,
         IsOperation(i, v)
  PROVE  AssignedPrr(prr, on, i, v) \in PredicateFile
<1>1. PredsOf(v) \in PredicateFile
  BY DEF PredsOf, PredicateFile
<1>2. QED
  BY <1>1 DEF AssignedPrr, IsOperation, PredicateFile

\* Predicate files are equal if their values are.
LEMMA PrrEqual ==
  ASSUME NEW f \in PredicateFile, NEW g \in PredicateFile,
         \A p \in 0 .. NumPRR - 1 : f[p] = g[p]
  PROVE  f = g
<1>1. Over(0 .. NumPRR - 1, f) /\ Over(0 .. NumPRR - 1, g)
  BY DEF PredicateFile, Over
<1>2. QED
  BY <1>1 DEF Over

\* Writing the predicates of a bundle again changes nothing.
LEMMA PrrWrittenAgain ==
  ASSUME NEW f \in PredicateFile,
         NEW c \in BOOLEAN, NEW i, NEW v, IsOperation(i, v),
         NEW d \in BOOLEAN, NEW j, NEW w, IsOperation(j, w)
  PROVE  LET F == AssignedPrr(AssignedPrr(f, c, i, v), d, j, w)
         IN  AssignedPrr(AssignedPrr(F, c, i, v), d, j, w) = F
<1> DEFINE f1 == AssignedPrr(f, c, i, v)
           f2 == AssignedPrr(f1, d, j, w)
           g1 == AssignedPrr(f2, c, i, v)
           g2 == AssignedPrr(g1, d, j, w)
<1>1. f1 \in PredicateFile
  BY PrrTyped
<1>2. f2 \in PredicateFile
  <2> HIDE DEF f1
  <2>1. QED
    BY <1>1, PrrTyped
<1>3. g1 \in PredicateFile
  <2> HIDE DEF f2
  <2>1. QED
    BY <1>2, PrrTyped
<1>4. g2 \in PredicateFile
  <2> HIDE DEF g1
  <2>1. QED
    BY <1>3, PrrTyped
<1>5. ASSUME NEW p \in 0 .. NumPRR - 1
      PROVE  g2[p] = f2[p]
  <2>1. f1[p] = g1[p] \/ (f1[p] = f[p] /\ g1[p] = f2[p])
    <3> HIDE DEF f2
    <3>1. \/ AssignedPrr(f, c, i, v)[p] = AssignedPrr(f2, c, i, v)[p]
          \/ /\ AssignedPrr(f, c, i, v)[p] = f[p]
             /\ AssignedPrr(f2, c, i, v)[p] = f2[p]
      BY <1>2, PrrKeptOrGiven
    <3>2. QED
      BY <3>1
  <2>2. f2[p] = g2[p] \/ (f2[p] = f1[p] /\ g2[p] = g1[p])
    <3> HIDE DEF f1, g1
    <3>1. \/ AssignedPrr(f1, d, j, w)[p] = AssignedPrr(g1, d, j, w)[p]
          \/ /\ AssignedPrr(f1, d, j, w)[p] = f1[p]
             /\ AssignedPrr(g1, d, j, w)[p] = g1[p]
      BY <1>1, <1>3, PrrKeptOrGiven
    <3>2. QED
      BY <3>1
  <2> HIDE DEF f1, f2, g1, g2
  <2>3. QED
    BY <2>1, <2>2
<1> HIDE DEF f1, f2, g1, g2
<1>6. g2 = f2
  BY <1>2, <1>4, <1>5, PrrEqual
<1>7. QED
  BY <1>6 DEF f1, f2, g1, g2

\* An instruction keeps a special register or gives it a value of its own.
LEMMA SprKeptOrGiven ==
  ASSUME NEW f, Over(SPR, f), NEW g, Over(SPR, g),
         NEW on \in BOOLEAN, NEW i, NEW v, NEW e, NEW s \in SPR
  PROVE  /\ Over(SPR, AssignedSpr(f, on, i, v))
         /\ Over(SPR, ProducedSpr(f, e))
         /\ \/ AssignedSpr(f, on, i, v)[s] = AssignedSpr(g, on, i, v)[s]
            \/ AssignedSpr(f, on, i, v)[s] = f[s] /\ AssignedSpr(g, on, i, v)[s] = g[s]
         /\ \/ ProducedSpr(f, e)[s] = ProducedSpr(g, e)[s]
            \/ ProducedSpr(f, e)[s] = f[s] /\ ProducedSpr(g, e)[s] = g[s]
<1>1. Over(SPR, [sl |-> e[2], sh |-> e[3]])
  BY DEF SPR, Over
<1>2. Over(SPR, AssignedSpr(f, on, i, v))
  BY OverUpdated DEF AssignedSpr
<1>3. Over(SPR, ProducedSpr(f, e))
  BY <1>1 DEF ProducedSpr
<1>4. \/ AssignedSpr(f, on, i, v)[s] = AssignedSpr(g, on, i, v)[s]
      \/ AssignedSpr(f, on, i, v)[s] = f[s] /\ AssignedSpr(g, on, i, v)[s] = g[s]
  <2>1. CASE on /\ i.class = "spct" /\ i.op # "s0"
    <3>1. /\ AssignedSpr(f, on, i, v) = [f EXCEPT ![i.op] = v]
          /\ AssignedSpr(g, on, i, v) = [g EXCEPT ![i.op] = v]
      BY <2>1 DEF AssignedSpr
    <3>2. QED
      BY <3>1 DEF Over
  <2>2. CASE ~ (on /\ i.class = "spct" /\ i.op # "s0")
    BY <2>2 DEF AssignedSpr
  <2>3. QED
    BY <2>1, <2>2
<1>5. \/ ProducedSpr(f, e)[s] = ProducedSpr(g, e)[s]
      \/ ProducedSpr(f, e)[s] = f[s] /\ ProducedSpr(g, e)[s] = g[s]
  BY DEF ProducedSpr
<1>6. QED
  BY <1>2, <1>3, <1>4, <1>5

\* Writing the special registers of a bundle again changes nothing.
LEMMA SprWrittenAgain ==
  ASSUME NEW f, Over(SPR, f), NEW e, NEW h,
         NEW c \in BOOLEAN, NEW i, NEW v, NEW d \in BOOLEAN, NEW j, NEW w
  PROVE  LET F == AssignedSpr(AssignedSpr(ProducedSpr(ProducedSpr(f, e), h), c, i, v), d, j, w)
         IN  /\ AssignedSpr(AssignedSpr(ProducedSpr(ProducedSpr(F, e), h), c, i, v), d, j, w) = F
             /\ Over(SPR, F)
<1> DEFINE f1 == ProducedSpr(f, e)
           f2 == ProducedSpr(f1, h)
           f3 == AssignedSpr(f2, c, i, v)
           f4 == AssignedSpr(f3, d, j, w)
           g1 == ProducedSpr(f4, e)
           g2 == ProducedSpr(g1, h)
           g3 == AssignedSpr(g2, c, i, v)
           g4 == AssignedSpr(g3, d, j, w)
<1> HIDE DEF f1, f2, f3, f4, g1, g2, g3, g4
<1>0. "sl" \in SPR
  BY DEF SPR
<1>1. Over(SPR, f1)
  BY <1>0, SprKeptOrGiven DEF f1
<1>2. Over(SPR, f2)
  BY <1>0, <1>1, SprKeptOrGiven DEF f2
<1>3. Over(SPR, f3)
  BY <1>0, <1>2, SprKeptOrGiven DEF f3
<1>4. Over(SPR, f4)
  BY <1>0, <1>3, SprKeptOrGiven DEF f4
<1>5. Over(SPR, g1)
  BY <1>0, <1>4, SprKeptOrGiven DEF g1
<1>6. Over(SPR, g2)
  BY <1>0, <1>5, SprKeptOrGiven DEF g2
<1>7. Over(SPR, g3)
  BY <1>0, <1>6, SprKeptOrGiven DEF g3
<1>8. Over(SPR, g4)
  BY <1>0, <1>7, SprKeptOrGiven DEF g4
<1>9. ASSUME NEW s \in SPR
      PROVE  g4[s] = f4[s]
  <2>1. f1[s] = g1[s] \/ (f1[s] = f[s] /\ g1[s] = f4[s])
    BY <1>4, SprKeptOrGiven DEF f1, g1
  <2>2. f2[s] = g2[s] \/ (f2[s] = f1[s] /\ g2[s] = g1[s])
    BY <1>1, <1>5, SprKeptOrGiven DEF f2, g2
  <2>3. f3[s] = g3[s] \/ (f3[s] = f2[s] /\ g3[s] = g2[s])
    BY <1>2, <1>6, SprKeptOrGiven DEF f3, g3
  <2>4. f4[s] = g4[s] \/ (f4[s] = f3[s] /\ g4[s] = g3[s])
    BY <1>3, <1>7, SprKeptOrGiven DEF f4, g4
  <2>5. QED
    BY <2>1, <2>2, <2>3, <2>4
<1>10. g4 = f4
  BY <1>4, <1>8, <1>9, OverEqual
<1>11. QED
  BY <1>4, <1>10 DEF f1, f2, f3, f4, g1, g2, g3, g4

-----------------------------------------------------------------------------
\* What EX computes is what the program is to see.
LEMMA EXComputes ==
  ASSUME TypesInv, OperandsInv, NEW k \in {1, 2}, NEW t, t = EXSlot(ex[k], mw)
  PROVE  /\ t.i = ex[k].i /\ t.on = Enabled(machine, t.i) /\ t.on \in BOOLEAN
         /\ t.value = Operated(machine, t.i) /\ t.late = Delayed(machine, t.i)
         /\ t.done = FALSE
         /\ ResultOK(t) /\ IsInstruction(t.i) /\ IsOperation(t.i, t.value)
         /\ ~ BypassTaken(ex[k])
<1>1. /\ OperandsOK(ex[k], machine, mw) /\ IsInstruction(ex[k].i) /\ IsMachine(machine)
  BY DEF TypesInv, OperandsInv
<1>2. Enabled(machine, ex[k].i) \in BOOLEAN
  BY <1>1 DEF Enabled, Holds
<1> DEFINE a == Forward(mw, ex[k].i.s1, ex[k].v1)
           b == Forward(mw, ex[k].i.s2, ex[k].v2)
           v == Value(ex[k].i, a, b, ex[k].p1, ex[k].p2, ex[k].special)
<1>3. v = Operated(machine, ex[k].i)
  BY <1>1 DEF OperandsOK, Operated
<1>4. t = [i |-> ex[k].i, on |-> ex[k].on, value |-> v, done |-> FALSE,
           late |-> IF ex[k].on THEN Late(ex[k].i, a, b) ELSE NotLate,
           bypass |-> IF ex[k].on /\ ex[k].i.class \in Computing /\ ex[k].i.d # 0
                      THEN <<ex[k].i.d, v>> ELSE ex[k].bypass]
  BY DEF EXSlot
<1>5. t.late = Delayed(machine, ex[k].i)
  BY <1>1, <1>4 DEF OperandsOK, Delayed
<1>6. IsOperation(ex[k].i, v)
  BY <1>1, <1>3, OperatedIsOperation
<1>7. ResultOK(t)
  <2>1. Late(ex[k].i, a, b)[1] = IF ex[k].i.class = "ldt" THEN "load"
                 ELSE IF ex[k].i.class = "stt" THEN "store"
                 ELSE IF ex[k].i.class = "alum" THEN "product" ELSE "none"
    BY DEF Late, NotLate
  <2>2. ex[k].i.class = "ldt" => Late(ex[k].i, a, b)[2] = ex[k].i.d
    BY DEF Late
  <2>3. NotLate[1] = "none"
    BY DEF NotLate
  <2>4. ex[k].on \in BOOLEAN /\ ex[k].bypass = NoBypass
    BY <1>1, <1>2 DEF OperandsOK
  <2> HIDE DEF a, b, v
  <2>5. QED
    BY <1>4, <2>1, <2>2, <2>3, <2>4 DEF ResultOK
<1>8. ~ BypassTaken(ex[k])
  BY <1>1 DEF BypassTaken, OperandsOK
<1>9. QED
  BY <1>1, <1>2, <1>3, <1>4, <1>5, <1>6, <1>7, <1>8 DEF OperandsOK

\* What EX leaves of predicates and special registers, however often it runs.
LEMMA EXWritten ==
  ASSUME TypesInv, OperandsInv, ResultsInv, FilesInv, NEW answered \in BOOLEAN,
         NEW r1, r1 = MWSlot(MWSlot(regs, mw[1], answered), mw[2], answered),
         NEW t1, t1 = EXSlot(ex[1], mw), NEW t2, t2 = EXSlot(ex[2], mw),
         NEW r2, r2 = EXWrites(EXWrites(r1, t1), t2)
  PROVE  /\ r2 = [gpr |-> r1.gpr, prr |-> Full(ExecutedPrr(machine, Bundle(ex))),
                  spr |-> ExecutedSpr(machine, Bundle(ex)), mem |-> r1.mem]
         /\ ExecutedPrr(machine, Bundle(ex)) \in PredicateFile
         /\ IsFile(r2)
<1> DEFINE b == Bundle(ex)
<1>1. /\ t1.i = b[1] /\ t1.on = Enabled(machine, b[1]) /\ t1.on \in BOOLEAN
      /\ t1.value = Operated(machine, b[1])
      /\ IsInstruction(t1.i) /\ IsOperation(t1.i, t1.value)
  BY EXComputes DEF Bundle
<1>2. /\ t2.i = b[2] /\ t2.on = Enabled(machine, b[2]) /\ t2.on \in BOOLEAN
      /\ t2.value = Operated(machine, b[2])
      /\ IsInstruction(t2.i) /\ IsOperation(t2.i, t2.value)
  BY EXComputes DEF Bundle
<1>3. /\ r1 = [gpr |-> r1.gpr, prr |-> r1.prr, spr |-> r1.spr, mem |-> r1.mem]
      /\ r1.prr = regs.prr
      /\ r1.spr = ProducedSpr(ProducedSpr(regs.spr, machine.late[1]), machine.late[2])
      /\ machine.prr \in PredicateFile
      /\ Over(SPR, machine.spr)
  BY MWMemory DEF ResultsInv, TypesInv, IsMachine
<1> HIDE DEF b
<1>4. ExecutedPrr(machine, b) =
        AssignedPrr(AssignedPrr(machine.prr, t1.on, t1.i, t1.value), t2.on, t2.i, t2.value)
  BY <1>1, <1>2 DEF ExecutedPrr
<1>5. ExecutedPrr(machine, b) \in PredicateFile
  <2>1. AssignedPrr(machine.prr, t1.on, t1.i, t1.value) \in PredicateFile
    BY <1>1, <1>3, PrrTyped
  <2>2. QED
    BY <1>2, <1>4, <2>1, PrrTyped
<1>6. PICK prr \in {machine.prr, ExecutedPrr(machine, b)} : regs.prr = Full(prr)
  BY DEF FilesInv, b
<1>7. AssignedPrr(AssignedPrr(prr, t1.on, t1.i, t1.value), t2.on, t2.i, t2.value)
        = ExecutedPrr(machine, b)
  BY <1>1, <1>2, <1>3, <1>4, <1>6, PrrWrittenAgain
<1>8. ExecutedSpr(machine, b) =
        AssignedSpr(AssignedSpr(
          ProducedSpr(ProducedSpr(machine.spr, machine.late[1]), machine.late[2]),
          t1.on, t1.i, t1.value), t2.on, t2.i, t2.value)
  BY <1>1, <1>2 DEF ExecutedSpr
<1>9. /\ AssignedSpr(AssignedSpr(r1.spr, t1.on, t1.i, t1.value), t2.on, t2.i, t2.value)
           = ExecutedSpr(machine, b)
      /\ Over(SPR, ExecutedSpr(machine, b))
  <2>1. /\ AssignedSpr(AssignedSpr(
             ProducedSpr(ProducedSpr(ExecutedSpr(machine, b), machine.late[1]), machine.late[2]),
             t1.on, t1.i, t1.value), t2.on, t2.i, t2.value) = ExecutedSpr(machine, b)
        /\ Over(SPR, ExecutedSpr(machine, b))
    BY <1>1, <1>2, <1>3, <1>8, SprWrittenAgain
  <2>2. regs.spr = machine.spr \/ regs.spr = ExecutedSpr(machine, b)
    BY DEF FilesInv, b
  <2>3. QED
    BY <1>3, <1>8, <2>1, <2>2
<1>10. PICK q \in PredicateFile :
         /\ q = AssignedPrr(prr, t1.on, t1.i, t1.value)
         /\ EXWrites(r1, t1) = [gpr |-> r1.gpr, prr |-> Full(q),
              spr |-> AssignedSpr(r1.spr, t1.on, t1.i, t1.value), mem |-> r1.mem]
  BY <1>1, <1>3, <1>5, <1>6, EXWritesFields
<1>11. r2 = [gpr |-> r1.gpr, prr |-> Full(AssignedPrr(q, t2.on, t2.i, t2.value)),
             spr |-> AssignedSpr(AssignedSpr(r1.spr, t1.on, t1.i, t1.value), t2.on, t2.i,
                                 t2.value),
             mem |-> r1.mem]
  <2>1. PICK r : r = EXWrites(r1, t1)
    OBVIOUS
  <2>2. /\ r = [gpr |-> r.gpr, prr |-> r.prr, spr |-> r.spr, mem |-> r.mem]
        /\ r.prr = Full(q) /\ r.gpr = r1.gpr /\ r.mem = r1.mem
        /\ r.spr = AssignedSpr(r1.spr, t1.on, t1.i, t1.value)
    BY <1>10, <2>1
  <2>3. r2 = EXWrites(r, t2)
    BY <2>1
  <2>4. QED
    BY <1>2, <2>2, <2>3, EXWritesFields
<1>12. r2 = [gpr |-> r1.gpr, prr |-> Full(ExecutedPrr(machine, b)),
             spr |-> ExecutedSpr(machine, b), mem |-> r1.mem]
  BY <1>7, <1>9, <1>10, <1>11
<1>13. IsFile(r2)
  <2>1. Over(GPR, machine.gpr)
    BY DEF TypesInv, IsMachine
  <2>2. Over(GPR, r1.gpr)
    BY <2>1, MWGpr, LoadedGprOver
  <2>3. QED
    BY <1>9, <1>12, <2>2 DEF IsFile
<1>14. QED
  BY <1>5, <1>12, <1>13 DEF b
-----------------------------------------------------------------------------
\* Reading the file, negated or not, is reading the predicates.
LEMMA GetIsHolds ==
  ASSUME NEW prr \in PredicateFile, NEW q \in Predicates
  PROVE  Get(Full(prr), q) = Holds(prr, q)
<1>1. q.reg \in 0 .. NumPRR - 1 /\ q.neg \in BOOLEAN
  BY DEF Predicates
<1>2. CASE q.neg
  <2>1. Get(Full(prr), q) = Full(prr)[NumPRR + q.reg]
    BY <1>1, <1>2, BundlesAssumption DEF Get
  <2>2. Holds(prr, q) = ~ prr[q.reg]
    BY <1>1, <1>2 DEF Holds
  <2>3. QED
    BY <1>1, <2>1, <2>2, FullAt
<1>3. CASE ~ q.neg
  <2>1. Get(Full(prr), q) = Full(prr)[q.reg]
    BY <1>1, <1>3, BundlesAssumption DEF Get
  <2>2. Holds(prr, q) = prr[q.reg]
    BY <1>1, <1>3 DEF Holds, PredicateFile
  <2>3. QED
    BY <1>1, <2>1, <2>2, FullAt
<1>4. QED
  BY <1>1, <1>2, <1>3

\* What DR reads, when the machine is what the by-passes make of the registers.
LEMMA DRReads ==
  ASSUME NEW r, NEW m, NEW ts, NEW i, IsInstruction(i),
         m.prr \in PredicateFile, r.prr = Full(m.prr), r.spr = m.spr,
         \A g \in GPR : m.gpr[g] = Forward(ts, g, r.gpr[g])
  PROVE  /\ OperandsOK(DRSlot(r, i), m, ts) /\ DRSlot(r, i).i = i
         /\ DRSlot(r, i).on = Get(r.prr, i.guard)
<1>1. /\ i.guard \in Predicates /\ i.q1 \in Predicates /\ i.q2 \in Predicates
      /\ i.s1 \in GPR /\ i.s2 \in GPR
  BY DEF IsInstruction
<1>2. WordOfPreds(r.prr) = WordOfPreds(m.prr)
  <2>1. \A p \in 0 .. NumPRR - 1 : r.prr[p] = m.prr[p]
    BY FullAt
  <2>2. {p \in 0 .. NumPRR - 1 : r.prr[p]} = {p \in 0 .. NumPRR - 1 : m.prr[p]}
    BY <2>1
  <2>3. QED
    BY <2>2 DEF WordOfPreds
<1>3. /\ Get(r.prr, i.guard) = Enabled(m, i)
      /\ Get(r.prr, i.q1) = Holds(m.prr, i.q1) /\ Get(r.prr, i.q2) = Holds(m.prr, i.q2)
  BY <1>1, GetIsHolds DEF Enabled
<1>4. DRSlot(r, i) =
        [i |-> i, on |-> Enabled(m, i), v1 |-> r.gpr[i.s1], v2 |-> r.gpr[i.s2],
         p1 |-> Holds(m.prr, i.q1), p2 |-> Holds(m.prr, i.q2),
         special |-> Special(m, i), bypass |-> NoBypass]
  BY <1>2, <1>3 DEF DRSlot, Special
<1>5. QED
  BY <1>1, <1>3, <1>4 DEF OperandsOK

\* DR judges the clash of two slots as the machine does.
LEMMA IllegalIsConflict ==
  ASSUME NEW r, NEW m, NEW b, IsInstruction(b[1]), IsInstruction(b[2]),
         m.prr \in PredicateFile, r.prr = Full(m.prr)
  PROVE  IllegalBundle(r, b) <=> Conflicts(m, b)
<1>1. b[1].guard \in Predicates /\ b[2].guard \in Predicates
  BY DEF IsInstruction
<1>2. Get(r.prr, b[1].guard) = Enabled(m, b[1]) /\ Get(r.prr, b[2].guard) = Enabled(m, b[2])
  BY <1>1, GetIsHolds DEF Enabled
<1>3. QED
  BY <1>2 DEF IllegalBundle, Conflicts

\* What executing the bundle in EX makes of the machine.
LEMMA BundleExecuted ==
  ASSUME TypesInv, OperandsInv
  PROVE  /\ Executed(machine, Bundle(ex)) =
              [gpr |-> ExecutedGpr(machine, Bundle(ex)),
               prr |-> ExecutedPrr(machine, Bundle(ex)),
               spr |-> ExecutedSpr(machine, Bundle(ex)), mem |-> ExecutedMem(machine),
               late |-> <<Delayed(machine, ex[1].i), Delayed(machine, ex[2].i)>>,
               last |-> Bundle(ex)]
         /\ ~ Conflicts(machine, Bundle(ex))
<1>1. /\ Bundle(ex) = <<ex[1].i, ex[2].i>>
      /\ Bundle(ex)[1] = ex[1].i /\ Bundle(ex)[2] = ex[2].i
  BY DEF Bundle
<1>2. Enabled(machine, ex[1].i) \in BOOLEAN /\ Enabled(machine, ex[2].i) \in BOOLEAN
  BY EXComputes
<1>3. IsMachine(machine)
  BY DEF TypesInv
<1>4. ex[1].on = Enabled(machine, ex[1].i) /\ ex[2].on = Enabled(machine, ex[2].i)
  BY DEF OperandsInv, OperandsOK
<1>5. ~ Conflicts(machine, Bundle(ex))
  BY <1>1, <1>4 DEF OperandsInv, Conflicts, Clash
<1>6. QED
  BY <1>1, <1>2, <1>3, <1>5, ExecutedFields

\* When nothing waits, what leaves EX is the machine after one more bundle.
LEMMA SettledIsExecuted ==
  ASSUME TypesInv, OperandsInv, ResultsInv, FilesInv, NEW answered \in BOOLEAN,
         ~ Waits(mw[1], answered), ~ Waits(mw[2], answered),
         NEW r1, r1 = MWSlot(MWSlot(regs, mw[1], answered), mw[2], answered),
         NEW ts, ts = <<EXSlot(ex[1], mw), EXSlot(ex[2], mw)>>,
         NEW r2, r2 = EXWrites(EXWrites(r1, ts[1]), ts[2])
  PROVE  Settled(r2, ts) = Executed(machine, Bundle(ex))
<1> DEFINE b == Bundle(ex)
           l1 == mw[1].late
           l2 == mw[2].late
           loaded == LoadedGpr(LoadedGpr(machine.gpr, machine.mem, l1),
                               StoredMem(machine.mem, l1), l2)
<1>1. /\ ts[1] = EXSlot(ex[1], mw) /\ ts[2] = EXSlot(ex[2], mw)
  OBVIOUS
<1>2. /\ r2 = [gpr |-> r1.gpr, prr |-> Full(ExecutedPrr(machine, b)),
               spr |-> ExecutedSpr(machine, b), mem |-> r1.mem]
      /\ ExecutedPrr(machine, b) \in PredicateFile
  BY <1>1, EXWritten
<1>3. ASSUME NEW k \in {1, 2}
      PROVE  /\ Part(AfterMW(mw[k], answered))[1] \in {"load", "store"} \/ mw[k].late[1] \in {"load", "store"}
                  => Part(AfterMW(mw[k], answered)) = mw[k].late
             /\ ResultOK(mw[k])
  <2>1. ~ Waits(mw[k], answered) /\ ResultOK(mw[k])
    BY DEF ResultsInv
  <2>2. CASE mw[k].on /\ mw[k].i.class \in Accessing
    <3>1. AfterMW(mw[k], answered).done /\ AfterMW(mw[k], answered).late = mw[k].late
      BY <2>1, <2>2 DEF ResultOK, AfterMW, Waits
    <3>2. QED
      BY <2>1, <3>1 DEF Part
  <2>3. CASE ~ (mw[k].on /\ mw[k].i.class \in Accessing)
    BY <2>1, <2>3, EffectsInMW DEF NotLate
  <2>4. QED
    BY <2>2, <2>3
<1>4. r1.mem = ExecutedMem(machine)
  <2>1. /\ r1.mem = StoredMem(StoredMem(machine.mem, Part(AfterMW(mw[1], answered))),
                              Part(AfterMW(mw[2], answered)))
        /\ machine.late[1] = l1 /\ machine.late[2] = l2
    BY MWMemory DEF ResultsInv
  <2>2. QED
    BY <1>3, <2>1 DEF ExecutedMem, StoredMem
<1>5. r1.gpr = loaded
  <2>1. r1.gpr = LoadedGpr(LoadedGpr(machine.gpr, machine.mem, Part(AfterMW(mw[1], answered))),
                           machine.mem, Part(AfterMW(mw[2], answered)))
    BY MWGpr
  <2>2. r1.gpr = LoadedGpr(LoadedGpr(machine.gpr, machine.mem, l1), machine.mem, l2)
    BY <1>3, <2>1 DEF LoadedGpr
  <2>3. l1[1] = "store" => l2[1] # "load"
    BY OneAccess
  <2>4. QED
    BY <2>2, <2>3 DEF LoadedGpr, StoredMem
<1>6. /\ ts[1].i = b[1] /\ ts[1].on = Enabled(machine, b[1]) /\ ts[1].on \in BOOLEAN
      /\ ts[1].value = Operated(machine, b[1]) /\ ts[1].late = Delayed(machine, b[1])
      /\ ResultOK(ts[1]) /\ IsInstruction(b[1])
  BY <1>1, EXComputes DEF Bundle
<1>7. /\ ts[2].i = b[2] /\ ts[2].on = Enabled(machine, b[2]) /\ ts[2].on \in BOOLEAN
      /\ ts[2].value = Operated(machine, b[2]) /\ ts[2].late = Delayed(machine, b[2])
      /\ ResultOK(ts[2]) /\ IsInstruction(b[2])
  BY <1>1, EXComputes DEF Bundle
<1>8. b = <<ts[1].i, ts[2].i>> /\ b[1] = ex[1].i /\ b[2] = ex[2].i
  BY <1>6, <1>7 DEF Bundle
<1>9. [g \in GPR |-> Forward(ts, g, r1.gpr[g])] = ExecutedGpr(machine, b)
  <2> DEFINE a1 == AssignedGpr(loaded, ts[1].on, b[1], ts[1].value)
             a2 == AssignedGpr(a1, ts[2].on, b[2], ts[2].value)
  <2>1. machine.late[1] = l1 /\ machine.late[2] = l2
    BY DEF ResultsInv
  <2>2. ExecutedGpr(machine, b) = a2
    BY <1>6, <1>7, <2>1 DEF ExecutedGpr
  <2>3. Over(GPR, machine.gpr)
    BY DEF TypesInv, IsMachine
  <2>4. Over(GPR, loaded)
    BY <2>3, LoadedGprOver
  <2> HIDE DEF loaded, b
  <2>5. a1 = [g \in GPR |-> IF ts[1].bypass # NoBypass /\ ts[1].i.d = g THEN ts[1].value
                            ELSE loaded[g]]
    <3>1. ts[1].bypass # NoBypass <=> ts[1].on /\ Target(b[1]) # 0 /\ b[1].class \in Computing
      BY <1>6 DEF ResultOK, NoBypass, Target
    <3>2. CASE ts[1].bypass # NoBypass
      <4>1. a1 = [loaded EXCEPT ![b[1].d] = ts[1].value]
        BY <3>1, <3>2 DEF AssignedGpr
      <4>2. QED
        BY <1>6, <2>4, <3>2, <4>1 DEF Over
    <3>3. CASE ~ (ts[1].bypass # NoBypass)
      <4>1. a1 = loaded
        BY <3>1, <3>3 DEF AssignedGpr
      <4>2. QED
        BY <2>4, <3>3, <4>1 DEF Over
    <3>4. QED
      BY <3>2, <3>3
  <2> HIDE DEF a1
  <2>6. a2 = [g \in GPR |-> IF ts[2].bypass # NoBypass /\ ts[2].i.d = g THEN ts[2].value
                            ELSE a1[g]]
    <3>1. ts[2].bypass # NoBypass <=> ts[2].on /\ Target(b[2]) # 0 /\ b[2].class \in Computing
      BY <1>7 DEF ResultOK, NoBypass, Target
    <3>2. CASE ts[2].bypass # NoBypass
      BY <1>7, <2>5, <3>1, <3>2 DEF AssignedGpr
    <3>3. CASE ~ (ts[2].bypass # NoBypass)
      BY <1>7, <2>5, <3>1, <3>3 DEF AssignedGpr
    <3>4. QED
      BY <3>2, <3>3
  <2>7. ASSUME NEW g \in GPR
        PROVE  Forward(ts, g, r1.gpr[g]) = a2[g]
    <3>1. /\ ts[1].bypass = IF ts[1].bypass # NoBypass THEN <<ts[1].i.d, ts[1].value>> ELSE NoBypass
          /\ ts[2].bypass = IF ts[2].bypass # NoBypass THEN <<ts[2].i.d, ts[2].value>> ELSE NoBypass
      BY <1>6, <1>7 DEF ResultOK
    <3>2. r1.gpr[g] = loaded[g]
      BY <1>5
    <3> HIDE DEF a2
    <3>3. QED
      BY <2>5, <2>6, <3>1, <3>2 DEF Forward, Through
  <2>8. QED
    BY <2>2, <2>6, <2>7
<1>10. [p \in 0 .. NumPRR - 1 |-> r2.prr[p]] = ExecutedPrr(machine, b)
  <2> DEFINE prr == ExecutedPrr(machine, b)
  <2> HIDE DEF prr
  <2>1. \A p \in 0 .. NumPRR - 1 : r2.prr[p] = prr[p]
    BY <1>2, FullAt DEF prr
  <2>2. Over(0 .. NumPRR - 1, prr)
    BY <1>2 DEF PredicateFile, Over, prr
  <2>3. [p \in 0 .. NumPRR - 1 |-> r2.prr[p]] = prr
    BY <2>1, <2>2 DEF Over
  <2>4. QED
    BY <2>3 DEF prr
<1>11. Settled(r2, ts) =
         [gpr |-> ExecutedGpr(machine, b), prr |-> ExecutedPrr(machine, b),
          spr |-> ExecutedSpr(machine, b), mem |-> ExecutedMem(machine),
          late |-> <<Delayed(machine, b[1]), Delayed(machine, b[2])>>, last |-> b]
  <2>1. r2.gpr = r1.gpr /\ r2.spr = ExecutedSpr(machine, b) /\ r2.mem = ExecutedMem(machine)
    BY <1>2, <1>4
  <2>2. Settled(r2, ts) =
          [gpr |-> [g \in GPR |-> Forward(ts, g, r1.gpr[g])],
           prr |-> [p \in 0 .. NumPRR - 1 |-> r2.prr[p]],
           spr |-> r2.spr, mem |-> r2.mem, late |-> <<ts[1].late, ts[2].late>>,
           last |-> <<ts[1].i, ts[2].i>>]
    BY <2>1 DEF Settled
  <2> HIDE DEF b
  <2>3. QED
    BY <1>6, <1>7, <1>8, <1>9, <1>10, <2>1, <2>2
<1>12. QED
  BY <1>8, <1>11, BundleExecuted
-----------------------------------------------------------------------------
\* The classes that may write a predicate.
Writers == {"aluc", "aluci", "alup", "spct"}

\* Without them the predicates stay.
LEMMA PrrKept ==
  ASSUME NEW m, NEW b, b[1].class \notin Writers, b[2].class \notin Writers
  PROVE  ExecutedPrr(m, b) = m.prr
BY DEF ExecutedPrr, AssignedPrr, Writers

\* Where programs avoid what it misjudges, the check of loads is exact.
LEMMA HazardIsNeed ==
  ASSUME TypesInv, OperandsInv, ResultsInv, LoadsInv, ChecksExact,
         NEW r2, r2.prr = Full(ExecutedPrr(machine, Bundle(ex))),
         ExecutedPrr(machine, Bundle(ex)) \in PredicateFile
  PROVE  LoadHazard(r2) <=> NeedsLoad(machine, Bundle(ex))
<1>1. /\ Bundle(ex)[1] = ex[1].i /\ Bundle(ex)[2] = ex[2].i
      /\ Bundle(mw)[1] = mw[1].i /\ Bundle(mw)[2] = mw[2].i
      /\ machine.late[1] = mw[1].late /\ machine.late[2] = mw[2].late
      /\ ResultOK(mw[1]) /\ ResultOK(mw[2])
  BY DEF Bundle, ResultsInv
<1>2. Judged(Bundle(mw), Bundle(ex))
  BY DEF LoadsInv
<1>3. ~ (mw[2].i.class = "ldt" /\ \E k \in {1, 2} : mw[2].i.d \in Sources(ex[k].i))
  BY <1>1, <1>2 DEF Judged
<1>4. NeedsLoad(machine, Bundle(ex)) <=>
        /\ mw[1].on /\ mw[1].i.class = "ldt" /\ mw[1].i.d # 0
        /\ \E k \in {1, 2} : Enabled(machine, ex[k].i) /\ mw[1].i.d \in Sources(ex[k].i)
  <2>1. ASSUME NEW j \in {1, 2}
        PROVE  mw[j].late[1] = "load" <=> mw[j].on /\ mw[j].i.class = "ldt"
    BY <1>1 DEF ResultOK
  <2>2. NeedsLoad(machine, Bundle(ex)) <=>
          \/ /\ mw[1].late[1] = "load" /\ mw[1].late[2] # 0
             /\ \E k \in {1, 2} : Enabled(machine, ex[k].i) /\ mw[1].late[2] \in Sources(ex[k].i)
          \/ /\ mw[2].late[1] = "load" /\ mw[2].late[2] # 0
             /\ \E k \in {1, 2} : Enabled(machine, ex[k].i) /\ mw[2].late[2] \in Sources(ex[k].i)
    BY <1>1 DEF NeedsLoad
  <2>3. /\ mw[1].late[1] = "load" => mw[1].late[2] = mw[1].i.d
        /\ mw[2].late[1] = "load" => mw[2].late[2] = mw[2].i.d
    BY <1>1 DEF ResultOK
  <2>4. QED
    BY <1>3, <2>1, <2>2, <2>3
<1>5. CASE mw[1].i.class = "ldt"
  <2>1. /\ ex[1].i.class \notin Writers /\ ex[2].i.class \notin Writers
    BY <1>1, <1>2, <1>5 DEF Judged, Writers
  <2>2. r2.prr = Full(machine.prr) /\ machine.prr \in PredicateFile
    BY <1>1, <2>1, PrrKept DEF TypesInv, IsMachine
  <2>3. /\ mw[1].i.guard \in Predicates /\ ex[1].i.guard \in Predicates
        /\ ex[2].i.guard \in Predicates
    BY DEF TypesInv, IsInstruction
  <2>4. /\ Get(r2.prr, mw[1].i.guard) = Enabled(machine, mw[1].i)
        /\ Get(r2.prr, ex[1].i.guard) = Enabled(machine, ex[1].i)
        /\ Get(r2.prr, ex[2].i.guard) = Enabled(machine, ex[2].i)
    BY <2>2, <2>3, GetIsHolds DEF Enabled
  <2>5. mw[1].on = Enabled(machine, mw[1].i)
    BY <1>5 DEF LoadsInv
  <2>6. QED
    BY <1>4, <1>5, <2>4, <2>5 DEF LoadHazard
<1>6. CASE mw[1].i.class # "ldt"
  BY <1>4, <1>6 DEF LoadHazard
<1>7. QED
  BY <1>5, <1>6

-----------------------------------------------------------------------------
\* The bubble is made of instructions.
LEMMA NopIsInstruction == IsInstruction(Nop)
<1>1. /\ 0 \in GPR /\ 0 \in 0 .. NumPRR - 1
  BY BundlesAssumption DEF GPR
<1>2. Pred(0) \in Predicates
  BY <1>1 DEF Pred, Predicates
<1>3. QED
  BY <1>1, <1>2 DEF IsInstruction, Nop, Instr, Computing

\* The invariant holds at first.
LEMMA InitIInv == Init => IInv
<1> SUFFICES ASSUME Init PROVE IInv
  OBVIOUS
<1>1. PICK image \in [0 .. NumWords - 1 -> Image] :
        machine = [gpr |-> [r \in GPR |-> 0], prr |-> [p \in 0 .. NumPRR - 1 |-> p = 0],
                   spr |-> [r \in SPR |-> 0], mem |-> image,
                   late |-> <<NotLate, NotLate>>, last |-> Bubble]
  BY DEF Init, MachineInit, Bubble
<1>2. /\ IsMachine(machine) /\ rejected = NotRefused
      /\ machine.late = <<NotLate, NotLate>> /\ machine.last = Bubble
  BY <1>1 DEF IsMachine, Init, MachineInit, Over, PredicateFile
<1>3. regs.prr = Full(machine.prr)
  <2>1. regs.prr = [p \in 0 .. 2 * NumPRR - 1 |-> p = 0 \/ p > NumPRR]
    BY DEF Init
  <2>2. machine.prr = [p \in 0 .. NumPRR - 1 |-> p = 0]
    BY <1>1
  <2>3. ASSUME NEW p \in 0 .. NumPRR - 1
        PROVE  regs.prr[p] = machine.prr[p] /\ regs.prr[NumPRR + p] = ~ machine.prr[p]
    <3>1. /\ NumPRR \in Nat /\ p \in 0 .. 2 * NumPRR - 1 /\ ~ (p > NumPRR)
          /\ NumPRR + p \in 0 .. 2 * NumPRR - 1 /\ NumPRR + p # 0
          /\ (NumPRR + p > NumPRR <=> ~ (p = 0))
      BY BundlesAssumption
    <3>2. machine.prr[p] = (p = 0)
      BY <2>2
    <3>3. regs.prr[p] = (p = 0 \/ p > NumPRR)
      BY <2>1, <3>1
    <3>4. regs.prr[NumPRR + p] = (NumPRR + p = 0 \/ NumPRR + p > NumPRR)
      BY <2>1, <3>1
    <3>5. QED
      BY <3>1, <3>2, <3>3, <3>4
  <2>4. Over(0 .. 2 * NumPRR - 1, regs.prr)
    BY <2>1 DEF Over
  <2>5. QED
    BY <1>2, <2>3, <2>4, FullByHalves DEF IsMachine
<1>4. /\ regs.gpr = machine.gpr /\ regs.spr = machine.spr /\ regs.mem = machine.mem
      /\ IsFile(regs)
  BY <1>2 DEF Init, IsFile, IsMachine
<1>5. /\ dr = Bubble /\ dr[1] = Nop /\ dr[2] = Nop
      /\ ex[1] = DRSlot(regs, Nop) /\ ex[2] = DRSlot(regs, Nop)
      /\ fetched = NoBundle /\ program \in Programs /\ error = "none"
  BY DEF Init, Bubble
<1>6. ASSUME NEW k \in {1, 2}
      PROVE  mw[k] = [i |-> Nop, on |-> TRUE, value |-> 0, done |-> FALSE,
                      late |-> NotLate, bypass |-> NoBypass]
  BY DEF Init
<1>7. OperandsOK(ex[1], machine, mw) /\ OperandsOK(ex[2], machine, mw)
      /\ ex[1].i = Nop /\ ex[2].i = Nop
  <2>1. \A g \in GPR : machine.gpr[g] = Forward(mw, g, regs.gpr[g])
    BY <1>4, <1>6 DEF Forward, Through
  <2>2. machine.prr \in PredicateFile
    BY <1>2 DEF IsMachine
  <2>3. QED
    BY <1>3, <1>4, <1>5, <2>1, <2>2, NopIsInstruction, DRReads
<1>8. Nop.class = "nop" /\ Nop.d = 0 /\ Target(Nop) = 0 /\ "nop" \notin Accessing
  BY DEF Nop, Instr, Target, Computing, Accessing
<1>9. TypesInv
  BY <1>2, <1>4, <1>5, <1>6, <1>7, NopIsInstruction DEF TypesInv, Bundle, Bubble
<1>10. OperandsInv
  BY <1>7, <1>8 DEF OperandsInv, Clash
<1>11. ResultsInv
  <2>1. ASSUME NEW k \in {1, 2}
        PROVE  ResultOK(mw[k])
    <3>1. Nop.class = "nop" /\ "nop" \notin Computing /\ NotLate[1] = "none"
      BY <1>8 DEF Computing, NotLate
    <3>2. PICK t : t = mw[k]
      OBVIOUS
    <3>3. /\ t = [i |-> t.i, on |-> t.on, value |-> t.value, done |-> t.done, late |-> t.late,
                  bypass |-> t.bypass]
          /\ t.i = Nop /\ t.on = TRUE /\ t.done = FALSE /\ t.late = NotLate
          /\ t.bypass = NoBypass
      BY <1>6, <3>2
    <3>4. ResultOK(t)
      BY <3>1, <3>3 DEF ResultOK
    <3>5. QED
      BY <3>2, <3>4
  <2>2. ~ Clash(mw)
    BY <1>6, <1>8 DEF Clash
  <2>3. QED
    BY <1>2, <1>6, <2>1, <2>2 DEF ResultsInv
<1>12. FilesInv
  <2>1. Part(mw[1]) = NotLate /\ Part(mw[2]) = NotLate
    BY <1>6 DEF Part
  <2>2. QED
    BY <1>3, <1>4, <2>1 DEF FilesInv, LoadedGpr, StoredMem, NotLate
<1>13. LoadsInv
  <2>1. /\ Bundle(mw)[1] = Nop /\ Bundle(mw)[2] = Nop
        /\ Bundle(ex)[1] = Nop /\ Bundle(ex)[2] = Nop
    BY <1>6, <1>7 DEF Bundle
  <2>2. QED
    BY <1>5, <1>6, <1>8, <2>1 DEF LoadsInv, Judged
<1>14. QED
  BY <1>2, <1>5, <1>9, <1>10, <1>11, <1>12, <1>13
     DEF IInv, Running, BypassesFree, IllegalJustly

-----------------------------------------------------------------------------
\* A bundle judged with what is behind it keeps the predicates of its loads.
LEMMA LoadKeepsPredicates ==
  ASSUME TypesInv, OperandsInv, LoadsInv, ChecksExact, ex[1].i.class = "ldt"
  PROVE  ExecutedPrr(machine, Bundle(ex)) = machine.prr
<1>1. Judged(Bundle(ex), dr)
  BY DEF LoadsInv
<1>2. Bundle(ex)[1] = ex[1].i /\ Bundle(ex)[2] = ex[2].i
  BY DEF Bundle
<1>3. ex[1].i.class \notin Writers /\ ex[2].i.class \notin Writers
  BY <1>1, <1>2 DEF Judged, Writers
<1>4. QED
  BY <1>2, <1>3, PrrKept

\* A cycle in which the pipeline stalls keeps the invariant.
LEMMA StepStalls ==
  ASSUME Running, NEW b \in Fetches, NEW answered \in BOOLEAN,
         NEW r1, r1 = MWSlot(MWSlot(regs, mw[1], answered), mw[2], answered),
         NEW ts, ts = <<EXSlot(ex[1], mw), EXSlot(ex[2], mw)>>,
         NEW r2, r2 = EXWrites(EXWrites(r1, ts[1]), ts[2]),
         regs' = r2, fetched' = b, ex' = Stalled(ex, ts), dr' = dr, machine' = machine,
         mw' = <<AfterMW(mw[1], answered), AfterMW(mw[2], answered)>>,
         program' = program, rejected' = NotRefused
  PROVE  Running'
<1> USE DEF Running
<1>1. /\ r2 = [gpr |-> r1.gpr, prr |-> Full(ExecutedPrr(machine, Bundle(ex))),
               spr |-> ExecutedSpr(machine, Bundle(ex)), mem |-> r1.mem]
      /\ IsFile(r2)
  BY EXWritten
<1>2. ASSUME NEW k \in {1, 2}
      PROVE  /\ ex'[k].i = ex[k].i /\ ex'[k].on = ex[k].on
             /\ OperandsOK(ex'[k], machine, mw')
  <2>1. OperandsOK(ex[k], machine, mw)
    BY DEF OperandsInv
  <2>2. ex'[k] = [ex[k] EXCEPT !.bypass = NoBypass]
    BY DEF Stalled
  <2>3. ex'[k] = ex[k]
    BY <2>1, <2>2 DEF OperandsOK
  <2>4. mw'[1].bypass = mw[1].bypass /\ mw'[2].bypass = mw[2].bypass
    BY DEF AfterMW, ResultsInv, ResultOK
  <2>5. QED
    BY <2>1, <2>3, <2>4 DEF OperandsOK, Forward
<1>3. ASSUME NEW k \in {1, 2}
      PROVE  /\ mw'[k].i = mw[k].i /\ mw'[k].on = mw[k].on /\ mw'[k].late = mw[k].late
             /\ mw'[k].bypass = mw[k].bypass /\ mw'[k].value = mw[k].value
             /\ ResultOK(mw'[k]) /\ mw'[k] = AfterMW(mw[k], answered)
  <2>1. ResultOK(mw[k])
    BY DEF ResultsInv
  <2>2. mw'[k] = AfterMW(mw[k], answered)
    OBVIOUS
  <2>3. AfterMW(mw[k], answered) =
          [i |-> mw[k].i, on |-> mw[k].on, value |-> mw[k].value,
           done |-> mw[k].done \/ (mw[k].on /\ mw[k].i.class \in Accessing /\ answered),
           late |-> mw[k].late, bypass |-> mw[k].bypass]
    BY <2>1 DEF AfterMW, ResultOK
  <2>4. ResultOK(AfterMW(mw[k], answered))
    BY <2>1, <2>3 DEF ResultOK
  <2>5. QED
    BY <2>2, <2>3, <2>4
<1>4. Bundle(ex') = Bundle(ex) /\ Bundle(mw') = Bundle(mw)
  BY <1>2, <1>3 DEF Bundle
<1>5. b = NoBundle \/ b \in program
  BY DEF Fetches, TypesInv
<1>6. TypesInv'
  BY <1>1, <1>2, <1>3, <1>4, <1>5 DEF TypesInv
<1>7. OperandsInv'
  BY <1>2 DEF OperandsInv, Clash
<1>8. ResultsInv'
  BY <1>3 DEF ResultsInv, Clash
<1>9. FilesInv'
  <2>1. regs'.gpr = LoadedGpr(LoadedGpr(machine.gpr, machine.mem, Part(mw'[1])),
                              machine.mem, Part(mw'[2]))
    BY <1>1, <1>3, MWGpr
  <2>2. regs'.mem = StoredMem(StoredMem(machine.mem, Part(mw'[1])), Part(mw'[2]))
    BY <1>1, <1>3, MWMemory
  <2>3. regs'.prr = Full(ExecutedPrr(machine, Bundle(ex)))
        /\ regs'.spr = ExecutedSpr(machine, Bundle(ex))
    BY <1>1
  <2>4. QED
    BY <1>4, <2>1, <2>2, <2>3 DEF FilesInv
<1>10. LoadsInv'
  <2>1. ChecksExact /\ b # NoBundle => Judged(dr, b)
    BY DEF Fetches, LoadsInv
  <2>2. QED
    BY <1>3, <1>4, <2>1 DEF LoadsInv
<1>11. QED
  BY <1>6, <1>7, <1>8, <1>9, <1>10

\* So does one in which every stage moves on.
LEMMA StepMoves ==
  ASSUME Running, NEW b \in Fetches, NEW answered \in BOOLEAN, b # NoBundle,
         ~ Waits(mw[1], answered), ~ Waits(mw[2], answered),
         NEW r1, r1 = MWSlot(MWSlot(regs, mw[1], answered), mw[2], answered),
         NEW ts, ts = <<EXSlot(ex[1], mw), EXSlot(ex[2], mw)>>,
         NEW r2, r2 = EXWrites(EXWrites(r1, ts[1]), ts[2]),
         ~ IllegalBundle(r2, dr),
         regs' = r2, fetched' = NoBundle, dr' = b,
         ex' = <<DRSlot(r2, dr[1]), DRSlot(r2, dr[2])>>, mw' = ts,
         machine' = Settled(r2, ts), program' = program, rejected' = NotRefused
  PROVE  Running'
<1> USE DEF Running
<1>1. /\ r2 = [gpr |-> r1.gpr, prr |-> Full(ExecutedPrr(machine, Bundle(ex))),
               spr |-> ExecutedSpr(machine, Bundle(ex)), mem |-> r1.mem]
      /\ ExecutedPrr(machine, Bundle(ex)) \in PredicateFile
      /\ IsFile(r2)
  <2>1. ts[1] = EXSlot(ex[1], mw) /\ ts[2] = EXSlot(ex[2], mw)
    OBVIOUS
  <2>2. QED
    BY <2>1, EXWritten
<1>2. /\ machine' = Executed(machine, Bundle(ex))
      /\ machine'.prr = ExecutedPrr(machine, Bundle(ex))
      /\ machine'.late = <<Delayed(machine, ex[1].i), Delayed(machine, ex[2].i)>>
      /\ machine'.last = Bundle(ex)
      /\ machine' = [gpr |-> machine'.gpr, prr |-> machine'.prr, spr |-> machine'.spr,
                     mem |-> machine'.mem, late |-> machine'.late, last |-> machine'.last]
  <2>1. machine' = Executed(machine, Bundle(ex))
    BY SettledIsExecuted
  <2>2. QED
    BY <2>1, BundleExecuted
<1>3. /\ machine'.gpr = [g \in GPR |-> Forward(ts, g, r2.gpr[g])]
      /\ machine'.spr = r2.spr /\ machine'.mem = r2.mem
  BY DEF Settled
<1>4. IsMachine(machine')
  BY <1>1, <1>2, <1>3 DEF IsMachine, IsFile, Over
<1>5. ASSUME NEW k \in {1, 2}
      PROVE  /\ ts[k].i = ex[k].i /\ ts[k].on = Enabled(machine, ex[k].i)
             /\ ts[k].on = ex[k].on /\ ts[k].on \in BOOLEAN
             /\ ts[k].late = Delayed(machine, ex[k].i) /\ ts[k].done = FALSE
             /\ ResultOK(ts[k]) /\ IsInstruction(ts[k].i)
  <2>1. ts[k] = EXSlot(ex[k], mw)
    OBVIOUS
  <2>2. ex[k].on = Enabled(machine, ex[k].i)
    BY DEF OperandsInv, OperandsOK
  <2>3. /\ ts[k].i = ex[k].i /\ ts[k].on = Enabled(machine, ts[k].i) /\ ts[k].on \in BOOLEAN
        /\ ts[k].late = Delayed(machine, ts[k].i) /\ ts[k].done = FALSE
        /\ ResultOK(ts[k]) /\ IsInstruction(ts[k].i)
    BY <2>1, EXComputes
  <2>4. QED
    BY <2>2, <2>3
<1>6. ASSUME NEW k \in {1, 2}
      PROVE  /\ OperandsOK(ex'[k], machine', ts) /\ ex'[k].i = dr[k]
             /\ ex'[k].on = Get(r2.prr, dr[k].guard)
  <2>1. ex'[k] = DRSlot(r2, dr[k]) /\ IsInstruction(dr[k])
    BY DEF TypesInv
  <2>2. \A g \in GPR : machine'.gpr[g] = Forward(ts, g, r2.gpr[g])
    BY <1>3
  <2>3. r2.prr = Full(machine'.prr) /\ machine'.prr \in PredicateFile
    BY <1>1, <1>2
  <2>4. QED
    BY <1>3, <2>1, <2>2, <2>3, DRReads
<1>7. /\ Bundle(mw') = Bundle(ex) /\ Bundle(ex') = dr
  <2>1. dr = <<dr[1], dr[2]>>
    BY DEF TypesInv
  <2>2. QED
    BY <1>5, <1>6, <2>1 DEF Bundle
<1>8. b \in program /\ b \in Bundles
  BY DatapathAssumption DEF Fetches, TypesInv
<1>9. TypesInv'
  <2>1. b = <<b[1], b[2]>> /\ IsInstruction(b[1]) /\ IsInstruction(b[2])
    BY <1>8, BundlesAssumption
  <2>2. dr = Bubble /\ Bundle(ex) = Bubble =>
          machine'.last = Bubble /\ machine'.late = <<NotLate, NotLate>>
    <3>1. SUFFICES ASSUME Bundle(ex) = Bubble
                   PROVE  machine'.last = Bubble /\ machine'.late = <<NotLate, NotLate>>
      OBVIOUS
    <3>2. ex[1].i = Nop /\ ex[2].i = Nop
      BY <3>1 DEF Bundle, Bubble
    <3>3. Delayed(machine, Nop) = NotLate
      BY DEF Delayed, Late, Nop, Instr
    <3>4. QED
      BY <1>2, <3>1, <3>2, <3>3
  <2>3. \A k \in {1, 2} : IsInstruction(dr[k])
    BY DEF TypesInv
  <2>4. dr \in Bundles \/ (dr = Bubble /\ Bundle(ex) = Bubble)
    BY DEF TypesInv
  <2>5. program \in Programs
    BY DEF TypesInv
  <2>6. QED
    BY <1>1, <1>4, <1>5, <1>6, <1>7, <1>8, <2>1, <2>2, <2>3, <2>4, <2>5 DEF TypesInv
<1>10. OperandsInv'
  <2>1. ~ Clash(ex')
    BY <1>6 DEF Clash, IllegalBundle
  <2>2. QED
    BY <1>6, <2>1 DEF OperandsInv
<1>11. ~ Clash(ts)
  BY <1>5 DEF OperandsInv, Clash
<1>12. ResultsInv'
  <2>1. ASSUME NEW k \in {1, 2}, ts[k].bypass # NoBypass
        PROVE  machine'.gpr[ts[k].i.d] = ts[k].value
    <3>1. /\ ts[k].on /\ ts[k].i.class \in Computing /\ ts[k].i.d # 0
          /\ ts[k].bypass = <<ts[k].i.d, ts[k].value>>
      BY <1>5, <2>1 DEF ResultOK
    <3>2. ts[k].i.d \in GPR /\ Target(ts[k].i) = ts[k].i.d
      BY <1>5, <3>1 DEF IsInstruction, Target
    <3>3. ASSUME NEW j \in {1, 2}, j # k, ts[j].bypass # NoBypass
          PROVE  ts[j].bypass[1] # ts[k].i.d
      <4>1. /\ ts[j].on /\ ts[j].bypass = <<ts[j].i.d, ts[j].value>>
            /\ Target(ts[j].i) = ts[j].i.d
        BY <1>5, <3>3 DEF ResultOK, Target
      <4>2. QED
        BY <1>11, <3>1, <3>2, <3>3, <4>1 DEF Clash
    <3>4. Forward(ts, ts[k].i.d, r2.gpr[ts[k].i.d]) = ts[k].value
      BY <2>1, <3>1, <3>3 DEF Forward, Through
    <3>5. QED
      BY <1>3, <3>2, <3>4
  <2>2. QED
    BY <1>2, <1>5, <1>11, <2>1 DEF ResultsInv
<1>13. FilesInv'
  <2>1. Part(ts[1]) = NotLate /\ Part(ts[2]) = NotLate
    BY <1>5 DEF Part
  <2>2. ASSUME NEW g \in GPR, ~ (\E k \in {1, 2} : ts[k].bypass # NoBypass /\ ts[k].i.d = g)
        PROVE  machine'.gpr[g] = r2.gpr[g]
    <3>1. ASSUME NEW k \in {1, 2}
          PROVE  ts[k].bypass = NoBypass \/ ts[k].bypass[1] # g
      BY <1>5, <2>2 DEF ResultOK
    <3>2. QED
      BY <1>3, <3>1 DEF Forward, Through
  <2>3. ASSUME NEW gpr, NEW mem
        PROVE  LoadedGpr(LoadedGpr(gpr, mem, NotLate), mem, NotLate) = gpr
    BY DEF LoadedGpr, NotLate
  <2>4. ASSUME NEW mem
        PROVE  StoredMem(StoredMem(mem, NotLate), NotLate) = mem
    BY DEF StoredMem, NotLate
  <2>5. regs'.prr = Full(machine'.prr) /\ regs'.spr = machine'.spr /\ regs'.mem = machine'.mem
    BY <1>1, <1>2, <1>3
  <2>6. QED
    BY <2>1, <2>2, <2>3, <2>4, <2>5 DEF FilesInv, Owed
<1>14. LoadsInv'
  <2>1. SUFFICES ASSUME ChecksExact
                 PROVE  /\ ts[1].i.class = "ldt" => ts[1].on = Enabled(machine', ts[1].i)
                        /\ Judged(Bundle(mw'), Bundle(ex')) /\ Judged(Bundle(ex'), b)
    BY DEF LoadsInv
  <2>2. Judged(dr, b)
    BY <2>1 DEF Fetches, LoadsInv
  <2>3. Judged(Bundle(ex), dr)
    BY <2>1 DEF LoadsInv
  <2>4. ASSUME ts[1].i.class = "ldt"
        PROVE  ts[1].on = Enabled(machine', ts[1].i)
    <3>1. machine'.prr = machine.prr
      BY <1>2, <1>5, <2>1, <2>4, LoadKeepsPredicates
    <3>2. QED
      BY <1>5, <3>1 DEF Enabled
  <2>5. QED
    BY <1>7, <2>2, <2>3, <2>4
<1>15. QED
  BY <1>9, <1>10, <1>12, <1>13, <1>14

-----------------------------------------------------------------------------
\* What a cycle of a pipeline that runs may come to: an exception that the program
\* deserves, the same bundles once more, or the next ones.
CycleStays ==
  /\ error' = "none" /\ rejected' = NotRefused /\ machine' = machine
  /\ Running'
CycleMoves ==
  /\ error' = "none" /\ rejected' = NotRefused
  /\ machine' = Executed(machine, Bundle(ex)) /\ ~ Conflicts(machine, Bundle(ex))
  /\ ChecksExact => ~ NeedsLoad(machine, Bundle(ex))
  /\ Running'
CycleEnds ==
  /\ error' \in {"bundle", "load"} /\ machine' = machine
  /\ rejected' = IF error' = "load" THEN <<<<ex[1].i, ex[2].i>>>> ELSE NotRefused
  /\ error' = "bundle" => Conflicts(Executed(machine, <<ex[1].i, ex[2].i>>), dr)
  /\ error' = "load" /\ ChecksExact => NeedsLoad(machine, Bundle(ex))
  /\ UNCHANGED <<dr, ex>>

\* Every cycle is one of these.
LEMMA CycleComesTo ==
  ASSUME Running, NEW b \in Fetches, NEW answered \in BOOLEAN,
         Cycle(b, answered), program' = program
  PROVE  CycleStays \/ CycleMoves \/ CycleEnds
<1> DEFINE r1 == MWSlot(MWSlot(regs, mw[1], answered), mw[2], answered)
           ts == <<EXSlot(ex[1], mw), EXSlot(ex[2], mw)>>
           r2 == EXWrites(EXWrites(r1, ts[1]), ts[2])
           stall == b = NoBundle \/ \E k \in {1, 2} : Waits(mw[k], answered)
           taken == \E k \in {1, 2} : BypassTaken(ex[k])
<1>1. /\ regs' = r2
      /\ error' = IF taken THEN "assert"
                  ELSE IF IllegalBundle(r2, dr) THEN "bundle"
                  ELSE IF ~ stall /\ LoadHazard(r2) THEN "load" ELSE "none"
      /\ rejected' = IF error' = "load" THEN <<<<ex[1].i, ex[2].i>>>> ELSE NotRefused
      /\ \/ error' # "none" /\ UNCHANGED <<fetched, dr, ex, mw, machine>>
         \/ error' = "none" /\ stall
              /\ fetched' = b
              /\ mw' = <<AfterMW(mw[1], answered), AfterMW(mw[2], answered)>>
              /\ ex' = Stalled(ex, ts)
              /\ UNCHANGED <<dr, machine>>
         \/ error' = "none" /\ ~ stall
              /\ fetched' = NoBundle
              /\ dr' = b
              /\ ex' = <<DRSlot(r2, dr[1]), DRSlot(r2, dr[2])>>
              /\ mw' = ts
              /\ machine' = Settled(r2, ts)
  BY DEF Cycle
<1>2. TypesInv /\ OperandsInv /\ ResultsInv /\ FilesInv /\ LoadsInv
  BY DEF Running
<1>3. ~ taken
  BY <1>2, EXComputes
<1>4. /\ r2.prr = Full(ExecutedPrr(machine, Bundle(ex)))
      /\ ExecutedPrr(machine, Bundle(ex)) \in PredicateFile
  <2>1. ts[1] = EXSlot(ex[1], mw) /\ ts[2] = EXSlot(ex[2], mw)
    OBVIOUS
  <2>2. /\ r2 = [gpr |-> r1.gpr, prr |-> Full(ExecutedPrr(machine, Bundle(ex))),
                 spr |-> ExecutedSpr(machine, Bundle(ex)), mem |-> r1.mem]
        /\ ExecutedPrr(machine, Bundle(ex)) \in PredicateFile
    BY <1>2, <2>1, EXWritten
  <2> HIDE DEF r1, r2
  <2>3. QED
    BY <2>2
<1>5. ChecksExact => (LoadHazard(r2) <=> NeedsLoad(machine, Bundle(ex)))
  <2> HIDE DEF r2
  <2>1. QED
    BY <1>2, <1>4, HazardIsNeed
<1>6. IllegalBundle(r2, dr) => Conflicts(Executed(machine, <<ex[1].i, ex[2].i>>), dr)
  <2> HIDE DEF r2
  <2>1. Bundle(ex) = <<ex[1].i, ex[2].i>>
    BY DEF Bundle
  <2>2. Executed(machine, Bundle(ex)).prr = ExecutedPrr(machine, Bundle(ex))
    BY <1>2, BundleExecuted
  <2>3. IsInstruction(dr[1]) /\ IsInstruction(dr[2])
    BY <1>2 DEF TypesInv
  <2>4. IllegalBundle(r2, dr) <=> Conflicts(Executed(machine, Bundle(ex)), dr)
    BY <1>4, <2>2, <2>3, IllegalIsConflict
  <2>5. QED
    BY <2>1, <2>4
<1>7. CASE error' # "none"
  <2> HIDE DEF r1, r2, ts, stall, taken
  <2>1. error' \in {"bundle", "load"}
    BY <1>1, <1>3, <1>7
  <2>2. error' = "bundle" => IllegalBundle(r2, dr)
    BY <1>1, <1>3
  <2>3. error' = "load" => LoadHazard(r2)
    BY <1>1, <1>3
  <2>4. /\ machine' = machine /\ dr' = dr /\ ex' = ex
        /\ rejected' = IF error' = "load" THEN <<<<ex[1].i, ex[2].i>>>> ELSE NotRefused
    BY <1>1, <1>7
  <2>5. QED
    BY <1>5, <1>6, <2>1, <2>2, <2>3, <2>4 DEF CycleEnds
<1>8. CASE error' = "none" /\ stall
  <2>1. /\ regs' = r2 /\ fetched' = b /\ ex' = Stalled(ex, ts)
        /\ mw' = <<AfterMW(mw[1], answered), AfterMW(mw[2], answered)>>
        /\ dr' = dr /\ machine' = machine
    <3> HIDE DEF r1, r2, ts, stall, taken
    <3>1. QED
      BY <1>1, <1>8
  <2>2. error' = "none" /\ rejected' = NotRefused
    <3> HIDE DEF r1, r2, ts, stall, taken
    <3>1. QED
      BY <1>1, <1>8
  <2>3. Running'
    BY <2>1, <2>2, StepStalls
  <2>4. QED
    BY <2>1, <2>2, <2>3 DEF CycleStays
<1>9. CASE error' = "none" /\ ~ stall
  <2>1. /\ regs' = r2 /\ fetched' = NoBundle /\ dr' = b /\ mw' = ts
        /\ ex' = <<DRSlot(r2, dr[1]), DRSlot(r2, dr[2])>>
        /\ machine' = Settled(r2, ts)
    <3> HIDE DEF r1, r2, ts, stall, taken
    <3>1. QED
      BY <1>1, <1>9
  <2>2. error' = "none" /\ rejected' = NotRefused /\ ~ IllegalBundle(r2, dr) /\ ~ LoadHazard(r2)
    <3> HIDE DEF r1, r2, ts, stall, taken
    <3>1. QED
      BY <1>1, <1>3, <1>9
  <2>3. b # NoBundle /\ ~ Waits(mw[1], answered) /\ ~ Waits(mw[2], answered)
    BY <1>9
  <2>4. Running'
    BY <2>1, <2>2, <2>3, StepMoves
  <2>5. machine' = Executed(machine, Bundle(ex))
    <3>1. Settled(r2, ts) = Executed(machine, Bundle(ex))
      BY <1>2, <2>3, SettledIsExecuted
    <3> HIDE DEF r1, r2, ts, stall, taken
    <3>2. QED
      BY <2>1, <3>1
  <2>6. ~ Conflicts(machine, Bundle(ex))
    BY <1>2, BundleExecuted
  <2> HIDE DEF r1, r2, ts, stall, taken
  <2>7. QED
    BY <1>5, <2>2, <2>4, <2>5, <2>6 DEF CycleMoves
<1>10. QED
  <2> HIDE DEF r1, r2, ts, stall, taken
  <2>1. QED
    BY <1>1, <1>7, <1>8, <1>9

\* The same of the steps of the specification.
LEMMA NextComesTo ==
  ASSUME IInv, Next
  PROVE  /\ Running
         /\ CycleStays \/ CycleMoves \/ CycleEnds
<1>1. PICK b \in Fetches, answered \in BOOLEAN : Cycle(b, answered)
  BY DEF Next
<1>2. error = "none" /\ program' = program
  BY DEF Next
<1>3. Running
  BY <1>2 DEF IInv
<1>4. QED
  BY <1>1, <1>2, <1>3, CycleComesTo

\* Every step keeps the invariant.
LEMMA NextIInv == IInv /\ [Next]_vars => IInv'
<1> SUFFICES ASSUME IInv, [Next]_vars PROVE IInv'
  OBVIOUS
<1>1. CASE Next
  <2>1. CASE CycleStays \/ CycleMoves
    BY <2>1 DEF CycleStays, CycleMoves, IInv, BypassesFree, IllegalJustly
  <2>2. CASE CycleEnds
    BY <2>2 DEF CycleEnds, IInv, BypassesFree, IllegalJustly
  <2>3. QED
    BY <1>1, <2>1, <2>2, NextComesTo
<1>2. CASE UNCHANGED vars
  <2>1. /\ program' = program /\ fetched' = fetched /\ dr' = dr /\ ex' = ex /\ mw' = mw
        /\ regs' = regs /\ error' = error /\ machine' = machine /\ rejected' = rejected
    BY <1>2 DEF vars, pipeVars
  <2>2. BypassesFree' /\ IllegalJustly'
    BY <2>1 DEF IInv, BypassesFree, IllegalJustly
  <2>3. Running => Running'
    BY <2>1 DEF Running, TypesInv, OperandsInv, ResultsInv, FilesInv, LoadsInv, Owed
  <2>4. QED
    BY <2>1, <2>2, <2>3 DEF IInv
<1>3. QED
  BY <1>1, <1>2

\* The invariant holds throughout.
LEMMA SpecIInv == Spec => []IInv
<1>1. Init => IInv
  BY InitIInv
<1>2. IInv /\ [Next]_vars => IInv'
  BY NextIInv
<1>3. QED
  BY <1>1, <1>2, PTL DEF Spec

-----------------------------------------------------------------------------
\* No by-pass is set twice: whenever EX runs an instruction again because MW or the
\* fetch stalls, its by-pass is free, so the assertion of by_pass_t::set holds.
THEOREM DatapathBypassesFree == Spec => []BypassesFree
<1>1. IInv => BypassesFree
  BY DEF IInv
<1>2. QED
  BY <1>1, SpecIInv, PTL

\* The exception for an illegal bundle, which DR raises on the predicates EX has just
\* written, blames only bundles whose slots are both enabled and clash when all the
\* bundles before them have been executed.
THEOREM DatapathIllegalJustly == Spec => []IllegalJustly
<1>1. IInv => IllegalJustly
  BY DEF IInv
<1>2. QED
  BY <1>1, SpecIInv, PTL

\* Whatever the program and however often MW and the fetch stall, a cycle leaves the
\* registers and memory that the program sees as they are, or it gives them the
\* meaning of one bundle without conflicts, the one that leaves EX.
THEOREM DatapathExecutesBundles ==
  Spec => [][/\ machine' = Executed(machine, Bundle(ex))
             /\ ~ Conflicts(machine, Bundle(ex))]_machine
<1>1. ASSUME IInv, [Next]_vars
      PROVE  [/\ machine' = Executed(machine, Bundle(ex))
              /\ ~ Conflicts(machine, Bundle(ex))]_machine
  <2>1. CASE Next
    BY <1>1, <2>1, NextComesTo DEF CycleStays, CycleMoves, CycleEnds
  <2>2. CASE UNCHANGED vars
    BY <2>2 DEF vars
  <2>3. QED
    BY <1>1, <2>1, <2>2
<1>2. QED
  BY <1>1, SpecIInv, PTL DEF Spec

-----------------------------------------------------------------------------
\* Only the bubble before the program may leave EX without being of the program.
LEMMA BubbleChangesNothing ==
  ASSUME Running, Bundle(ex) \notin Bundles
  PROVE  Executed(machine, Bundle(ex)) = machine
<1>1. /\ Bundle(ex) = Bubble /\ machine.last = Bubble /\ machine.late = <<NotLate, NotLate>>
      /\ IsMachine(machine)
  BY DEF Running, TypesInv
<1>2. ex[1].i = Nop /\ ex[2].i = Nop
  BY <1>1 DEF Bundle, Bubble
<1>3. Executed(machine, Bundle(ex)) =
        [gpr |-> ExecutedGpr(machine, Bubble), prr |-> ExecutedPrr(machine, Bubble),
         spr |-> ExecutedSpr(machine, Bubble), mem |-> ExecutedMem(machine),
         late |-> <<Delayed(machine, Nop), Delayed(machine, Nop)>>, last |-> Bubble]
  <2>1. TypesInv /\ OperandsInv
    BY DEF Running
  <2>2. Executed(machine, Bundle(ex)) =
          [gpr |-> ExecutedGpr(machine, Bundle(ex)), prr |-> ExecutedPrr(machine, Bundle(ex)),
           spr |-> ExecutedSpr(machine, Bundle(ex)), mem |-> ExecutedMem(machine),
           late |-> <<Delayed(machine, ex[1].i), Delayed(machine, ex[2].i)>>,
           last |-> Bundle(ex)]
    BY <2>1, BundleExecuted
  <2>3. QED
    BY <1>1, <1>2, <2>2
<1>4. /\ Bubble[1] = Nop /\ Bubble[2] = Nop /\ Nop.class = "nop"
      /\ NotLate[1] = "none" /\ machine.late[1] = NotLate /\ machine.late[2] = NotLate
  BY <1>1 DEF Bubble, Nop, Instr, NotLate
<1>5. ExecutedGpr(machine, Bubble) = machine.gpr
  BY <1>4 DEF ExecutedGpr, LoadedGpr, AssignedGpr, Computing
<1>6. ExecutedPrr(machine, Bubble) = machine.prr
  BY <1>4 DEF ExecutedPrr, AssignedPrr
<1>7. ExecutedSpr(machine, Bubble) = machine.spr
  BY <1>4 DEF ExecutedSpr, ProducedSpr, AssignedSpr
<1>8. ExecutedMem(machine) = machine.mem
  BY <1>4 DEF ExecutedMem, StoredMem
<1>9. Delayed(machine, Nop) = NotLate
  BY <1>4 DEF Delayed, Late
<1>10. QED
  BY <1>1, <1>3, <1>5, <1>6, <1>7, <1>8, <1>9 DEF IsMachine

\* A cycle that moves on is the execution of a bundle, or a bubble's stutter.
LEMMA MoveExecutes ==
  ASSUME Running, CycleMoves, ChecksExact
  PROVE  [MachineNext]_<<machine, rejected>>
<1>1. /\ machine' = Executed(machine, Bundle(ex)) /\ ~ Conflicts(machine, Bundle(ex))
      /\ ~ NeedsLoad(machine, Bundle(ex)) /\ rejected' = NotRefused /\ rejected = NotRefused
  BY DEF CycleMoves, Running
<1>2. CASE Bundle(ex) \in Bundles
  <2>1. machine'.last = Bundle(ex)
    BY <1>1, BundleExecuted DEF Running
  <2>2. ExecuteBundle
    BY <1>1, <1>2, <2>1 DEF ExecuteBundle
  <2>3. QED
    BY <2>2 DEF MachineNext
<1>3. CASE Bundle(ex) \notin Bundles
  BY <1>1, <1>3, BubbleChangesNothing
<1>4. QED
  BY <1>2, <1>3

\* A cycle that ends the run refuses a bundle, or only the model's error changes.
LEMMA EndRejects ==
  ASSUME Running, CycleEnds, ChecksExact
  PROVE  [MachineNext]_<<machine, rejected>>
<1>1. /\ machine' = machine /\ rejected = NotRefused
      /\ rejected' = IF error' = "load" THEN <<<<ex[1].i, ex[2].i>>>> ELSE NotRefused
  BY DEF CycleEnds, Running
<1>2. CASE error' = "load"
  <2>1. NeedsLoad(machine, Bundle(ex))
    BY <1>2 DEF CycleEnds
  <2>2. Bundle(ex) \in Bundles
    <3>1. SUFFICES ASSUME Bundle(ex) \notin Bundles PROVE FALSE
      OBVIOUS
    <3>2. machine.late = <<NotLate, NotLate>>
      BY <3>1 DEF Running, TypesInv
    <3>3. QED
      BY <2>1, <3>2 DEF NeedsLoad, NotLate
  <2>3. rejected' = <<Bundle(ex)>>
    BY <1>1, <1>2 DEF Bundle
  <2>4. RejectBundle
    BY <1>1, <2>1, <2>2, <2>3 DEF RejectBundle
  <2>5. QED
    BY <2>4 DEF MachineNext
<1>3. CASE error' # "load"
  <2>1. rejected' = rejected
    BY <1>1, <1>3
  <2>2. QED
    BY <1>1, <2>1
<1>4. QED
  BY <1>2, <1>3

\* Where programs avoid what the load check misjudges, the registers refine the
\* sequential machine: read_GPR_EX, store_GPR_*_result and the order of the stages
\* in run make the bundles take effect one after the other, late effects included,
\* and run refuses a bundle only for the result of a load in the bundle before.
THEOREM DatapathRefinesBundles ==
  ASSUME ChecksExact
  PROVE  Spec => RefinesBundles
<1>1. Init => MachineInit
  BY DEF Init
<1>2. ASSUME IInv, [Next]_vars
      PROVE  [MachineNext]_<<machine, rejected>>
  <2>1. CASE Next
    <3>1. Running /\ (CycleStays \/ CycleMoves \/ CycleEnds)
      BY <1>2, <2>1, NextComesTo
    <3>2. CASE CycleStays
      BY <3>1, <3>2 DEF CycleStays, Running
    <3>3. QED
      BY <3>1, <3>2, MoveExecutes, EndRejects
  <2>2. CASE UNCHANGED vars
    BY <2>2 DEF vars
  <2>3. QED
    BY <1>2, <2>1, <2>2
<1>3. QED
  BY <1>1, <1>2, SpecIInv, PTL DEF Spec, RefinesBundles, MachineSpec

\* Under the same hypothesis the check does what the comment in run says it is for:
\* no bundle is executed that uses the result of a load in the bundle before.
THEOREM DatapathRefusesLoadUse ==
  ASSUME ChecksExact
  PROVE  Spec => LoadUseRefused
<1>1. ASSUME IInv, [Next]_vars
      PROVE  [~ NeedsLoad(machine, machine'.last)]_machine
  <2>1. CASE Next
    <3>1. Running /\ (CycleStays \/ CycleMoves \/ CycleEnds)
      BY <1>1, <2>1, NextComesTo
    <3>2. CASE CycleMoves
      <4>1. /\ machine' = Executed(machine, Bundle(ex))
            /\ ~ NeedsLoad(machine, Bundle(ex))
        BY <3>2 DEF CycleMoves
      <4>2. machine'.last = Bundle(ex)
        BY <3>1, <4>1, BundleExecuted DEF Running
      <4>3. QED
        BY <4>1, <4>2
    <3>3. CASE CycleStays \/ CycleEnds
      BY <3>3 DEF CycleStays, CycleEnds
    <3>4. QED
      BY <3>1, <3>2, <3>3
  <2>2. CASE UNCHANGED vars
    BY <2>2 DEF vars
  <2>3. QED
    BY <1>1, <2>1, <2>2
<1>2. QED
  BY <1>1, SpecIInv, PTL DEF Spec, LoadUseRefused
=============================================================================
