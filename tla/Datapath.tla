------------------------------ MODULE Datapath ------------------------------
(***************************************************************************)
(* The registers of simulator_t in its pipeline: what DR reads, what EX gets *)
(* from the by-passes of the bundle before, what EX and MW write, and the    *)
(* checks of run and pipeline_invoke (simulation-core.cc, instructions.h,    *)
(* registers.h).  Dual issue is the permissive one, in which either slot may  *)
(* hold a load, a store or a multiplication; the plain one has fewer bundles.*)
(*                                                                         *)
(* An action is a cycle.  When the instruction cache has the next bundle and *)
(* when memory has finished an access is open, and the pipeline stalls until *)
(* then; its stages go on being called.  Control flow is in Pipeline.       *)
(***************************************************************************)
EXTENDS BundleSemantics

CONSTANTS
  Programs,    \* the kinds of programs, each the set of its bundles
  ChecksExact, \* programs avoid the bundles that the load check misjudges
  NoBundle

ASSUME DatapathAssumption ==
  /\ Bundles = UNION Programs
  /\ NumPRR <= Width
  /\ ChecksExact \in BOOLEAN

VARIABLES
  program,    \* the kind of program that runs
  fetched,    \* Pipeline[SIF]: the bundle fetched, until it moves on
  dr, ex, mw, \* Pipeline[SDR], Pipeline[SEX], Pipeline[SMW]
  regs,       \* GPR, PRR with the negated predicates behind, SPR, and memory
  error       \* the exception that has ended the run, or "none"

pipeVars == <<program, fetched, dr, ex, mw, regs, error>>
vars == <<pipeVars, machine, rejected>>

-----------------------------------------------------------------------------
(* The register files.                                                     *)

\* PRR_t::set
Set(prr, p, v) ==
  IF p = 0 THEN prr ELSE [prr EXCEPT ![p] = v, ![NumPRR + p] = ~ v]

\* i_spct_t::EX sets p1 and the following one by one.
SetAll(v) ==
  [p \in 0 .. 2 * NumPRR - 1 |->
     IF p < NumPRR THEN p = 0 \/ p \in Bits(v)
     ELSE ~ (p = NumPRR \/ p - NumPRR \in Bits(v))]

Get(prr, q) == prr[q.reg + (IF q.neg THEN NumPRR ELSE 0)]

\* The by-pass of an instruction: none, or a register and its value.
NoBypass == <<>>
Through(bypass, r, v) == IF bypass # NoBypass /\ bypass[1] = r THEN bypass[2] ELSE v

\* Faulty: only the by-pass of the first slot.
ForwardOlder(mws, r, v) == Through(mws[1].bypass, r, v)

\* read_GPR_EX: by-passes of the bundle that is in MW now.
Forward(mws, r, v) == Through(mws[2].bypass, r, Through(mws[1].bypass, r, v))

-----------------------------------------------------------------------------
(* The stages.  r are the registers as the stages before have left them.   *)

\* A load or store that is not done when MW runs, and memory has not answered.
Waits(t, answered) == t.on /\ t.i.class \in Accessing /\ ~ t.done /\ ~ answered

\* MW: results go to the registers, and an access that memory answers is done.
MWSlot(r, t, answered) ==
  CASE ~ t.on \/ t.done \/ Waits(t, answered) -> r
    [] t.on /\ Target(t.i) # 0 /\ t.i.class \in Computing ->
         [r EXCEPT !.gpr[t.i.d] = t.value]
    [] OTHER -> Performed(r, t.late)

\* MW_Discard
AfterMW(t, answered) ==
  [t EXCEPT !.done = @ \/ (t.on /\ t.i.class \in Accessing /\ answered)]

\* EX: the value and the access of s, and the by-pass of the value.
EXSlot(s, mws) ==
  LET a == Forward(mws, s.i.s1, s.v1)
      b == Forward(mws, s.i.s2, s.v2)
      v == Value(s.i, a, b, s.p1, s.p2, s.special)
  IN
  [i |-> s.i, on |-> s.on, value |-> v, done |-> FALSE,
   late |-> IF s.on THEN Late(s.i, a, b) ELSE NotLate,
   bypass |-> IF s.on /\ s.i.class \in Computing /\ s.i.d # 0
              THEN <<s.i.d, v>> ELSE s.bypass]

\* by_pass_t::set asserts that the by-pass has not been set.
BypassTaken(s) == s.bypass # NoBypass /\ s.on /\ s.i.class \in Computing

\* EX: predicates and special registers are written at once.
EXWrites(r, t) ==
  CASE ~ t.on -> r
    [] t.on /\ t.i.class \in {"aluc", "aluci", "alup"} ->
         [r EXCEPT !.prr = Set(@, t.i.d, t.value)]
    [] t.on /\ t.i.class = "spct" /\ t.i.op = "s0" ->
         [r EXCEPT !.prr = SetAll(t.value)]
    [] t.on /\ t.i.class = "spct" /\ t.i.op # "s0" -> [r EXCEPT !.spr[t.i.op] = t.value]
    [] OTHER -> r

\* DR: the operands are read; a special register has what EX has written.
DRSlot(r, i) ==
  [i |-> i, on |-> Get(r.prr, i.guard), v1 |-> r.gpr[i.s1], v2 |-> r.gpr[i.s2],
   p1 |-> Get(r.prr, i.q1), p2 |-> Get(r.prr, i.q2),
   special |-> IF i.class # "spcf" THEN 0
               ELSE IF i.op = "s0" THEN WordOfPreds(r.prr) ELSE r.spr[i.op],
   bypass |-> NoBypass]

\* Faulty: the exception needs no predicate.
IllegalAlways(r, b) ==
  \/ Target(b[1]) # 0 /\ Target(b[1]) = Target(b[2])
  \/ {b[1].class, b[2].class} \subseteq Accessing
  \/ {b[1].class, b[2].class} = {"alum"}

\* pipeline_invoke(SDR): two enabled slots write one register or need one unit.
IllegalBundle(r, b) ==
  /\ Get(r.prr, b[1].guard) /\ Get(r.prr, b[2].guard)
  /\ \/ Target(b[1]) # 0 /\ Target(b[1]) = Target(b[2])
     \/ {b[1].class, b[2].class} \subseteq Accessing
     \/ {b[1].class, b[2].class} = {"alum"}

\* Faulty: any bundle behind a load is refused.
LoadHazardAlways(r) ==
  /\ mw[1].i.class = "ldt" /\ mw[1].i.d # 0
  /\ Get(r.prr, mw[1].i.guard)
  /\ \E j \in {1, 2} : Get(r.prr, ex[j].i.guard)

\* run: EX has used a register that the load in MW has only now written.  The
\* predicates are read as EX has left them, and only slot 0 of MW is looked at.
LoadHazard(r) ==
  /\ mw[1].i.class = "ldt" /\ mw[1].i.d # 0
  /\ Get(r.prr, mw[1].i.guard)
  /\ \E j \in {1, 2} :
       mw[1].i.d \in Sources(ex[j].i) /\ Get(r.prr, ex[j].i.guard)

-----------------------------------------------------------------------------
\* Where the load check sees what the program does: no predicate is written in
\* the bundle of a load or the next, and the load of slot 1 is not needed at once.
Judged(before, b) ==
  \A k \in {1, 2} :
    /\ before[1].class = "ldt" =>
         {before[2].class, b[k].class} \cap {"aluc", "aluci", "alup", "spct"} = {}
    /\ before[2].class = "ldt" => before[2].d \notin Sources(b[k])

\* instruction_fetch: what has been fetched stays until the pipeline moves.
Fetches ==
  IF fetched # NoBundle THEN {fetched}
  ELSE {b \in program : ChecksExact => Judged(dr, b)} \cup {NoBundle}

\* The machine as the program sees it once bundle ts has left EX.
Settled(r, ts) ==
  [gpr |-> [g \in GPR |-> Forward(ts, g, r.gpr[g])],
   prr |-> [p \in 0 .. NumPRR - 1 |-> r.prr[p]],
   spr |-> r.spr, mem |-> r.mem, late |-> <<ts[1].late, ts[2].late>>,
   last |-> <<ts[1].i, ts[2].i>>]

\* Faulty: the by-passes of a stalled EX are kept.
StalledKept(ss, ts) == [k \in {1, 2} |-> [ss[k] EXCEPT !.bypass = ts[k].bypass]]

\* What stays in EX when MW stalls; EX will run again, and set its by-passes anew.
Stalled(ss, ts) == [k \in {1, 2} |-> [ss[k] EXCEPT !.bypass = NoBypass]]

\* One cycle of run: b is the bundle in IF after instruction_fetch, or none.
Cycle(b, answered) ==
  LET r1 == MWSlot(MWSlot(regs, mw[1], answered), mw[2], answered)
      ts == <<EXSlot(ex[1], mw), EXSlot(ex[2], mw)>>
      r2 == EXWrites(EXWrites(r1, ts[1]), ts[2])
      stall == b = NoBundle \/ \E k \in {1, 2} : Waits(mw[k], answered)
  IN
  /\ regs' = r2
  /\ error' = IF \E k \in {1, 2} : BypassTaken(ex[k]) THEN "assert"
              ELSE IF IllegalBundle(r2, dr) THEN "bundle"
              ELSE IF ~ stall /\ LoadHazard(r2) THEN "load" ELSE "none"
  /\ rejected' = IF error' = "load" THEN <<<<ex[1].i, ex[2].i>>>> ELSE NotRefused
  /\ \/ error' # "none" /\ UNCHANGED <<fetched, dr, ex, mw, machine>>
     \/ error' = "none" /\ stall
          /\ fetched' = b
          /\ mw' = <<AfterMW(mw[1], answered), AfterMW(mw[2], answered)>>
          /\ ex' = Stalled(ex, ts)
          /\ UNCHANGED <<dr, machine>>
     \/ error' = "none" /\ ~ stall
          /\ fetched' = NoBundle
          /\ dr' = b
          /\ ex' = <<DRSlot(r2, dr[1]), DRSlot(r2, dr[2])>>
          /\ mw' = ts
          /\ machine' = Settled(r2, ts)

Init ==
  /\ program \in Programs
  /\ MachineInit
  /\ regs = [gpr |-> machine.gpr,
             prr |-> [p \in 0 .. 2 * NumPRR - 1 |-> p = 0 \/ p > NumPRR],
             spr |-> machine.spr, mem |-> machine.mem]
  /\ fetched = NoBundle
  /\ dr = <<Nop, Nop>>
  /\ ex = [k \in {1, 2} |-> DRSlot(regs, Nop)]
  /\ mw = [k \in {1, 2} |->
             [i |-> Nop, on |-> TRUE, value |-> 0, done |-> FALSE, late |-> NotLate,
              bypass |-> NoBypass]]
  /\ error = "none"

Next ==
  /\ error = "none"
  /\ \E b \in Fetches, answered \in BOOLEAN : Cycle(b, answered)
  /\ UNCHANGED program

Spec == Init /\ [][Next]_vars

-----------------------------------------------------------------------------
\* Whatever stalls, the registers and memory are what executing the bundles one
\* after the other makes them, and a bundle is refused exactly if it needs the
\* result of a load in the bundle before: by-passes, reads in DR and writes in EX
\* and MW make up one order (read_GPR_EX, store_GPR_*_result, run).
RefinesBundles == MachineSpec

\* The assertion of by_pass_t::set holds however often EX repeats a bundle.
BypassesFree == error # "assert"

\* A bundle is taken for illegal only if the program had it so: when every bundle
\* before it is executed, both of its slots are enabled.
IllegalJustly ==
  error = "bundle" =>
    Conflicts(Executed(machine, <<ex[1].i, ex[2].i>>), dr)

\* What run says its check is for: no bundle is executed that uses the result of
\* an executed load in the bundle before (simulation-core.cc:424-450).
LoadUseRefused == [][~ NeedsLoad(machine, machine'.last)]_machine
=============================================================================
