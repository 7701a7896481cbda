------------------------- MODULE PipelineInvariant -------------------------
(***************************************************************************)
(* The inductive invariant of the pipeline.  Its heart is ChainInv: what   *)
(* is in MW, EX, DR and IF are the next instructions that the program      *)
(* executes, one behind the other, or they are in the shadow of a transfer *)
(* and will be thrown out.  The other parts say for each register of the   *)
(* simulator how it goes with the instructions under way.                  *)
(***************************************************************************)
EXTENDS Pipeline

DR == pipe["DR"]
Fetched == pipe["IF"]

-----------------------------------------------------------------------------
(* What is in a stage.                                                     *)

Places == [base : Nat, pc : Nat]
StageOps == Ops \cup {"bubble", "intr", "halt"}
InStage == [op : StageOps, delayed : BOOLEAN, guard : BOOLEAN, dest : Places,
            addr : Nat, done : BOOLEAN]

Real(i) == i.op \notin {"bubble", "intr", "halt"}
Succ(at) == (at + 1) % AddrSpace

\* The machine behind instruction i.
After(a, i) ==
  CASE i.op \in {"bubble", "halt"} -> a
    [] i.op = "intr" -> Handle(a, i.addr)
    [] Real(i) -> Meaning(a, i, i.addr)

\* i throws out what follows it; a Late one does so from MW, br from EX.
Kills(i) == i.op \in Flows /\ i.guard /\ ~ i.delayed
Late(i) == i.op \in CacheFlows /\ i.guard
KillsLate(i) == Late(i) /\ ~ i.delayed
\* What MayFetch lets in behind a transfer that will throw it out.
Doomed(i) == i.op \in {"bubble", "alu", "br", "halt"}
None(i) == i.op = "bubble"

\* The machine as it will be when what is in the stage has been executed.
AfterMW == After(arch, MW)
AfterEX == After(AfterMW, EX)
AfterDR == After(AfterEX, DR)
AfterFetched == After(AfterDR, Fetched)

-----------------------------------------------------------------------------
(* The types.                                                              *)

UnitType ==
  [enabled : BOOLEAN, status : Nat, mask : SUBSET {Device}, pending : SUBSET {Device},
   source : {0, Device}, vector : [{Device} -> {Handler}]]

ArchType ==
  [next : Nat, last : Nat, base : Nat, slots : 0 .. 3, dest : Places, calling : BOOLEAN,
   link : Places, saved : Places, modes : Seq(0 .. 3), halted : BOOLEAN,
   stopped : BOOLEAN]

\* The registers of the simulator and what the stages hold of the program.
TypeInv ==
  /\ pipe \in [Stages -> InStage]
  /\ turn \in {"IF", "MW", "EX", "DR"}
  /\ stalled \in BOOLEAN /\ disableIF \in BOOLEAN
  /\ halt \in BOOLEAN /\ running \in BOOLEAN
  /\ pc \in Nat /\ nPC \in Nat /\ base \in Nat
  /\ delay \in 0 .. 3 /\ handling \in 0 .. 3
  /\ regs \in [link : Places, saved : Places]
  /\ unit \in UnitType
  /\ program \in Programs
  /\ \A s \in Stages : Real(pipe[s]) => pipe[s].op \in program

\* A machine the program can bring about: where it goes back to exists.
ArchOK(a) ==
  /\ a \in ArchType
  /\ ~ a.halted => a.base # 0
  /\ a.slots > 0 => a.dest.base # 0 /\ ~ a.halted
  /\ a.link = Nowhere \/ a.link.base # 0
  /\ Len(a.modes) > 1 => a.saved.base # 0
  /\ Len(a.modes) \in 1 .. MaxNesting
  /\ Len(a.modes) = MaxNesting => a.modes[1] % 2 = 0

-----------------------------------------------------------------------------
(* The instructions under way.                                             *)

\* i is in the program; where ret, xret and trap go is filled in later.
AsWritten(i) ==
  \E w \in Instructions :
    /\ w.op = i.op /\ w.delayed = i.delayed /\ w.guard = i.guard
    /\ i.op \notin {"ret", "xret", "trap"} => w.dest = i.dest

\* i is what the machine executes next.
Fits(a, i) ==
  /\ None(i) => a.slots = 0
  /\ i.op = "halt" => a.halted
  /\ i.op \notin {"bubble", "halt"} => i.addr = a.next /\ ~ a.halted
  /\ i.op = "intr" => /\ a.slots = 0 /\ a.modes[1] % 2 = 1
                      /\ i.guard /\ ~ i.delayed /\ i.dest = Place(Handler, Handler)
  /\ Real(i) => AsWritten(i) /\ (a.slots > 0 => i.op \notin Transfers)
  /\ i.op = "ret" /\ i.delayed => a.link # Nowhere
  /\ i.op = "brcf" => i.dest # Nowhere
  /\ i.op = "xret" => Len(a.modes) > 1
  /\ i.op = "trap" => ~ i.delayed /\ Len(a.modes) < MaxNesting
  /\ i.op = "sts" => /\ a.modes[1] = 2
                     /\ i.dest.base % 2 = 1 => Len(a.modes) < MaxNesting

\* Whether what is in EX, DR and IF will be executed, as far as what is before it
\* decides.
LiveEX == ~ KillsLate(MW)
LiveDR == LiveEX /\ ~ Kills(EX)
LiveIF == LiveDR /\ ~ Kills(DR)

\* The stages hold the next instructions of the program in its order.
ChainInv ==
  /\ ArchOK(arch)
  /\ Fits(arch, MW)
  /\ LiveEX => Fits(AfterMW, EX)
  /\ ~ LiveEX => Doomed(EX)
  /\ LiveDR => Fits(AfterEX, DR)
  /\ ~ LiveDR => Doomed(DR)
  /\ LiveIF /\ disableIF => Fits(AfterDR, Fetched) /\ ~ None(Fetched) /\ Fetched.op # "halt"
  /\ LiveIF /\ ~ disableIF /\ ~ halt => pc = AfterDR.next
  /\ ~ LiveIF => Doomed(Fetched)
  /\ ~ disableIF => Fetched.op \in {"bubble", "halt"}

-----------------------------------------------------------------------------
\* MW has been executed and will move on.
(* The registers that go with them.                                        *)

Applied == turn \in {"EX", "DR"} /\ ~ stalled

\* The parts of the cycle, and when something has been fetched.
TurnInv ==
  /\ turn = "IF" => ~ stalled
  /\ turn = "MW" /\ stalled => ~ disableIF
  /\ turn = "MW" /\ ~ stalled => disableIF \/ halt
  /\ Applied => disableIF \/ halt
  /\ turn \in {"EX", "DR"} => MW.op # "halt"

\* The flush.
FlushInv ==
  /\ Fetched.op = "alu" => ~ Fetched.done
  /\ DR.op = "alu" => ~ DR.done
  /\ KillsLate(MW) /\ turn \in {"EX", "DR"} /\ (~ stalled \/ MW.op \notin {"callr", "trap"})
       => None(EX) /\ None(DR) /\ None(Fetched)
  /\ KillsLate(MW) /\ MW.op \notin {"callr", "trap"} => ~ (EX.op = "alu" /\ EX.done)
  /\ Kills(EX) /\ EX.op = "br" /\ turn = "DR" => None(DR) /\ None(Fetched)
  /\ MW.op = "intr" => None(EX) /\ None(DR) /\ None(Fetched)
  /\ EX.op = "intr" => None(DR) /\ None(Fetched)
  /\ DR.op = "intr" => None(Fetched)

\* nPC.
NextPCInv ==
  ~ halt /\ disableIF =>
    /\ Applied /\ Late(MW) => nPC = MW.dest.pc
    /\ turn = "DR" /\ ~ (Applied /\ Late(MW)) /\ EX.op = "br" /\ EX.guard => nPC = EX.dest.pc
    /\ ~ (Applied /\ Late(MW)) /\ ~ (EX.op = "br" /\ EX.guard) /\ Real(Fetched) => nPC = Succ(Fetched.addr)

\* The address behind a transfer that keeps it.
Saves(i) == Late(i) /\ ~ i.delayed /\ i.op \in {"call", "callr", "trap"}
AddrInv ==
  ~ halt =>
  /\ ~ disableIF /\ Saves(DR) /\ LiveDR => pc = Succ(DR.addr)
  /\ disableIF /\ Saves(DR) /\ LiveDR => Fetched.addr = Succ(DR.addr)
  /\ Saves(EX) /\ LiveEX => DR.addr = Succ(EX.addr)
  /\ Saves(MW) /\ (~ Applied \/ MW.op = "call") => EX.addr = Succ(MW.addr)

\* Delay_counter and Exception_handling_counter hold the next interrupt back.
DelayInv ==
  /\ ~ disableIF =>
       /\ DR.op \in CacheFlows \ {"intr"} => delay >= 3
       /\ EX.op \in CacheFlows \ {"intr"} => delay >= 2
       /\ MW.op \in CacheFlows \ {"intr"} => delay >= 1
       /\ DR.op = "br" => delay >= 2
       /\ EX.op = "br" => delay >= 1
       /\ DR.op = "intr" => handling = 3
       /\ EX.op = "intr" => handling = 2
       /\ MW.op = "intr" => handling = 1
       /\ DR.op # "intr" /\ EX.op # "intr" /\ MW.op # "intr" => handling = 0
  /\ disableIF =>
       /\ Fetched.op \in CacheFlows \ {"intr"} => delay >= 3
       /\ DR.op \in CacheFlows \ {"intr"} => delay >= 2
       /\ EX.op \in CacheFlows \ {"intr"} => delay >= 1
       /\ Fetched.op = "br" => delay >= 2
       /\ DR.op = "br" => delay >= 1
       /\ Fetched.op = "intr" => handling = 3
       /\ DR.op = "intr" => handling = 2
       /\ EX.op = "intr" => handling = 1
       /\ Fetched.op # "intr" /\ DR.op # "intr" /\ EX.op # "intr" => handling = 0

\* Halt is set when the program has come to its end, or does so in MW.
HaltInv ==
  /\ arch.halted => halt /\ ~ disableIF
  /\ halt => arch.halted \/ (KillsLate(MW) /\ MW.op = "ret" /\ MW.dest.base = 0)
  /\ halt /\ ~ Applied => ~ disableIF
  /\ Applied /\ KillsLate(MW) /\ MW.dest.base = 0 => halt
  /\ (\E s \in Stages : pipe[s].op = "halt") => halt

-----------------------------------------------------------------------------
\* Destinations that were read in EX are still those that the registers hold.
ReadyInv ==
  /\ MW.op = "ret" => MW.dest = arch.link
  /\ MW.op = "xret" => MW.dest = arch.saved
  /\ MW.op \in {"trap", "intr"} => MW.dest = Place(Handler, Handler)
  /\ turn = "DR" =>
       /\ EX.op = "ret" => EX.dest = AfterMW.link
       /\ EX.op = "xret" => EX.dest = AfterMW.saved
       /\ EX.op \in {"trap", "intr"} => EX.dest = Place(Handler, Handler)

\* The address n bundles further on.
Ahead(at, n) ==
  CASE n = 0 -> at
    [] n = 1 -> Succ(at)
    [] n = 2 -> Succ(Succ(at))
    [] n = 3 -> Succ(Succ(Succ(at)))
\* The return address and the method behind the slots that are under way.
EventualLink(a) ==
  IF a.slots > 0 /\ a.calling THEN Place(a.base, Ahead(a.next, a.slots)) ELSE a.link
EventualBase(a) == IF a.slots > 0 THEN a.dest.base ELSE a.base

\* BASE, srb and sro, sxb and sxo.
RegsInv ==
  /\ ~ halt => base = EventualBase(IF Applied THEN AfterMW ELSE arch)
  /\ ~ (Late(MW) /\ MW.op \in {"call", "callr"}) => regs.link = EventualLink(arch)
  /\ Applied => regs.link = EventualLink(AfterMW)
  /\ ~ (Late(MW) /\ MW.op \in {"trap", "intr"}) => regs.saved = arch.saved
  /\ Applied => regs.saved = AfterMW.saved

-----------------------------------------------------------------------------
\* The modes that the exception unit knows of: those it was told before what told it
\* has left the pipeline.
ModesInUnit ==
  LET settled == IF MW.op \in {"sts", "xret"} /\ MW.done THEN AfterMW.modes ELSE arch.modes
  IN  IF \E s \in Stages : pipe[s].op = "intr" THEN <<2>> \o settled ELSE settled

Changes(i) == i.op \in ModeChanges

\* Status, and at most one change of it under way.
UnitInv ==
  /\ "sts" \notin program => unit.mask = {} /\ \A s \in Stages : pipe[s].op # "intr"
  /\ "trap" \notin program => unit.status = Encoded(ModesInUnit)
  /\ Changes(EX) => ~ Changes(MW) \/ (MW.op = "sts" /\ MW.done /\ EX.op = "intr")
  /\ Changes(DR) => ~ Changes(MW) \/ (MW.op = "sts" /\ MW.done /\ DR.op = "intr")
  /\ Changes(Fetched) => ~ Changes(MW) \/ (MW.op = "sts" /\ MW.done /\ Fetched.op = "intr")
  /\ Changes(DR) => ~ Changes(EX)
  /\ Changes(Fetched) => ~ Changes(EX) /\ ~ Changes(DR)
  /\ \A s \in Stages \ {"MW"} : pipe[s].op \in {"sts", "xret"} => ~ pipe[s].done
  /\ turn \in {"EX", "DR"} /\ MW.op = "sts" => MW.done
  /\ Applied /\ MW.op = "xret" /\ MW.guard => MW.done

\* The registers of the simulator, except for what the stages hold.
PipeIInv ==
  /\ TypeInv
  /\ running => /\ ChainInv /\ TurnInv /\ FlushInv /\ NextPCInv /\ AddrInv
                /\ DelayInv /\ HaltInv /\ ReadyInv /\ RegsInv /\ UnitInv
  /\ ~ running => turn = "MW"

\* What the programs keep to.
Sound ==
  /\ ~ HaltingSlots
  /\ \A p \in Programs : ~ {"trap", "sts"} \subseteq p
=============================================================================
