---------------------------- MODULE MCInterrupts -----------------------------
(***************************************************************************)
(* The pipeline with a program that allows interrupts and returns from them, *)
(* for the run with fairness.                                               *)
(***************************************************************************)
EXTENDS Naturals

VARIABLES
  pipe, stage, memoryStalls, fetchDone, fetchPC, nextPC, base, delay, handling, halt,
  running, regs, unit, program, arch

pipelineVars ==
  <<pipe, stage, memoryStalls, fetchDone, fetchPC, nextPC, base, delay, handling, halt,
    running, regs, unit, program, arch>>

Interrupted == INSTANCE Pipeline WITH
  turn <- stage, stalled <- memoryStalls, disableIF <- fetchDone, pc <- fetchPC,
  nPC <- nextPC, Programs <- {{"alu", "br", "sts", "xret"}},
  Ops <- {"alu", "br", "sts", "xret"}, AddrSpace <- 3, Entry <- 1, Handler <- 2,
  Methods <- {2}, Branches <- {1}, StatusValues <- {3}, HaltingSlots <- FALSE,
  MaxNesting <- 2, StatusSpan <- 256, NoIsr <- 0

\* The instruction cache answers, and the memory does.
FetchAnswered == Interrupted!Next /\ stage = "IF" /\ fetchDone'
AccessAnswered == Interrupted!Next /\ stage = "MW" /\ ~ memoryStalls'
=============================================================================
