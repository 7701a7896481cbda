------------------------------ MODULE MCPipeline ------------------------------
(***************************************************************************)
(* Kinds of programs for the pipeline: with calls and returns, with transfers *)
(* within and between methods, with interrupts, with calls through a          *)
(* register, and with traps.                                               *)
(*                                                                         *)
(* The variable chosen says whether the pipeline runs or one of the stack     *)
(* caches of MCStackKinds.                                                  *)
(***************************************************************************)
EXTENDS Pipeline, MCStackKinds

AllOps == Transfers \cup {"alu", "mem", "sts"}

AllPrograms ==
  {{"alu", "call", "ret"},
   {"alu", "mem", "br", "brcf"},
   {"alu", "br", "sts", "xret"},
   {"alu", "callr"},
   {"alu", "trap"}}

VARIABLE chosen

\* What is not chosen rests in an initial state.
AnyInit ==
  \/ chosen = "pipeline" /\ Init /\ stackKind = "none" /\ StackInit
  \/ chosen = "stack" /\ program = {"alu", "trap"} /\ Init /\ StackInit /\ stackKind # "none"

AnyNext ==
  /\ chosen' = chosen
  /\ \/ chosen = "pipeline" /\ Next /\ UNCHANGED stackVars
     \/ chosen = "stack" /\ StackNext /\ UNCHANGED vars

AnySpec == AnyInit /\ [][AnyNext]_<<vars, stackVars, chosen>>
=============================================================================
