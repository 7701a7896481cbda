--------------------------- MODULE MCMemoryKinds -----------------------------
(***************************************************************************)
(* The memories that take time in one run; the variable chosen says which  *)
(* one pasim was started with.  The fixed delay, the bursts and the slots  *)
(* serve programs whose data is apart from their instructions, and, named  *)
(* by the second half, programs that load and store the very words of      *)
(* their instructions.  The DRAMs of MCDram are those of ramulator.        *)
(***************************************************************************)
EXTENDS MCMainMemory, MCDram, MCInterrupts

VARIABLE chosen

Variable == INSTANCE MainMemory WITH Kind <- "variable"
TDM == INSTANCE MainMemory WITH Kind <- "tdm"
FixedCode == INSTANCE MainMemory WITH DataAccesses <- CodeAccesses
VariableCode == INSTANCE MainMemory WITH Kind <- "variable", DataAccesses <- CodeAccesses
TDMCode == INSTANCE MainMemory WITH Kind <- "tdm", DataAccesses <- CodeAccesses

DataApart == {"fixed", "variable", "tdm"}
DataIsCode == {"fixedCode", "variableCode", "tdmCode"}

AnyInit ==
  \/ /\ chosen \in DataApart \cup DataIsCode
     /\ CASE chosen \in {"fixed", "fixedCode"} -> Init
          [] chosen \in {"variable", "variableCode"} -> Variable!Init
          [] chosen \in {"tdm", "tdmCode"} -> TDM!Init
     /\ dram = "none" /\ D3!Init /\ Interrupted!Init
  \/ chosen = "dram" /\ DramInit /\ Init /\ Interrupted!Init
  \/ chosen = "interrupts" /\ Interrupted!Init /\ Init /\ dram = "none" /\ D3!Init

MemoryNext ==
  \/ chosen = "fixed" /\ Next
  \/ chosen = "variable" /\ Variable!Next
  \/ chosen = "tdm" /\ TDM!Next
  \/ chosen = "fixedCode" /\ FixedCode!Next
  \/ chosen = "variableCode" /\ VariableCode!Next
  \/ chosen = "tdmCode" /\ TDMCode!Next

\* A program that has halted rests; InterruptsTaken is about those that go on.
HaltedNext ==
  /\ chosen = "interrupts" /\ ~ running
  /\ UNCHANGED <<vars, dram, dramVars, pipelineVars>>

AnyNext ==
  /\ chosen' = chosen
  /\ \/ MemoryNext /\ UNCHANGED <<dram, dramVars, pipelineVars>>
     \/ chosen = "dram" /\ DramNext /\ UNCHANGED <<vars, pipelineVars>>
     \/ chosen = "interrupts" /\ Interrupted!Next /\ UNCHANGED <<vars, dram, dramVars>>
     \/ HaltedNext

all == <<vars, dram, dramVars, pipelineVars, chosen>>

\* The loop of simulator_t::run goes on, and the memory's clock with it;
\* the memory answers the pipeline with interrupts.
FairAnySpec ==
  /\ AnyInit /\ [][AnyNext]_all
  /\ []<><<AnyNext>>_all
  /\ SF_pipelineVars(chosen = "interrupts" /\ FetchAnswered)
  /\ SF_pipelineVars(chosen = "interrupts" /\ AccessAnswered)

-----------------------------------------------------------------------------
\* When a program does not touch its instructions, every access is answered exactly when
\* the requests before it and its own are through (AnsweredOnTime); a load of an
\* instruction may be given the request of the fetch.
ApartAnsweredOnTime == [][(chosen \in DataApart) => AnswersOnTime]_vars

\* No access and no fetch is left waiting for ever, not even one whose request another
\* port could take (AccessesAnswered), and the DRAMs answer every request, whatever the
\* refreshes, the writes queued before it and the rows they opened (RequestsAnswered).
MemoryAnswers ==
  /\ chosen \in DataApart \cup DataIsCode => AccessesAnswered
  /\ chosen = "dram" => D3!RequestsAnswered

\* A pending interrupt is taken when the program allows it (InterruptsTaken).
PendingInterruptsTaken == chosen = "interrupts" => Interrupted!InterruptsTaken
=============================================================================
