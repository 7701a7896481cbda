------------------------------- MODULE MCDram --------------------------------
(***************************************************************************)
(* Small DRAMs for the runs: the standards with times short enough for the *)
(* commands of a few requests to meet, one with two ranks, one with bank   *)
(* groups, one with a single rank whose activations fill the window of     *)
(* four.  The variable dram says which one pasim was started with.         *)
(***************************************************************************)
EXTENDS Integers, Sequences, DramStandards

VARIABLES
  dram,
  readq, writeq, otherq, pending, writeMode, sinceRefresh, open, waits, past, table,
  serving, issued, asks, left, idle, request, coreTicks, atPort, ticksDue, failed

dramVars ==
  <<readq, writeq, otherq, pending, writeMode, sinceRefresh, open, waits, past, table,
    serving, issued, asks, left, idle, request, coreTicks, atPort, ticksDue, failed>>

LOCAL Short ==
  [nBL |-> 2, nCCD |-> 2, nCCDS |-> 2, nCCDL |-> 3, nRTRS |-> 1, nCL |-> 3, nRCD |-> 2,
   nRP |-> 2, nRPpb |-> 1, nRPab |-> 2, nCWL |-> 1, nRAS |-> 3, nRC |-> 4, nRTP |-> 1,
   nWTR |-> 1, nWTRS |-> 1, nWTRL |-> 2, nWR |-> 1, nRRD |-> 1, nRRDS |-> 1, nRRDL |-> 2,
   nFAW |-> 18, nRFC |-> 5, nRFCab |-> 5, nDQSCK |-> 1, nPPD |-> 2, nREFI |-> 30]
SmallDDR3 == DDR3(Short)
SmallDDR4 == DDR4(Short)
SmallLPDDR3 == LPDDR3(Short)
SmallLPDDR4 == LPDDR4(Short)

LOCAL Ask(kind, burst, n) == [kind |-> kind, start |-> burst, bursts |-> n]
LOCAL Few == {Ask("read", 1, 2), Ask("write", 1, 1), Ask("write", 6, 2), Ask("read", 5, 1)}
LOCAL Many == {Ask("write", 1, 5), Ask("read", 2, 1), Ask("read", 5, 2)}

D3 == INSTANCE RamulatorMemory WITH
  Standard <- SmallDDR3, Children <- <<2, 2>>, Rows <- 2, Columns <- 1, QueueMax <- 3,
  Ports <- <<"mw">>, Asks <- Few, MaxAsks <- 3, MaxIdle <- 1,
  NumCoreTicks <- 1, NumMemTicks <- 1
D4 == INSTANCE RamulatorMemory WITH
  Standard <- SmallDDR4, Children <- <<1, 2, 2>>, Rows <- 2, Columns <- 1, QueueMax <- 3,
  Ports <- <<"mw">>, Asks <- Few, MaxAsks <- 3, MaxIdle <- 1,
  NumCoreTicks <- 1, NumMemTicks <- 1
L3 == INSTANCE RamulatorMemory WITH
  Standard <- SmallLPDDR3, Children <- <<1, 2>>, Rows <- 4, Columns <- 1, QueueMax <- 5,
  Ports <- <<"mw">>, Asks <- Many, MaxAsks <- 3, MaxIdle <- 2,
  NumCoreTicks <- 2, NumMemTicks <- 3
L4 == INSTANCE RamulatorMemory WITH
  Standard <- SmallLPDDR4, Children <- <<1, 2>>, Rows <- 2, Columns <- 2, QueueMax <- 3,
  Ports <- <<"mw">>, Asks <- Few, MaxAsks <- 3, MaxIdle <- 1,
  NumCoreTicks <- 3, NumMemTicks <- 2

\* What the proofs assume of a standard and of a channel (MemoryOK, SpacesData).
ASSUME DramsAreOK ==
  /\ D3!MemoryOK /\ D4!MemoryOK /\ L3!MemoryOK /\ L4!MemoryOK
  /\ D3!SpacesData(SmallDDR3) /\ D4!SpacesData(SmallDDR4)
  /\ L3!SpacesData(SmallLPDDR3) /\ L4!SpacesData(SmallLPDDR4)

DramInit ==
  \/ dram = "ddr3" /\ D3!Init
  \/ dram = "ddr4" /\ D4!Init
  \/ dram = "lpddr3" /\ L3!Init
  \/ dram = "lpddr4" /\ L4!Init

DramNext ==
  /\ dram' = dram
  /\ \/ dram = "ddr3" /\ D3!Next
     \/ dram = "ddr4" /\ D4!Next
     \/ dram = "lpddr3" /\ L3!Next
     \/ dram = "lpddr4" /\ L4!Next

\* Two transfers are never on the data bus at once, and every command keeps the times of
\* its standard (DataBusFree, CommandsKeepApart).
DramTimesKept ==
  /\ dram = "ddr3" => D3!DataBusFree /\ D3!CommandsKeepApart
  /\ dram = "ddr4" => D4!DataBusFree /\ D4!CommandsKeepApart
  /\ dram = "lpddr3" => L3!DataBusFree /\ L3!CommandsKeepApart
  /\ dram = "lpddr4" => L4!DataBusFree /\ L4!CommandsKeepApart

\* Rows, requests and refreshes are accounted for (AccountsExact, ReadsAccounted).
DramAccountsExact ==
  /\ dram = "ddr3" => D3!AccountsExact
  /\ dram = "ddr4" => D4!AccountsExact
  /\ dram = "lpddr3" => L3!AccountsExact
  /\ dram = "lpddr4" => L4!AccountsExact
  /\ D3!ReadsAccounted
=============================================================================
