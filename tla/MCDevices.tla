------------------------------ MODULE MCDevices -------------------------------
(***************************************************************************)
(* The method cache, and the parts of the simulator beside the pipeline and   *)
(* the memories, one at a time: the variable chosen says which.  The timers,  *)
(* the devices that do input and output, the memory map with the MMU, the     *)
(* records of the calls, and the stack cache, of which this is the run with   *)
(* fairness.                                                                *)
(*                                                                         *)
(* The method cache runs a program of three methods of one block, one of two  *)
(* and one of four blocks, and one whose size word is 0, which stands for a   *)
(* method larger than any cache.                                            *)
(***************************************************************************)
EXTENDS MethodCache

MCSizeAt == (2 :> 2) @@ (5 :> 1) @@ (7 :> 2) @@ (10 :> 4) @@ (15 :> 7) @@ (23 :> 0)

\* Calls and returns into each method: to its start, and behind its first word.
MCTargets == {[base |-> a, pc |-> a] : a \in DOMAIN MCSizeAt}
               \cup {[base |-> a, pc |-> a + 1] : a \in {2, 10}}

VARIABLES
  chosen,
  stackTurn, stall, ifWait, stackMW, ex, ss, st, content, phase, buffer, lazyPtr,
  nextLazy, evict, proxyTop, mem, wait, stackFault, loaded, written,
  deviceTurn, handling, stalled,
  cycle, high, lowInterrupt, interrupt, lastUsec, delay, value,
  readLow, wroteLow, alarm, issued, release,
  file, kernel, streamBuffer, received, polled, led, printed,
  tx, txReady, txBuffer, txSeen, sending, started, sent,
  rx, rxReady, rxBuffer, rxSeen, receiving, network, taken,
  frames, debug, found, profile, report, spent, below, jumped, ended,
  segments, privileged, cells, answer, kept, refused

stackVars == <<stackTurn, stall, ifWait, stackMW, ex, ss, st, content, phase, buffer,
               lazyPtr, nextLazy, evict, proxyTop, mem, wait, stackFault, loaded,
               written>>
clockVars == <<high, lowInterrupt, interrupt, lastUsec, delay, value,
               readLow, wroteLow, alarm, issued, release>>
ioVars == <<file, kernel, streamBuffer, received, polled, led, printed,
            tx, txReady, txBuffer, txSeen, sending, started, sent,
            rx, rxReady, rxBuffer, rxSeen, receiving, network, taken>>
callVars == <<frames, debug, found, profile, report, spent, below, jumped, ended>>
mapVars == <<segments, privileged, cells, answer, kept, refused>>
others == <<deviceTurn, handling, stalled, cycle, clockVars, ioVars, callVars, mapVars>>

Stack == INSTANCE StackCache WITH
  turn <- stackTurn, mw <- stackMW, fault <- stackFault,
  Kind <- "ablock", NumBlocks <- 2, TransferWords <- 2, AddrSpace <- 16,
  StackBase <- 4, MaxAddr <- 4, Val <- {0}, Zero <- 0, Undef <- -1, MaxSize <- 2,
  Ops <- {"reserve", "free", "ensure", "spill", "nop"},
  Predicated <- FALSE, Adjacent <- TRUE, MaxLatency <- 2, MaxFetch <- 1

all == <<vars, stackVars, others, chosen>>

Clock == INSTANCE Timers WITH
  turn <- deviceTurn, Counters <- {"clock"}, Delays <- {},
  Word <- 3, Frequency <- 2, MaxCycle <- 7
USec == INSTANCE Timers WITH
  turn <- deviceTurn, Counters <- {"usec"}, Delays <- {},
  Word <- 3, Frequency <- 2, MaxCycle <- 7
Deadline == INSTANCE Timers WITH
  turn <- deviceTurn, Counters <- {}, Delays <- 0 .. 2,
  Word <- 4, Frequency <- 2, MaxCycle <- 9

File == INSTANCE IoDevices WITH
  turn <- deviceTurn, buffer <- streamBuffer, Input <- <<1, 2, 3>>, IsTTY <- FALSE,
  LedStates <- 0 .. 2, MaxPrinted <- 3, Frames <- <<>>, Arrivals <- <<>>
Terminal == INSTANCE IoDevices WITH
  turn <- deviceTurn, buffer <- streamBuffer, Input <- <<1, 2, 3, 4>>, IsTTY <- TRUE,
  LedStates <- {}, MaxPrinted <- 0, Frames <- <<>>, Arrivals <- <<>>
Ethernet == INSTANCE IoDevices WITH
  turn <- deviceTurn, buffer <- streamBuffer, Input <- <<>>, IsTTY <- FALSE,
  LedStates <- {}, MaxPrinted <- 0, Frames <- <<1, 2, 3>>, Arrivals <- <<4, 5, 6>>

\* Statistics of a function f, in a program that jumps past frames, or of the whole run.
OfFunction == INSTANCE CallStack WITH
  Functions <- {"main", "f", "g"}, Places <- {1, 2}, Entry <- "main", Target <- "f",
  Jumps <- TRUE, MaxCycle <- 6, MaxDepth <- 4
OfRun == INSTANCE CallStack WITH
  Functions <- {"main", "f", "g"}, Places <- {1, 2}, Entry <- "main", Target <- "none",
  Jumps <- FALSE, MaxCycle <- 6, MaxDepth <- 4

\* Two segments that may share words of the main memory; and all devices, with gaps
\* between the local memory, the scratchpad of the NOC and the others.
Granted(p, n) == [perm |-> p, length |-> n]
Mmu == INSTANCE MemoryMap WITH
  Map <- <<[device |-> "mmu", first |-> 0, words |-> 4]>>, WindowBase <- 0, LocalWords <- 0,
  RouteWords <- 0, CpuInfo <- <<>>, NumSegments <- 2, SegmentWords <- 2, MainWords <- 3,
  Bases <- {0, 1}, Values <- {0, 1},
  Rights <- {Granted({}, 0), Granted({"RD", "WR"}, 1), Granted({"RD", "EX"}, 0)}
Devices == INSTANCE MemoryMap WITH
  Map <- <<[device |-> "cpuinfo", first |-> 8, words |-> 3],
           [device |-> "perfcounters", first |-> 11, words |-> 1],
           [device |-> "noc", first |-> 4, words |-> 3],
           [device |-> "mmu", first |-> 12, words |-> 4]>>,
  WindowBase <- 4, LocalWords <- 2, RouteWords <- 1, CpuInfo <- <<1, 80, 2>>,
  NumSegments <- 2, SegmentWords <- 2, MainWords <- 0, Bases <- {0}, Values <- {0, 1},
  Rights <- {Granted({}, 0)}

UnusedClock ==
  /\ high = "unused" /\ lowInterrupt = "unused" /\ interrupt = "unused"
  /\ lastUsec = "unused" /\ delay = "unused" /\ value = "unused" /\ readLow = "unused"
  /\ wroteLow = "unused" /\ alarm = "unused" /\ issued = "unused" /\ release = "unused"
UnusedIo ==
  /\ file = "unused" /\ kernel = "unused" /\ streamBuffer = "unused"
  /\ received = "unused" /\ polled = "unused" /\ led = "unused" /\ printed = "unused"
  /\ tx = "unused" /\ txReady = "unused" /\ txBuffer = "unused" /\ txSeen = "unused"
  /\ sending = "unused" /\ started = "unused" /\ sent = "unused"
  /\ rx = "unused" /\ rxReady = "unused" /\ rxBuffer = "unused" /\ rxSeen = "unused"
  /\ receiving = "unused" /\ network = "unused" /\ taken = "unused"
UnusedCalls ==
  /\ frames = "unused" /\ debug = "unused" /\ found = "unused" /\ profile = "unused"
  /\ report = "unused" /\ spent = "unused" /\ below = "unused" /\ jumped = "unused"
  /\ ended = "unused"
UnusedTurn == deviceTurn = "unused" /\ handling = "unused" /\ stalled = "unused"

UnusedMap ==
  /\ segments = "unused" /\ privileged = "unused" /\ cells = "unused"
  /\ answer = "unused" /\ kept = "unused" /\ refused = "unused"

\* The method cache and the stack cache rest in an initial state when they are not run.
AnyInit ==
  /\ Init /\ Stack!Init
  /\ \/ chosen \in {"method", "stack"} /\ UnusedTurn /\ cycle = 0 /\ UnusedClock /\ UnusedIo /\ UnusedCalls
     \/ /\ UnusedIo /\ UnusedCalls
        /\ \/ chosen = "clock" /\ Clock!Init
           \/ chosen = "usec" /\ USec!Init
           \/ chosen = "deadline" /\ Deadline!Init
     \/ /\ cycle = 0 /\ UnusedClock /\ UnusedCalls
        /\ \/ chosen = "file" /\ File!Init
           \/ chosen = "terminal" /\ Terminal!Init
           \/ chosen = "ethernet" /\ Ethernet!Init
     \/ /\ UnusedTurn /\ UnusedClock /\ UnusedIo
        /\ \/ chosen = "function" /\ OfFunction!Init
           \/ chosen = "run" /\ OfRun!Init
     \/ /\ UnusedTurn /\ cycle = 0 /\ UnusedClock /\ UnusedIo /\ UnusedCalls
        /\ \/ chosen = "mmu" /\ Mmu!Init
           \/ chosen = "map" /\ Devices!Init
  /\ chosen \notin {"mmu", "map"} => UnusedMap
  /\ chosen # "method" => kind = "lru" /\ base = 2

OtherNext ==
  \/ /\ \/ chosen = "clock" /\ Clock!Next
        \/ chosen = "usec" /\ USec!Next
        \/ chosen = "deadline" /\ Deadline!Next
     /\ UNCHANGED <<ioVars, callVars, mapVars>>
  \/ /\ \/ chosen = "file" /\ File!Next
        \/ chosen = "terminal" /\ Terminal!Next
        \/ chosen = "ethernet" /\ Ethernet!Next
     /\ UNCHANGED <<cycle, clockVars, callVars, mapVars>>
  \/ /\ \/ chosen = "function" /\ OfFunction!Next
        \/ chosen = "run" /\ OfRun!Next
     /\ UNCHANGED <<deviceTurn, handling, stalled, clockVars, ioVars, mapVars>>
  \/ /\ \/ chosen = "mmu" /\ Mmu!Next
        \/ chosen = "map" /\ Devices!Next
     /\ UNCHANGED <<deviceTurn, handling, stalled, cycle, clockVars, ioVars, callVars>>

StackNext == chosen = "stack" /\ Stack!Next

AnyNext ==
  /\ chosen' = chosen
  /\ \/ chosen = "method" /\ Next /\ UNCHANGED <<stackVars, others>>
     \/ StackNext /\ UNCHANGED <<vars, others>>
     \/ OtherNext /\ UNCHANGED <<vars, stackVars>>

\* The stages are called in every cycle, and memory answers.
FairAnySpec == AnyInit /\ [][AnyNext]_all /\ WF_stackVars(StackNext)

-----------------------------------------------------------------------------
\* No stack instruction and no fetch stalls the pipeline for ever (StallsEnd).
StackStallsEnd == chosen = "stack" => Stack!StallsEnd

\* The two words of a counter that a context reads are of one time, and an alarm rings
\* once, when its time comes, or never if it had come before; a load from the deadline
\* device waits until the time that was stored, and no longer, when the time is not the
\* greatest that a word holds (ReadsOneTime, RingsOnce, WaitsExactly; see
\* MCDeadlineWrap.cfg).
TimersKeepTime ==
  [][/\ chosen = "clock" => Clock!ReadsOneTime /\ Clock!RingsOnce
     /\ chosen = "usec" => USec!ReadsOneTime /\ USec!RingsOnce
     /\ chosen = "deadline" => Deadline!WaitsExactly]_all

\* Bytes and frames pass in order, none lost and none twice, and a load that saw data
\* is answered (UartInOrder, LedsPrinted, FramesInOrder).
StreamsKept ==
  [][/\ chosen = "file" => File!StreamsInOrder
     /\ chosen = "terminal" => Terminal!StreamsInOrder
     /\ chosen = "ethernet" => Ethernet!StreamsInOrder]_all

\* What a program stores through a segment that shares no word with others, or in a
\* memory of the map, it finds there again, and no register that a device has is
\* refused (AnswersLastStored, RefusesOnlyUnmapped).
AccessesMapped ==
  [][/\ chosen = "mmu" => Mmu!AnswersLastStored
     /\ chosen = "map" => Devices!AnswersLastStored /\ Devices!RefusesOnlyUnmapped]_all

\* The debug stack has the program's frames, and a printed profile its calls and cycles
\* (ProfileExact, FramesKnown).
AnyCallsRecorded ==
  /\ chosen = "function" => OfFunction!CallsRecorded
  /\ chosen = "run" => OfRun!CallsRecorded
=============================================================================
