--------------------------- MODULE MCStackKinds ------------------------------
(***************************************************************************)
(* Small instances of the stack caches beside the block cache; the variable  *)
(* stackKind says which one runs, if any.  The ideal cache and the          *)
(* proxy never wait for memory; the lazy cache is run with programs that     *)
(* keep its stack control instructions apart (see MCStackLazyAdjacent).      *)
(* Their stacks are smaller than that of the aligned cache.                  *)
(***************************************************************************)
EXTENDS Integers

VARIABLES
  stackKind,
  stackTurn, stall, ifWait, mw, ex, ss, st, content, phase, buffer, lazyPtr, nextLazy,
  evict, proxyTop, mem, wait, fault, loaded, written

stackVars ==
  <<stackKind, stackTurn, stall, ifWait, mw, ex, ss, st, content, phase, buffer, lazyPtr,
    nextLazy, evict, proxyTop, mem, wait, fault, loaded, written>>

LOCAL Unstored == -1     \* the value Undef
LOCAL Small == 3
LOCAL Large == 6

\* The instructions a program is made of.
LOCAL StackOps == {"reserve", "free", "ensure", "spill", "load", "store", "nop"}

Aligned == INSTANCE StackCache WITH
  turn <- stackTurn, Kind <- "ablock", NumBlocks <- 4, TransferWords <- 2,
  StackBase <- Large, MaxAddr <- Large, Ops <- StackOps \ {"spill"}, Adjacent <- TRUE,
  AddrSpace <- 16, Val <- {0, 1}, Zero <- 0, Undef <- Unstored, MaxSize <- 2,
  Predicated <- FALSE, MaxLatency <- 1, MaxFetch <- 0
Ideal == INSTANCE StackCache WITH
  turn <- stackTurn, Kind <- "ideal", NumBlocks <- 4, TransferWords <- 2,
  StackBase <- Small, MaxAddr <- Small, Ops <- StackOps, Adjacent <- TRUE,
  AddrSpace <- 16, Val <- {0, 1}, Zero <- 0, Undef <- Unstored, MaxSize <- 2,
  Predicated <- FALSE, MaxLatency <- 1, MaxFetch <- 0
Proxy == INSTANCE StackCache WITH
  turn <- stackTurn, Kind <- "dcache", NumBlocks <- 4, TransferWords <- 2,
  StackBase <- Small, MaxAddr <- Small, Ops <- StackOps, Adjacent <- TRUE,
  AddrSpace <- 16, Val <- {0, 1}, Zero <- 0, Undef <- Unstored, MaxSize <- 2,
  Predicated <- FALSE, MaxLatency <- 1, MaxFetch <- 0
Lazy == INSTANCE StackCache WITH
  turn <- stackTurn, Kind <- "lblock", NumBlocks <- 2, TransferWords <- 1,
  StackBase <- Small, MaxAddr <- Small, Ops <- StackOps, Adjacent <- FALSE,
  AddrSpace <- 16, Val <- {0, 1}, Zero <- 0, Undef <- Unstored, MaxSize <- 2,
  Predicated <- FALSE, MaxLatency <- 1, MaxFetch <- 0

StackInit ==
  \/ stackKind \in {"none", "aligned"} /\ Aligned!Init
  \/ stackKind = "ideal" /\ Ideal!Init
  \/ stackKind = "proxy" /\ Proxy!Init
  \/ stackKind = "lazy" /\ Lazy!Init

StackNext ==
  /\ stackKind' = stackKind
  /\ \/ stackKind = "aligned" /\ Aligned!Next
     \/ stackKind = "ideal" /\ Ideal!Next
     \/ stackKind = "proxy" /\ Proxy!Next
     \/ stackKind = "lazy" /\ Lazy!Next

-----------------------------------------------------------------------------
\* The blocks of the aligned cache never hold more words than it has.
AlignedWithinCapacity == stackKind = "aligned" => Aligned!WithinCapacity

\* When an instruction leaves MW, content and pointers agree (PointersMatchContent)
\* in every cache that keeps its words itself.
AllPointersMatchContent ==
  /\ stackKind = "aligned" => Aligned!PointersMatchContent
  /\ stackKind = "lazy" => Lazy!PointersMatchContent

\* A word that is stored, and that the lazy cache holds at or above its lazy
\* pointer, is in memory too (CoherentAboveLazyPointer).
LazyCoherent == stackKind = "lazy" => Lazy!CoherentAboveLazyPointer

\* The stacks with the base of the aligned one, whose addresses are larger.
LOCAL Shift == IF stackKind \in {"none", "aligned"} THEN 0 ELSE Large - Small
LOCAL NothingStored == [a \in 0 .. Large |-> Unstored]
LOCAL Raised(promised) ==
  [a \in 0 .. Large |-> IF a < Large - Small THEN Unstored
                         ELSE promised[a - (Large - Small)]]
LOCAL AnyPromised ==
  CASE stackKind = "none"    -> NothingStored
    [] stackKind = "aligned" -> Aligned!Promised
    [] stackKind = "ideal"   -> Raised(Ideal!Promised)
    [] stackKind = "proxy"   -> Raised(Proxy!Promised)
    [] stackKind = "lazy"    -> Raised(Lazy!Promised)
AnyProgram == INSTANCE ProgramStack WITH
  top <- Aligned!ArchTop + Shift, stack <- AnyPromised,
  request <- [Aligned!Request EXCEPT !.addr = @ + Shift],
  StackBase <- Large, Addr <- 0 .. Large, Val <- {0, 1}, Undef <- Unstored

\* Whichever cache was chosen, the program sees a stack.
AllRefineProgramStack == AnyProgram!Spec
=============================================================================
