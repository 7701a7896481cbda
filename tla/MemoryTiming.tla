---------------------------- MODULE MemoryTiming -----------------------------
(***************************************************************************)
(* How long main memory takes for a request (src/memory.cc).  Addresses    *)
(* and sizes count words, the smallest unit in which the memories measure  *)
(* a transfer.                                                             *)
(***************************************************************************)
EXTENDS Integers

CONSTANTS
  BurstSize,      \* Num_bytes_per_burst
  PageSize,       \* Num_bytes_per_page
  TicksPerBurst,  \* Num_ticks_per_burst
  ReadDelay,      \* Num_read_delay_ticks
  Cores, CpuId,   \* the number of cores, and this one, for the TDM memory
  RefreshTicks,   \* Num_refresh_ticks_per_round
  UnsignedSpan    \* number of values of an unsigned int

ASSUME Positive ==
  /\ BurstSize \in Nat \ {0} /\ PageSize \in Nat \ {0}
  /\ UnsignedSpan \in Nat \ {0}

\* With both zero pasim builds the ideal memory.
ASSUME TakesTime ==
  /\ TicksPerBurst \in Nat /\ ReadDelay \in Nat
  /\ TicksPerBurst + ReadDelay > 0

RoundLength == Cores * TicksPerBurst + RefreshTicks
RoundStart == CpuId * TicksPerBurst

ASSUME Round == Cores \in Nat \ {0} /\ CpuId \in 0 .. Cores - 1 /\ RefreshTicks \in Nat

-----------------------------------------------------------------------------
\* get_aligned_size and the aligned_address it returns.
AlignedAddress(address) == (address \div BurstSize) * BurstSize

\* Faulty: the last burst is the one after the request.
AlignedSizePastEnd(address, size) ==
  ((address + size) \div BurstSize + 1) * BurstSize - AlignedAddress(address)

AlignedSize(address, size) ==
  ((address + size - 1) \div BurstSize + 1) * BurstSize - AlignedAddress(address)

Bursts(aligned) == (aligned - 1) \div BurstSize + 1

\* Only a read, or a write somebody waits for, pays the delay.
Delay(load, posted) == IF load \/ ~posted THEN ReadDelay ELSE 0

FixedTicks(address, size, load, posted) ==
  TicksPerBurst * Bursts(AlignedSize(address, size)) + Delay(load, posted)

\* Faulty: a request that crosses into another page opens one page.
PagesWithin(start, aligned) == (aligned - 1) \div PageSize + 1

Pages(start, aligned) ==
  (start + aligned - 1) \div PageSize - start \div PageSize + 1

\* A page costs one burst; words beyond take a tick each.  The subtraction is
\* unsigned: it wraps where bursts are longer than pages.
VariableTicks(address, size, load, posted) ==
  LET start == AlignedAddress(address)
      aligned == AlignedSize(address, size)
      pages == Pages(start, aligned)
  IN  pages * TicksPerBurst + ((aligned - pages * BurstSize) % UnsignedSpan)
        + Delay(load, posted)

\* The TDM memory counts the rounds of a request.
TDMTicks(address, size) == Bursts(AlignedSize(address, size))

\* Faulty: the response is expected at the end of the slot itself.
RoundEndIgnoresDelay(posted) == (RoundStart + TicksPerBurst) % RoundLength

\* Faulty: the end of the slot does not wrap around.
RoundEndUnwrapped(posted) ==
  RoundStart + TicksPerBurst + (IF posted THEN 0 ELSE ReadDelay)

\* round_end of tdm_memory_t::tick_request
RoundEnd(posted) ==
  LET end == RoundStart + TicksPerBurst + (IF posted THEN 0 ELSE ReadDelay)
  IN  IF end >= RoundLength THEN end - RoundLength ELSE end
=============================================================================
