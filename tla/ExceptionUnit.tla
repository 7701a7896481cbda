---------------------------- MODULE ExceptionUnit ----------------------------
(***************************************************************************)
(* The exception unit (excunit.cc) as operators over its registers.  The    *)
(* pipeline calls them when an interrupt is taken, at a trap and at xret;   *)
(* a device calls Fire; loads and stores reach ReadRegister and             *)
(* WriteRegister through the memory map.                                    *)
(*                                                                         *)
(* Mask and Pending are sets of exception numbers instead of words of bits. *)
(* Status stays a word: every handler that is entered shifts it.            *)
(***************************************************************************)
EXTENDS Integers, FiniteSetsExt

CONSTANTS
  StatusSpan,   \* 2^w of the Status register
  Exceptions,   \* the exception numbers in use
  NoIsr         \* NO_ISR_ADDR

\* The constructor: a privileged mode without interrupts, no handler installed.
ResetUnit ==
  [enabled |-> TRUE, status |-> 2, mask |-> {}, pending |-> {}, source |-> 0,
   vector |-> [e \in Exceptions |-> NoIsr]]

Privileged(u) == (u.status \div 2) % 2 = 1

InterruptPending(u) ==
  /\ u.enabled
  /\ u.status % 2 = 1
  /\ u.pending \cap u.mask # {}

\* Status <<= 2; Status |= 2
Entered(status) == 2 + ((status * 4) % StatusSpan)

\* The lowest exception that waits and is not masked.
Chosen(u) == Min(u.pending \cap u.mask)

NextInterrupt(u) ==
  [u EXCEPT !.source = Chosen(u),
            !.pending = @ \ {Chosen(u)},
            !.status = Entered(@)]

Trapped(u, e) == [u EXCEPT !.source = e, !.status = Entered(@)]

Resumed(u) == [u EXCEPT !.status = @ \div 4]

Fired(u, e) == [u EXCEPT !.pending = @ \cup {e}]

\* may_fire: the test before an error becomes an exception of the program.
MayFire(u, e) == u.enabled /\ u.vector[e] # NoIsr

-----------------------------------------------------------------------------
(* The registers as the memory map sees them: offsets from the base of the  *)
(* unit, and word accesses only.  "fault" stands for an exception of the    *)
(* simulator.                                                              *)

VectorBase == 128
VectorOf(offset) == (offset - VectorBase) \div 4

ReadRegister(u, offset) ==
  CASE offset = 0  -> u.status
    [] offset = 4  -> u.mask
    [] offset = 8  -> u.pending
    [] offset = 12 -> u.source
    [] offset = 20 -> 0
    [] offset \in VectorBase .. VectorBase + 127 /\ offset % 4 = 0 ->
         u.vector[VectorOf(offset)]
    [] OTHER -> "fault"

\* What a store may change.  16 is the sleep register and 20 the cache control,
\* which flushes the caches; neither changes the unit.
Written(u, offset, value) ==
  CASE ~ Privileged(u) -> "fault"
    [] Privileged(u) /\ offset = 0  -> [u EXCEPT !.status = value]
    [] Privileged(u) /\ offset = 4  -> [u EXCEPT !.mask = value]
    [] Privileged(u) /\ offset = 8  -> [u EXCEPT !.pending = value]
    [] Privileged(u) /\ offset \in {16, 20} -> u
    [] Privileged(u) /\ offset \in VectorBase .. VectorBase + 127 /\ offset % 4 = 0 ->
         [u EXCEPT !.vector[VectorOf(offset)] = value]
    [] OTHER -> "fault"
=============================================================================
