---------------------------- MODULE ProgramStack ----------------------------
(***************************************************************************)
(* What a stack cache promises to the program, whatever its kind: a stack  *)
(* of words in one address space.  Reserving words moves the top down and  *)
(* promises nothing about their values; a word stored is the word loaded,  *)
(* until it is freed.  Filling, spilling, stalling and the split of the    *)
(* stack between cache and memory are invisible.                           *)
(***************************************************************************)
EXTENDS Integers

CONSTANTS Addr, Val, Undef, StackBase

VARIABLES
  top,     \* address of the topmost word
  stack,   \* the promised value of every word, or Undef
  loaded,  \* the value of a load completing now, else Undef
  request  \* input: the instruction in MW, as [op, addr, val]

pvars == <<top, stack, loaded>>

Init ==
  /\ top = StackBase
  /\ stack = [a \in Addr |-> Undef]
  /\ loaded = Undef

\* sres
Reserve ==
  /\ top' <= top
  /\ UNCHANGED <<stack, loaded>>

\* sfree: the words below the new top are no longer promised.
Free ==
  /\ top' >= top
  /\ stack' = [a \in Addr |-> IF a < top' THEN Undef ELSE stack[a]]
  /\ UNCHANGED loaded

\* sws
Store ==
  /\ request.op = "store" /\ request.addr >= top
  /\ stack' = [stack EXCEPT ![request.addr] = request.val]
  /\ UNCHANGED <<top, loaded>>

\* lws
Load ==
  LET a == request.addr
  IN  /\ request.op = "load" /\ a >= top
      /\ loaded' \in IF a \in Addr /\ stack[a] # Undef THEN {stack[a]} ELSE Val
      /\ UNCHANGED <<top, stack>>

\* The loaded value has been consumed.
Consume == loaded' = Undef /\ UNCHANGED <<top, stack>>

Next == Reserve \/ Free \/ Store \/ Load \/ Consume

Spec == Init /\ [][Next]_pvars
=============================================================================
