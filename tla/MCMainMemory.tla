---------------------------- MODULE MCMainMemory -----------------------------
(***************************************************************************)
(* Small programs for main memory: the accesses their instructions make.   *)
(***************************************************************************)
EXTENDS MainMemory

Load(a, n) == [addr |-> a, size |-> n, load |-> TRUE, val |-> Zero]
Store(a, n) == {[addr |-> a, size |-> n, load |-> FALSE, val |-> v] : v \in Val}

\* Instructions at 0 and 1, data from 2 on: a word, and ranges that begin
\* inside a burst and cross into the next one or two.
ApartAccesses ==
  {Load(3, 1), Load(3, 3), Load(2, 4), Load(5, 2)}
    \cup Store(3, 1) \cup Store(3, 3) \cup Store(2, 1)

\* Loads that name the very words of the instructions.
CodeAccesses == {Load(0, 1), Load(1, 1)} \cup Store(1, 1) \cup Store(0, 2)
=============================================================================
