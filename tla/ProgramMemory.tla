--------------------------- MODULE ProgramMemory -----------------------------
(***************************************************************************)
(* What main memory promises the two places of the pipeline that access    *)
(* it: an access made is answered once, a read with what the memory holds  *)
(* at that moment, a write after it has changed exactly the words it       *)
(* names.                                                                  *)
(***************************************************************************)
EXTENDS Naturals

CONSTANTS Addr, Val, Zero, Port, NoAccess, NoResult

VARIABLES
  mem,      \* the words of the memory
  pending,  \* for every port the access it waits for
  result    \* what the access answered in the last step returned

vars == <<mem, pending, result>>

Words(access) == access.addr .. access.addr + access.size - 1

Init ==
  /\ mem = [a \in Addr |-> Zero]
  /\ result = NoResult

\* Ports that wait for nothing make an access.
Ask ==
  /\ \A p \in Port : pending[p] # NoAccess => pending'[p] = pending[p]
  /\ result' = NoResult
  /\ UNCHANGED mem

\* The access of one port is answered; the port may make the next one.
Answer(p) ==
  LET access == pending[p]
  IN  /\ access # NoAccess
      /\ \A q \in Port \ {p} : pending'[q] = pending[q]
      /\ IF access.load
         THEN /\ result' = [a \in Words(access) |-> mem[a]]
              /\ UNCHANGED mem
         ELSE /\ result' = NoResult
              /\ mem' = [a \in Addr |-> IF a \in Words(access) THEN access.val ELSE mem[a]]

Next == Ask \/ \E p \in Port : Answer(p)

Spec == Init /\ [][Next]_vars
=============================================================================
