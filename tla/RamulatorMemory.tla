--------------------------- MODULE RamulatorMemory ---------------------------
(***************************************************************************)
(* The main memory that asks ramulator (ramulator_memory_t of memory.cc    *)
(* and memory.h).  A request of the simulator is cut into bursts; it is    *)
(* repeated in every cycle until it is answered.  Reads wait for all their *)
(* bursts, writes only for a place in the controller's queue.              *)
(*                                                                         *)
(* One record holds the request being served, whoever made it; its start   *)
(* is zero when there is none.  Bursts are numbered from zero.  A cycle    *)
(* gives each port its turn and then moves the clock of the memory.        *)
(***************************************************************************)
EXTENDS DramController

CONSTANTS
  Ports,          \* who may ask, in the order of a cycle: <<"mw">> or <<"fetch", "mw">>
  Asks,           \* what may be asked for: kind, the first burst, how many
  MaxAsks,        \* requests of the program
  MaxIdle,        \* cycles without a request before the last one
  NumCoreTicks,   \* Num_core_ticks: so many cycles of the core
  NumMemTicks     \* Num_mem_ticks: take as long as so many of the memory

VARIABLES
  asks,        \* what the ports ask for
  left, idle,  \* requests and cycles without one the program has left
  request,     \* Pending_start, Num_bursts_pending, _enqueued and _done
  coreTicks,   \* Num_core_ticks_cnt
  atPort,      \* the position in Ports of the one that may ask
  ticksDue,    \* ticks the memory has left in this cycle
  failed       \* an assertion failed

adapterVars == <<asks, left, idle, request, coreTicks, atPort, ticksDue, failed>>
vars == <<controllerVars, adapterVars>>

\* What holds of any memory and program: bursts are numbered from zero.
RequestsOK ==
  /\ Columns \in Nat \ {0} /\ Ports \in Seq(STRING) /\ Ports # <<>>
  /\ Asks \subseteq [kind : {"read", "write"}, start : Nat, bursts : Nat]

MemoryOK == ChannelOK /\ RequestsOK

NoAsk == [kind |-> "none", start |-> 0, bursts |-> 0]
NoRequest == [start |-> 0, bursts |-> 0, enqueued |-> 0, done |-> 0]

-----------------------------------------------------------------------------
\* The request being served; a new one if none is.
Served(ask) ==
  IF request.start = 0
  THEN [start |-> ask.start, bursts |-> ask.bursts, enqueued |-> 0, done |-> 0]
  ELSE request

Within(ask, r) ==
  r.start <= ask.start /\ ask.start + ask.bursts <= r.start + r.bursts

\* How many more bursts the queue takes.  A read that finds its data in the queue of
\* writes takes no place.
Forwards(b) == \E i \in DOMAIN writeq : writeq[i].burst = b
Sent(kind, r) ==
  LET full(k) == IF kind = "write" THEN Len(writeq) + k >= QueueMax
                 ELSE Len(readq) + Cardinality({i \in 0 .. k - 1 :
                                     ~ Forwards(r.start + r.enqueued + i)}) >= QueueMax
      Fit == {k \in 0 .. r.bursts - r.enqueued : \A i \in 0 .. k - 1 : ~ full(i)}
  IN Max(Fit)

NewBursts(r, n) == [i \in 1 .. n |-> r.start + r.enqueued + i - 1]

\* Controller::enqueue of reads, one burst after the other: each takes a place in the
\* queue, or its data comes from a write.
Enqueued(bursts) ==
  LET from(b) == [burst |-> b, left |-> 1, forwarded |-> TRUE]
      q[i \in 0 .. Len(bursts)] ==
        IF i = 0 THEN [reads |-> readq, comes |-> pending]
        ELSE IF Forwards(bursts[i])
        THEN [q[i - 1] EXCEPT !.comes = Append(@, from(bursts[i]))]
        ELSE [q[i - 1] EXCEPT !.reads = Append(@, Request(bursts[i]))]
  IN q[Len(bursts)]

EnqueueReads(bursts) ==
  /\ readq' = Enqueued(bursts).reads /\ pending' = Enqueued(bursts).comes
  /\ UNCHANGED writeq

EnqueueWrites(bursts) ==
  /\ writeq' = writeq \o [i \in DOMAIN bursts |-> Request(bursts[i])]
  /\ UNCHANGED <<readq, pending>>

\* ramulator_memory_t::read.  The call that finds all bursts done is answered.
Read(p, ask) ==
  LET done == request.start # 0 /\ request.bursts = request.done
      r == Served(ask)
      n == Sent("read", r)
  IN
  IF done
  THEN /\ asks' = [asks EXCEPT ![p] = NoAsk] /\ request' = NoRequest
       /\ UNCHANGED <<readq, writeq, pending, failed>>
  ELSE /\ asks' = [asks EXCEPT ![p] = ask]
       /\ failed' = ~ Within(ask, r)
       /\ request' = [r EXCEPT !.enqueued = @ + n]
       /\ EnqueueReads(NewBursts(r, n))

\* ramulator_memory_t::write
Write(p, ask) ==
  LET r == Served(ask)
      n == Sent("write", r)
      done == r.enqueued + n = r.bursts
  IN
  /\ failed' = (~ Within(ask, r) \/ (done /\ r.done + n # r.bursts))
  /\ EnqueueWrites(NewBursts(r, n))
  /\ asks' = [asks EXCEPT ![p] = IF done THEN NoAsk ELSE ask]
  /\ request' = IF done THEN NoRequest ELSE [r EXCEPT !.enqueued = @ + n, !.done = @ + n]

\* tick, after the last port: the clock of the core is translated.
CoreTick ==
  IF atPort < Len(Ports)
  THEN atPort' = atPort + 1 /\ UNCHANGED <<coreTicks, ticksDue>>
  ELSE /\ atPort' = 1
       /\ coreTicks' = (coreTicks + 1) % NumCoreTicks
       /\ ticksDue' = IF coreTicks + 1 = NumCoreTicks THEN NumMemTicks ELSE 0

\* A port without a request may make one, or not; others repeat theirs.
Access ==
  /\ ticksDue = 0
  /\ LET p == Ports[atPort] IN
     \/ /\ asks[p] = NoAsk
        /\ \/ idle > 0 /\ idle' = idle - 1
           \/ left = 0 /\ UNCHANGED idle
        /\ UNCHANGED <<left, asks, request, failed, readq, writeq, pending>>
     \/ \E ask \in IF asks[p] = NoAsk THEN Asks ELSE {asks[p]} :
          /\ asks[p] = NoAsk => left > 0
          /\ left' = IF asks[p] = NoAsk THEN left - 1 ELSE left
          /\ IF ask.kind = "read" THEN Read(p, ask) ELSE Write(p, ask)
          /\ UNCHANGED idle
  /\ CoreTick
  /\ UNCHANGED <<otherq, writeMode, sinceRefresh, open, waits, past, table, serving, issued>>

\* A tick of the memory; data that comes calls done_callback.
Comes == pending # <<>> /\ pending[1].left <= 1
MemTick ==
  /\ ticksDue > 0
  /\ ticksDue' = ticksDue - 1
  /\ Tick
  /\ IF Comes
     THEN /\ request' = [request EXCEPT !.done = @ + 1]
          /\ failed' = ~ (pending[1].burst \in request.start .. request.start + request.bursts)
     ELSE UNCHANGED <<request, failed>>
  /\ UNCHANGED <<asks, coreTicks, atPort, left, idle>>

Init ==
  /\ ControllerInit
  /\ asks = [p \in {Ports[i] : i \in DOMAIN Ports} |-> NoAsk]
  /\ left = MaxAsks /\ idle = MaxIdle
  /\ request = NoRequest /\ coreTicks = 0 /\ atPort = 1 /\ ticksDue = 0 /\ failed = FALSE

\* A failed assertion ends the program.
Next == ~ failed /\ (Access \/ MemTick)

\* simulator_t::run goes on, and so does its clock.
Goes == []<><<Next>>_vars

Spec == Init /\ [][Next]_vars
FairSpec == Spec /\ Goes

-----------------------------------------------------------------------------
\* The reads the controller has are those of the request being served: none is left over
\* for the next request to count, and the assertions of read, write and done_callback
\* hold.
ReadsAccounted ==
  /\ ~ failed
  /\ Len(readq) + Len(pending) = request.enqueued - request.done

\* Every request is answered, whatever the refreshes, the writes queued before it and the
\* rows they opened: again and again a port has none.
RequestsAnswered == \A i \in DOMAIN Ports : []<>(asks[Ports[i]] = NoAsk)
=============================================================================
