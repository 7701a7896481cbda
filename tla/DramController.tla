--------------------------- MODULE DramController ----------------------------
(***************************************************************************)
(* The controller of a channel (src/ramulator/Controller.h, Scheduler.h,   *)
(* Refresh.h): queues of reads, writes and refreshes, the reads that wait   *)
(* for their data, and in every memory cycle at most one command.  pasim   *)
(* leaves the policies at their defaults: row hits first, rows left open.  *)
(*                                                                         *)
(* The queues are in the order of arrival.  Statistics are left out but    *)
(* for the number of requests being served.                                *)
(***************************************************************************)
EXTENDS Dram

CONSTANTS
  Columns,     \* per row: neighbouring bursts share a row
  QueueMax     \* of each queue: 32

VARIABLES
  readq, writeq,   \* requests: burst, and whether no command was issued yet
  otherq,          \* the ranks to refresh
  pending,         \* reads whose data comes: burst, ticks left, whether a write had it
  writeMode,       \* write_mode
  sinceRefresh,    \* clk - refreshed
  open, waits, past,    \* the nodes: open rows, ticks to wait, the last issues
  table,           \* rowtable: the banks with an open row, and the row
  serving,         \* cur_serving_requests of the channel
  issued           \* history: the last commands, and how long ago

controllerVars == <<readq, writeq, otherq, pending, writeMode, sinceRefresh, open, waits,
                    past, table, serving, issued>>

-----------------------------------------------------------------------------
\* Memory::send (RoBaRaCoCh): from the lowest bits on the column, the rank, the levels
\* down to the bank, the row.
Strides[i \in 0 .. Depth] == IF i = 0 THEN Columns ELSE Strides[i - 1] * Children[i]
AddrOf(burst) ==
  [i \in 1 .. Depth + 1 |->
     (burst \div Strides[i - 1]) % (IF i = Depth + 1 THEN Rows ELSE Children[i])]

Request(burst) == [burst |-> burst, addr |-> AddrOf(burst), first |-> TRUE]

-----------------------------------------------------------------------------
\* The scheduler, FRFCFS_PriorHit.  A request is a command and an address.
Wanted(kind, r) ==
  [cmd |-> CASE kind = "read" -> "RD" [] kind = "write" -> "WR" [] kind = "other" -> "REF",
   addr |-> IF kind = "other" THEN r ELSE r.addr]

\* get_head: the position in the queue, or 0.  A request whose row conflicts waits while
\* others hit the open row.
GetHead(kind, q, waiting) ==
  LET w(i) == Wanted(kind, q[i])
      ready(i) == Allowed(waiting, Decode(open, w(i).cmd, w(i).addr), w(i).addr)
      hit(i) == RowHit(open, w(i).cmd, w(i).addr)
      Hits == {i \in DOMAIN q : hit(i)}
      Violates(i) == /\ ~ hit(i) /\ RowOpen(open, w(i).cmd, w(i).addr)
                     /\ \E j \in Hits : Bank(w(j).addr) = Bank(w(i).addr)
      Candidates == {i \in DOMAIN q : ~ Violates(i)}
      Ready(S) == {i \in S : ready(i)}
  IN
  IF Ready(Hits) # {} THEN Min(Ready(Hits))
  ELSE IF Ready(Candidates) # {} THEN Min(Ready(Candidates))
  ELSE 0

\* rowtable->update
Opens(cmd) == Standard.effects[cmd] = "open"
Closes(cmd) == Standard.effects[cmd] \in {"close", "closeAll"}
Beneath(addr, scope) == {t \in table : SubSeq(t, 1, scope) = SubSeq(addr, 1, scope)}
Tabled(cmd, addr) ==
  IF Opens(cmd)
  THEN IF Beneath(addr, Depth) = {} THEN table \cup {addr} ELSE table
  ELSE IF Closes(cmd) THEN table \ Beneath(addr, Standard.scope[cmd]) ELSE table

\* issue_cmd
Issue(cmd, addr, waiting, aged) ==
  LET recorded == Recorded(aged, cmd, addr) IN
  /\ open' = Effect(open, cmd, addr)
  /\ past' = recorded
  /\ waits' = Delayed(waiting, recorded, cmd, addr)
  /\ table' = Tabled(cmd, addr)

Without(q, i) == SubSeq(q, 1, i - 1) \o SubSeq(q, i + 1, Len(q))

Aged(history) == [i \in DOMAIN history |-> [history[i] EXCEPT !.ago = @ + 1]]
Recent(history) ==
  IF history # <<>> /\ Last(history).ago + 1 >= Standard.longest
  THEN Front(Aged(history)) ELSE Aged(history)

\* refresh->tick_ref: all ranks at once.
RefreshDue == sinceRefresh + 1 >= Standard.interval
Refreshes == IF RefreshDue THEN otherq \o SetToSeq(Ranks) ELSE otherq

\* 3. write_mode, with the queues before this cycle's command.
High == (8 * QueueMax) \div 10
Low == (2 * QueueMax) \div 10
\* Faulty: once writes are served, only writes are.
WriteModeStays == writeMode \/ Len(writeq) >= High \/ readq = <<>>
WriteModeNext ==
  IF ~ writeMode THEN Len(writeq) >= High \/ readq = <<>>
  ELSE ~ (Len(writeq) <= Low /\ readq # <<>>)

\* A read that took its data from a queued write was not counted as being served.
\* Faulty: all were.
AccessedAny(read) == TRUE
AccessedRow(read) == ~ read.forwarded

\* Controller::tick.  The read whose data has come is first served, if any.
Tick ==
  LET waiting == WaitLess(waits)
      aged == Older(past)
      soon == [i \in DOMAIN pending |-> [pending[i] EXCEPT !.left = IF @ > 0 THEN @ - 1 ELSE 0]]
      served == pending # <<>> /\ soon[1].left = 0
      comes == IF served THEN Tail(soon) ELSE soon
      others == Refreshes
      kind == CASE others # <<>> -> "other"
                [] others = <<>> /\ WriteModeNext -> "write"
                [] OTHER -> "read"
      q == CASE kind = "other" -> others [] kind = "write" -> writeq [] kind = "read" -> readq
      head == GetHead(kind, q, waiting)
      w == Wanted(kind, q[head])
      cmd == Decode(open, w.cmd, w.addr)
      begins == head # 0 /\ kind # "other" /\ q[head].first
      last == head # 0 /\ cmd = w.cmd
      rest == IF head = 0 THEN q
              ELSE IF last THEN Without(q, head)
              ELSE IF kind = "other" THEN q ELSE [q EXCEPT ![head].first = FALSE]
      one(b) == IF b THEN 1 ELSE 0
  IN
  /\ sinceRefresh' = IF RefreshDue THEN 0 ELSE sinceRefresh + 1
  /\ writeMode' = WriteModeNext
  /\ readq' = IF kind = "read" THEN rest ELSE readq
  /\ writeq' = IF kind = "write" THEN rest ELSE writeq
  /\ otherq' = IF kind = "other" THEN rest ELSE others
  /\ pending' = IF last /\ kind = "read"
                THEN Append(comes, [burst |-> q[head].burst, left |-> Standard.readLatency,
                                    forwarded |-> FALSE])
                ELSE comes
  /\ serving' = serving - one(served /\ AccessedRow(pending[1])) + one(begins)
                  - one(last /\ kind = "write")
  /\ IF head = 0
     THEN /\ waits' = waiting /\ past' = aged
          /\ UNCHANGED <<open, table>>
          /\ issued' = Recent(issued)
     ELSE /\ Issue(cmd, w.addr, waiting, aged)
          /\ issued' = <<[cmd |-> cmd, addr |-> w.addr, ago |-> 0]>> \o Recent(issued)

ControllerInit ==
  /\ readq = <<>> /\ writeq = <<>> /\ otherq = <<>> /\ pending = <<>>
  /\ writeMode = FALSE /\ sinceRefresh = 0
  /\ open = AllClosed /\ waits = NoWait /\ past = NoPast
  /\ table = {} /\ serving = 0 /\ issued = <<>>

-----------------------------------------------------------------------------
\* When the data of the i-th last command is on the bus, counted from now.
DataBegins(i) == Standard.data[issued[i].cmd] - issued[i].ago
Accesses == {i \in DOMAIN issued : issued[i].cmd \in {"RD", "WR"}}

\* What the standard asks for if transfers are to keep clear of each other: of any two
\* accesses, the data of the second comes after that of the first, or, when the rank
\* changes and one reads, after a pause.
Spaces(std, on, cmd) ==
  LET clear == std.data[on] + std.data.length - std.data[cmd]
      change == IF "RD" \in {on, cmd} THEN std.data.pause ELSE 0
      entries(sibling) == {e \in std.timing[1] \cup std.timing[2] :
                             e.on = on /\ e.cmd = cmd /\ e.dist = 1 /\ e.sibling = sibling}
  IN /\ \E e \in entries(FALSE) : e.val >= clear
     /\ \/ \E e \in std.timing[2] \cap entries(TRUE) : e.val >= clear + change
        \/ \E e \in std.timing[1] \cap entries(FALSE) : e.val >= clear + change

SpacesData(std) ==
  /\ std.data \in [RD : Nat, WR : Nat, length : Nat, pause : Nat]
  /\ \A cmd \in {"RD", "WR"} : std.scope[cmd] >= Rank
  /\ \A on, cmd \in {"RD", "WR"} : Spaces(std, on, cmd)

\* Whatever the controller issues, two transfers never are on the data bus of the channel
\* at once, and the bus rests before another rank drives it (or stops doing so), though
\* issue looks at the times of commands only, level by level (DRAM.h, *.cpp init_timing).
DataBusFree ==
  \A i, j \in Accesses : i < j =>
    LET changes == issued[i].addr[1] # issued[j].addr[1]
                     /\ "RD" \in {issued[i].cmd, issued[j].cmd}
    IN DataBegins(i) >= DataBegins(j) + Standard.data.length
                          + (IF changes THEN Standard.data.pause ELSE 0)

\* The commands issued that an entry of a node looks back to, and, oldest last, any
\* number of them.
Concerns(n, e, c) == c.cmd = e.on /\ IF e.sibling THEN Beside(n, c.addr) ELSE Target(n, c.addr)
Concerning(n, e) == {i \in DOMAIN issued : Concerns(n, e, issued[i])}
Picks(S, number) ==
  {p \in [1 .. number -> S] : \A i, j \in 1 .. number : i < j => p[i] < p[j]}

\* The command just issued keeps every time the standard asks for, of all nodes it
\* concerns, to the commands issued before it: what the nodes remember (next and prev
\* in DRAM.h) forgets none that still counts.
CommandsKeepApart ==
  issued # <<>> /\ issued[1].ago = 0 =>
    \A l \in 0 .. Depth : l <= Standard.scope[issued[1].cmd] =>
      LET n == SubSeq(issued[1].addr, 1, l)
      IN \A e \in {x \in EntriesOf(n) : x.cmd = issued[1].cmd} :
           \A p \in Picks(Concerning(n, e) \ {1}, e.dist) : issued[p[e.dist]].ago >= e.val

\* rowtable has exactly the open rows (Scheduler.h asserts that an access finds its row
\* and that closing removes one).
RowsTabled == table = {Append(b, open[b]) : b \in {x \in DOMAIN open : open[x] # Closed}}

\* The channel counts exactly the requests begun and not completed.
Begun(q) == {i \in DOMAIN q : ~ q[i].first}
Accessing(reads) == {i \in DOMAIN reads : AccessedRow(reads[i])}
ServingCounted ==
  serving = Cardinality(Begun(readq)) + Cardinality(Begun(writeq))
              + Cardinality(Accessing(pending))

\* And no rank waits for two refreshes, so that there is room for one (Refresh.h asserts it).
AccountsExact == RowsTabled /\ ServingCounted /\ IsInjective(otherq)
=============================================================================
