-------------------------------- MODULE Dram ---------------------------------
(***************************************************************************)
(* The tree of a DRAM channel (src/ramulator/DRAM.h): the channel, its     *)
(* ranks, their bank groups if the standard has them, and banks.  A node   *)
(* is the sequence of the numbers that lead to it; an address is the node  *)
(* of a bank followed by a row, or, for commands to a rank, the rank.      *)
(*                                                                         *)
(* A node keeps, for every command, the clock from which on it may be      *)
(* issued, and when those were issued that a window counts.  Here both are *)
(* kept as times from and until now.                                       *)
(***************************************************************************)
EXTENDS DramStandards, Sequences, SequencesExt

CONSTANTS
  Standard,   \* what DramStandards says of the standard and its speed
  Children,   \* how many children the nodes of a level have: <<ranks, ..., banks>>
  Rows

Commands == DOMAIN Standard.effects
Depth == Len(Children)

Nodes ==
  UNION {{n \in [1 .. l -> 0 .. 7] : \A i \in 1 .. l : n[i] < Children[i]} : l \in 0 .. Depth}
Ranks == {n \in Nodes : Len(n) = 1}
Banks == {n \in Nodes : Len(n) = Depth}

Bank(addr) == SubSeq(addr, 1, Depth)
Row(addr) == addr[Depth + 1]

Closed == -1     \* of a bank without an open row

\* What holds of the standards, whose trees have so many levels under the channel: an
\* entry is between commands of the standard, counts at most four of them, and only
\* siblings count the last one alone; a refresh, and what it needs before, go to a rank; a
\* row is opened and closed by the commands that need that, bank by bank or in a rank.
EntryOK(std, e) ==
  /\ {e.on, e.cmd} \subseteq DOMAIN std.effects /\ e.sibling \in BOOLEAN
  /\ e.dist \in 1 .. 4 /\ (e.sibling => e.dist = 1)
  /\ e.val \in Int /\ e.val <= std.longest

StandardOK(std, levels) ==
  /\ {"RD", "WR", "REF", std.needs.closed, std.needs.otherRow, std.needs.anyOpen}
       \subseteq DOMAIN std.effects
  /\ std.scope \in [DOMAIN std.effects -> Nat]
  /\ std.scope["REF"] <= Rank /\ std.scope[std.needs.anyOpen] = Rank
  /\ std.scope[std.needs.otherRow] = levels
  /\ std.effects[std.needs.closed] = "open" /\ std.effects[std.needs.otherRow] = "close"
  /\ std.effects[std.needs.anyOpen] = "closeAll"
  /\ \A cmd \in {"RD", "WR", "REF"} : std.effects[cmd] = "none"
  /\ std.longest \in Nat /\ std.readLatency \in Nat
  /\ DOMAIN std.timing = 1 .. levels + 1
  /\ \A i \in 1 .. levels + 1 : \A e \in std.timing[i] : EntryOK(std, e)

GeometryOK == Children \in Seq(1 .. 8) /\ Children # <<>> /\ Rows \in Nat \ {0}

ChannelOK == GeometryOK /\ StandardOK(Standard, Depth)

\* The timing entries of a node, and of all.
EntriesOf(n) == Standard.timing[Len(n) + 1]
AllEntries == UNION {Standard.timing[i] : i \in DOMAIN Standard.timing}

\* How many issues of a command a node remembers (prev); one is not kept, as only the
\* command just issued matters then.
Remembered(n, cmd) ==
  Max({e.dist : e \in {t \in EntriesOf(n) : t.on = cmd /\ t.dist > 1}} \cup {0})

\* The constructor.
AllClosed == [b \in Banks |-> Closed]
NoWait == [n \in Nodes |-> [c \in Commands |-> 0]]
Histories == {h \in Nodes \X Commands : Remembered(h[1], h[2]) > 0}
NoPast == [h \in Histories |-> [i \in 1 .. Remembered(h[1], h[2]) |-> Standard.longest]]

-----------------------------------------------------------------------------
\* The clock moves on.
WaitLess(wait) ==
  [n \in DOMAIN wait |-> [c \in Commands |-> IF wait[n][c] > 0 THEN wait[n][c] - 1 ELSE 0]]
Older(past) ==
  [h \in DOMAIN past |-> [i \in DOMAIN past[h] |-> Min({past[h][i] + 1, Standard.longest})]]

OpenBelow(open, node) == {b \in DOMAIN open : IsPrefix(node, b) /\ open[b] # Closed}

\* decode: the command to issue before cmd, or cmd.
Decode(open, cmd, addr) ==
  IF cmd = "REF"
  THEN IF OpenBelow(open, addr) # {} THEN Standard.needs.anyOpen ELSE cmd
  ELSE CASE open[Bank(addr)] = Closed    -> Standard.needs.closed
         [] open[Bank(addr)] = Row(addr) -> cmd
         [] OTHER                        -> Standard.needs.otherRow

\* check: the nodes on the way to the address, down to the scope of the command.
Allowed(wait, cmd, addr) ==
  \A l \in 0 .. Standard.scope[cmd] : l <= Depth => wait[SubSeq(addr, 1, l)][cmd] = 0

\* check_row_hit and check_row_open
RowHit(open, cmd, addr) == cmd # "REF" /\ open[Bank(addr)] = Row(addr)
RowOpen(open, cmd, addr) == cmd # "REF" /\ open[Bank(addr)] # Closed

\* update_state
Effect(open, cmd, addr) ==
  CASE Standard.effects[cmd] = "open"     -> [open EXCEPT ![Bank(addr)] = Row(addr)]
    [] Standard.effects[cmd] = "close"    -> [open EXCEPT ![Bank(addr)] = Closed]
    [] Standard.effects[cmd] = "closeAll" ->
         [b \in DOMAIN open |-> IF b \in OpenBelow(open, SubSeq(addr, 1, 1)) THEN Closed ELSE open[b]]
    [] Standard.effects[cmd] = "none"     -> open

Target(n, addr) == IsPrefix(n, addr)
Beside(n, addr) == n # <<>> /\ ~ Target(n, addr) /\ IsPrefix(Front(n), addr)

\* update_timing, the history: the command is the newest.  Faulty: it replaces the newest.
RecordedOnce(past, cmd, addr) ==
  [h \in DOMAIN past |-> IF h[2] = cmd /\ Target(h[1], addr)
                         THEN [past[h] EXCEPT ![1] = 0] ELSE past[h]]
Recorded(past, cmd, addr) ==
  [h \in DOMAIN past |-> IF h[2] = cmd /\ Target(h[1], addr)
                       THEN <<0>> \o Front(past[h]) ELSE past[h]]

\* update_timing: entries of the nodes on the way to the address, and, for siblings, of
\* those beside it; `past` has the command already.
Later(wait, past, cmd, n, beside) ==
  LET Since(e) == IF e.dist = 1 THEN 0 ELSE past[<<n, cmd>>][e.dist]
      set == {e \in EntriesOf(n) : e.on = cmd /\ e.sibling = beside}
  IN [c \in Commands |-> Max({e.val - Since(e) : e \in {x \in set : x.cmd = c}} \cup {wait[n][c]})]

\* Faulty: the nodes beside the address are forgotten.
DelayedBelow(wait, past, cmd, addr) ==
  [n \in DOMAIN wait |-> IF Target(n, addr) THEN Later(wait, past, cmd, n, FALSE) ELSE wait[n]]

Delayed(wait, past, cmd, addr) ==
  [n \in DOMAIN wait |-> CASE Target(n, addr) -> Later(wait, past, cmd, n, FALSE)
                            [] Beside(n, addr) -> Later(wait, past, cmd, n, TRUE)
                            [] OTHER           -> wait[n]]
=============================================================================
