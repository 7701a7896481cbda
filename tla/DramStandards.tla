---------------------------- MODULE DramStandards ----------------------------
(***************************************************************************)
(* The DRAM standards pasim offers (src/ramulator/DDR3, DDR4, LPDDR3,      *)
(* LPDDR4): the command a command needs before it, what commands do to     *)
(* rows, and the times between commands, for the nodes of every level:     *)
(* the channel, its ranks, their bank groups, and banks.                   *)
(*                                                                         *)
(* Only the commands the requests of the simulator lead to are kept: no    *)
(* request powers a rank down, refreshes a single bank, or closes a row    *)
(* with its last access.  A speed entry s gives the times by their names.  *)
(***************************************************************************)
EXTENDS Integers, FiniteSetsExt

Rank == 1

\* A timing entry: cmd waits val cycles after on, or after the dist-th last on, in the
\* same node; or, for siblings, after on in another child of its parent.
Gap(on, cmd, val) == [on |-> on, cmd |-> cmd, dist |-> 1, val |-> val, sibling |-> FALSE]
Window(cmd, n, val) == [Gap(cmd, cmd, val) EXCEPT !.dist = n]
Sibling(on, cmd, val) == [Gap(on, cmd, val) EXCEPT !.sibling = TRUE]

Same(cmds, val) == {Gap(c, c, val) : c \in cmds}

\* No entry looks back further.
Longest(timing) == Max({e.val : e \in UNION {timing[i] : i \in DOMAIN timing}})

\* A column command needs its row open; a refresh needs all rows closed.
Needs(first, before, allBefore) ==
  [closed |-> first, otherRow |-> before, anyOpen |-> allBefore]

\* When the data of an access is on the bus: its begin, length, and the pause when
\* another rank is to drive the bus.
Data(s, read) == [RD |-> read, WR |-> s.nCWL, length |-> s.nBL, pause |-> s.nRTRS]

-----------------------------------------------------------------------------
(* DDR3.                                                                   *)
DDR3Needs == Needs("ACT", "PRE", "PREA")

DDR3Effects == [ACT |-> "open", PRE |-> "close", PREA |-> "closeAll",
                RD |-> "none", WR |-> "none", REF |-> "none"]

DDR3Timing(s) ==
  <<Same({"RD", "WR"}, s.nBL),
    Same({"RD", "WR"}, s.nCCD)
    \cup {Gap("RD", "WR", s.nCL + s.nCCD + 2 - s.nCWL),
          Gap("WR", "RD", s.nCWL + s.nBL + s.nWTR),
          Sibling("RD", "RD", s.nBL + s.nRTRS),
          Sibling("RD", "WR", s.nBL + s.nRTRS),
          Sibling("RD", "WR", s.nCL + s.nBL + s.nRTRS - s.nCWL),
          Sibling("WR", "RD", s.nCWL + s.nBL + s.nRTRS - s.nCL),
          Gap("RD", "PREA", s.nRTP), Gap("WR", "PREA", s.nCWL + s.nBL + s.nWR),
          Gap("ACT", "ACT", s.nRRD), Window("ACT", 4, s.nFAW),
          Gap("ACT", "PREA", s.nRAS), Gap("PREA", "ACT", s.nRP),
          Gap("PRE", "REF", s.nRP), Gap("PREA", "REF", s.nRP),
          Gap("REF", "ACT", s.nRFC), Gap("REF", "REF", s.nRFC)},
    {Gap("ACT", "RD", s.nRCD), Gap("ACT", "WR", s.nRCD),
     Gap("RD", "PRE", s.nRTP), Gap("WR", "PRE", s.nCWL + s.nBL + s.nWR),
     Gap("ACT", "ACT", s.nRC), Gap("ACT", "PRE", s.nRAS),
     Gap("PRE", "ACT", s.nRP)}>>

DDR3(s) ==
  [needs |-> DDR3Needs, effects |-> DDR3Effects, timing |-> DDR3Timing(s),
   longest |-> Longest(DDR3Timing(s)),
   scope |-> [ACT |-> 3, PRE |-> 2, PREA |-> Rank, RD |-> 4, WR |-> 4, REF |-> Rank],
   readLatency |-> s.nCL + s.nBL, interval |-> s.nREFI, data |-> Data(s, s.nCL)]

-----------------------------------------------------------------------------
(* DDR4, whose banks are in groups.                                        *)
DDR4Needs == Needs("ACT", "PRE", "PREA")

DDR4Effects == [ACT |-> "open", PRE |-> "close", PREA |-> "closeAll",
                RD |-> "none", WR |-> "none", REF |-> "none"]

DDR4Timing(s) ==
  <<Same({"RD", "WR"}, s.nBL),
    Same({"RD", "WR"}, s.nCCDS)
    \cup {Gap("RD", "WR", s.nCL + s.nCCDS + 2 - s.nCWL),
          Gap("WR", "RD", s.nCWL + s.nBL + s.nWTRS),
          Sibling("RD", "RD", s.nBL + s.nRTRS),
          Sibling("RD", "WR", s.nBL + s.nRTRS),
          Sibling("RD", "WR", s.nCL + s.nBL + s.nRTRS - s.nCWL),
          Sibling("WR", "RD", s.nCWL + s.nBL + s.nRTRS - s.nCL),
          Gap("RD", "PREA", s.nRTP), Gap("WR", "PREA", s.nCWL + s.nBL + s.nWR),
          Gap("ACT", "ACT", s.nRRDS), Window("ACT", 4, s.nFAW),
          Gap("ACT", "PREA", s.nRAS), Gap("PREA", "ACT", s.nRP),
          Gap("PRE", "REF", s.nRP), Gap("PREA", "REF", s.nRP),
          Gap("REF", "ACT", s.nRFC), Gap("REF", "REF", s.nRFC)},
    Same({"RD", "WR"}, s.nCCDL)
    \cup {Gap("WR", "RD", s.nCWL + s.nBL + s.nWTRL),
          Gap("ACT", "ACT", s.nRRDL)},
    {Gap("ACT", "RD", s.nRCD), Gap("ACT", "WR", s.nRCD),
     Gap("RD", "PRE", s.nRTP), Gap("WR", "PRE", s.nCWL + s.nBL + s.nWR),
     Gap("ACT", "ACT", s.nRC), Gap("ACT", "PRE", s.nRAS),
     Gap("PRE", "ACT", s.nRP)}>>

DDR4(s) ==
  [needs |-> DDR4Needs, effects |-> DDR4Effects, timing |-> DDR4Timing(s),
   longest |-> Longest(DDR4Timing(s)),
   scope |-> [ACT |-> 4, PRE |-> 3, PREA |-> Rank, RD |-> 5, WR |-> 5, REF |-> Rank],
   readLatency |-> s.nCL + s.nBL, interval |-> s.nREFI, data |-> Data(s, s.nCL)]

-----------------------------------------------------------------------------
(* LPDDR3: closing one bank takes less than closing all of a rank (PRA).   *)
LPDDR3Needs == Needs("ACT", "PRE", "PRA")

LPDDR3Effects == [ACT |-> "open", PRE |-> "close", PRA |-> "closeAll",
                  RD |-> "none", WR |-> "none", REF |-> "none"]

LPDDR3Timing(s) ==
  <<Same({"RD", "WR"}, s.nBL),
    Same({"RD", "WR"}, s.nCCD)
    \cup {Gap("RD", "WR", s.nCL + s.nBL + s.nDQSCK + 1 - s.nCWL),
          Gap("WR", "RD", s.nCWL + s.nBL + s.nWTR + 1),
          Sibling("RD", "RD", s.nBL + s.nRTRS),
          Sibling("RD", "WR", s.nBL + s.nRTRS),
          Sibling("RD", "WR", s.nCL + s.nBL + s.nDQSCK + 1 + s.nRTRS - s.nCWL),
          Sibling("WR", "RD", s.nCWL + s.nBL + s.nRTRS - s.nCL),
          Gap("RD", "PRA", s.nRTP), Gap("WR", "PRA", s.nCWL + s.nBL + s.nWR),
          Gap("ACT", "ACT", s.nRRD), Window("ACT", 4, s.nFAW),
          Gap("ACT", "PRA", s.nRAS), Gap("PRA", "ACT", s.nRPab),
          Gap("PRE", "REF", s.nRPpb), Gap("PRA", "REF", s.nRPab),
          Gap("REF", "ACT", s.nRFCab), Gap("REF", "REF", s.nRFCab)},
    {Gap("ACT", "RD", s.nRCD), Gap("ACT", "WR", s.nRCD),
     Gap("RD", "PRE", s.nRTP), Gap("WR", "PRE", s.nCWL + s.nBL + s.nWR),
     Gap("ACT", "ACT", s.nRC), Gap("ACT", "PRE", s.nRAS),
     Gap("PRE", "ACT", s.nRPpb)}>>

LPDDR3(s) ==
  [needs |-> LPDDR3Needs, effects |-> LPDDR3Effects, timing |-> LPDDR3Timing(s),
   longest |-> Longest(LPDDR3Timing(s)),
   scope |-> [ACT |-> 3, PRE |-> 2, PRA |-> Rank, RD |-> 4, WR |-> 4, REF |-> Rank],
   readLatency |-> s.nCL + s.nDQSCK + s.nBL, interval |-> s.nREFI,
   data |-> Data(s, s.nCL + s.nDQSCK)]

-----------------------------------------------------------------------------
(* LPDDR4: closing two banks keeps a distance, too.                        *)
LPDDR4Needs == Needs("ACT", "PRE", "PREA")

LPDDR4Effects == [ACT |-> "open", PRE |-> "close", PREA |-> "closeAll",
                  RD |-> "none", WR |-> "none", REF |-> "none"]

Renamed(e) == [e EXCEPT !.on = IF @ = "PRA" THEN "PREA" ELSE @,
                        !.cmd = IF @ = "PRA" THEN "PREA" ELSE @]
LPDDR4Timing(s) ==
  LET t == LPDDR3Timing(s) IN
  <<t[1],
    {Renamed(e) : e \in t[2]} \cup {Gap("PRE", "PRE", s.nPPD)},
    t[3]>>

LPDDR4(s) ==
  [needs |-> LPDDR4Needs, effects |-> LPDDR4Effects, timing |-> LPDDR4Timing(s),
   longest |-> Longest(LPDDR4Timing(s)),
   scope |-> [ACT |-> 3, PRE |-> 2, PREA |-> Rank, RD |-> 4, WR |-> 4, REF |-> Rank],
   readLatency |-> s.nCL + s.nDQSCK + s.nBL, interval |-> s.nREFI,
   data |-> Data(s, s.nCL + s.nDQSCK)]
=============================================================================
