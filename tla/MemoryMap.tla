------------------------------ MODULE MemoryMap -------------------------------
(***************************************************************************)
(* The memory map (memory_map_t), which gives the addresses of a window to    *)
(* devices and the others to the local memory, with the devices that have no  *)
(* module of their own: cpuinfo_t, perfcounters_t, noc_t, and mmu_t, which      *)
(* translates the addresses of the main memory segment by segment.            *)
(*                                                                         *)
(* Addresses count words; a part of a word is told apart where a device does.  *)
(***************************************************************************)
EXTENDS Integers, FiniteSets

CONSTANTS
  Map,            \* the devices in their order: [device, first, words]
  WindowBase,     \* min(mmbase, nocbase)
  LocalWords,     \* lsize
  RouteWords,     \* what of the NOC lies in front of its scratchpad
  CpuInfo,        \* Cpu_id, Cpu_freq, Cpu_cnt
  NumSegments, SegmentWords,  \* 8 segments of 2^29 bytes
  MainWords,      \* gsize
  Bases, Rights,  \* what the supervisor stores in the registers of a segment
  Values

VARIABLES
  segments,       \* Segments of mmu_t
  privileged,     \* excunit_t::privileged
  cells,          \* of the main memory, the local memory and the scratchpad
  answer,         \* of the last access, if it was a load
  kept,           \* history: what was last stored at an address
  refused         \* the access whose exception ended the run

mapVars == <<segments, privileged, cells, answer, kept, refused>>

SegmentIds == 0 .. NumSegments - 1
None == [port |-> "none"]

-----------------------------------------------------------------------------
(* The MMU.                                                                *)

Index(a) == a \div SegmentWords
Offset(a) == a % SegmentWords

\* Faulty: a segment has one word more than its length.
OutsideByOne(s, a) == s.length # 0 /\ Offset(a) > s.length

\* A length of 0 stands for the whole segment.
Outside(s, a) == s.length # 0 /\ Offset(a) >= s.length

Permitted(a, op) ==
  LET s == segments[Index(a)] IN privileged \/ (~ Outside(s, a) /\ op \in s.perm)

\* Faulty: the number of the segment is kept.
TranslatedWhole(a) == segments[Index(a)].base + a

Translated(a) == segments[Index(a)].base + Offset(a)

-----------------------------------------------------------------------------
(* The map.                                                                *)

\* Faulty: a device lacks its last word.
CoveringOneLess(a) ==
  {i \in DOMAIN Map : a \in Map[i].first .. Map[i].first + Map[i].words - 2}

Covering(a) == {i \in DOMAIN Map : a \in Map[i].first .. Map[i].first + Map[i].words - 1}

\* find_device: the first that was added.
DeviceAt(a) ==
  IF Covering(a) = {} THEN [device |-> "none", first |-> 0, words |-> 0]
  ELSE Map[CHOOSE i \in Covering(a) : \A j \in Covering(a) : i <= j]

InWindow(a) == a >= WindowBase

\* Where an access to a memory goes: the local memory, or the scratchpad of the NOC.
Cell(a) ==
  IF InWindow(a) THEN <<"spm", a - DeviceAt(a).first - RouteWords>> ELSE <<"local", a>>

IsMemory(a) ==
  \/ ~ InWindow(a) /\ a < LocalWords
  \/ InWindow(a) /\ DeviceAt(a).device = "noc" /\ a >= DeviceAt(a).first + RouteWords

End(access) ==
  /\ refused' = access
  /\ answer' = None
  /\ UNCHANGED <<segments, privileged, cells, kept>>

Answer(port, a, v) ==
  /\ answer' = [port |-> port, at |-> a, value |-> v]
  /\ UNCHANGED <<segments, privileged, cells, kept, refused>>

Readable(a, whole) ==
  IsMemory(a) \/ (InWindow(a) /\ whole /\ DeviceAt(a).device \in {"cpuinfo", "perfcounters"})

LoadMapped(a, whole) ==
  /\ Readable(a, whole)
  /\ Answer("map", a,
            CASE IsMemory(a) -> cells[Cell(a)]
              [] ~ IsMemory(a) /\ DeviceAt(a).device = "cpuinfo" ->
                   CpuInfo[a - DeviceAt(a).first + 1]
              [] OTHER -> 0)

LoadMappedRefused(a, whole) ==
  /\ ~ Readable(a, whole)
  /\ End([port |-> "map", at |-> a, op |-> "RD", whole |-> whole])

StoreMemory(a, v) ==
  /\ IsMemory(a)
  /\ cells' = [cells EXCEPT ![Cell(a)] = v]
  /\ kept' = [x \in DOMAIN kept \cup {<<"map", a>>} |-> IF x = <<"map", a>> THEN v ELSE kept[x]]
  /\ answer' = None
  /\ UNCHANGED <<segments, privileged, refused>>

IsMmu(a, whole) == InWindow(a) /\ whole /\ DeviceAt(a).device = "mmu"

\* Two registers to a segment: its base, and its permissions with its length.  What was
\* stored through the segments before is no longer accounted for.
StoreSegment(a, base, right) ==
  LET r == a - DeviceAt(a).first
      s == segments[r \div 2]
  IN
  /\ IsMmu(a, TRUE)
  /\ segments' = [segments EXCEPT ![r \div 2] =
                    IF r % 2 = 0 THEN [s EXCEPT !.base = base]
                    ELSE [s EXCEPT !.perm = right.perm, !.length = right.length]]
  /\ kept' = [x \in {y \in DOMAIN kept : y[1] = "map"} |-> kept[x]]
  /\ answer' = None
  /\ UNCHANGED <<privileged, cells, refused>>

StoreMappedRefused(a, whole) ==
  /\ ~ IsMemory(a) /\ ~ IsMmu(a, whole)
  /\ End([port |-> "map", at |-> a, op |-> "WR", whole |-> whole])

-----------------------------------------------------------------------------
(* The main memory behind the MMU.                                          *)

Reaches(a, op) == Permitted(a, op) /\ Translated(a) < MainWords

LoadMain(a, op) ==
  /\ Reaches(a, op)
  /\ Answer("main", a, cells[<<"main", Translated(a)>>])

\* The words of the main memory that a segment reaches, and whether no other does.
Reach(i) ==
  LET s == segments[i] IN s.base .. s.base + (IF s.length = 0 THEN SegmentWords ELSE s.length) - 1

Alone(i) == \A j \in SegmentIds \ {i} : Reach(i) \cap Reach(j) = {}

\* A supervisor may store anywhere, and to where other segments are.
StoreMain(a, v) ==
  /\ Reaches(a, "WR")
  /\ cells' = [cells EXCEPT ![<<"main", Translated(a)>>] = v]
  /\ kept' = LET before == IF privileged THEN {y \in DOMAIN kept : y[1] = "map"} ELSE DOMAIN kept
                 stored == IF Alone(Index(a)) THEN {<<"main", a>>} ELSE {}
             IN  [x \in before \cup stored |-> IF x \in stored THEN v ELSE kept[x]]
  /\ answer' = None
  /\ UNCHANGED <<segments, privileged, refused>>

MainRefused(a, op) == ~ Reaches(a, op) /\ End([port |-> "main"])

\* A trap, an interrupt, or the return from it.
SwitchMode ==
  /\ privileged' = ~ privileged
  /\ answer' = None
  /\ UNCHANGED <<segments, cells, kept, refused>>

Init ==
  /\ segments = [i \in SegmentIds |-> [base |-> 0, perm |-> {}, length |-> 0]]
  /\ privileged = TRUE
  /\ cells = [c \in ({"main"} \X (0 .. MainWords - 1)) \cup ({"local"} \X (0 .. LocalWords - 1))
                        \cup {Cell(a) : a \in {x \in UNION {m.first .. m.first + m.words - 1 :
                                                              m \in {Map[i] : i \in DOMAIN Map}} :
                                                 IsMemory(x)}}
                  |-> 0]
  /\ answer = None /\ kept = <<>> /\ refused = None

MappedAddresses == 0 .. LocalWords \cup UNION {m.first .. m.first + m.words : m \in {Map[i] : i \in DOMAIN Map}}
MainAddresses == 0 .. NumSegments * SegmentWords - 1

Next ==
  /\ refused = None
  /\ \/ \E a \in MappedAddresses, whole \in BOOLEAN :
          LoadMapped(a, whole) \/ LoadMappedRefused(a, whole) \/ StoreMappedRefused(a, whole)
     \/ \E a \in MappedAddresses, v \in Values : StoreMemory(a, v)
     \/ \E a \in MappedAddresses, b \in Bases, r \in Rights : StoreSegment(a, b, r)
     \/ \E a \in MainAddresses, op \in {"RD", "EX"} : LoadMain(a, op)
     \/ \E a \in MainAddresses : StoreMain(a, a + 1)     \* tells the addresses apart
     \/ \E a \in MainAddresses, op \in {"RD", "WR", "EX"} : MainRefused(a, op)
     \/ SwitchMode

-----------------------------------------------------------------------------
(* Properties.                                                             *)

\* A load finds what was last stored at its address: in a segment that shares no word
\* with another, whatever programs store through the others, and in the memories of the map,
\* whatever is done to the devices.
AnswersLastStored ==
  LET here == <<answer'.port, answer'.at>> IN
  (answer' \notin {None, answer} /\ here \in DOMAIN kept
     /\ (answer'.port = "main" => ~ privileged)) =>
    answer'.value = kept[here]

\* No access of a register or a memory that a device of the map has is refused.  Devices
\* do not overlap.
RefusesOnlyUnmapped ==
  LET a == refused'.at IN
  (refused' # refused /\ refused'.port = "map") =>
    \A i \in DOMAIN Map :
      (refused'.whole /\ a \in Map[i].first .. Map[i].first + Map[i].words - 1) =>
        CASE Map[i].device \in {"cpuinfo", "perfcounters"} -> refused'.op = "WR"
          [] Map[i].device = "mmu" -> refused'.op = "RD"
          [] OTHER -> a < Map[i].first + RouteWords
=============================================================================
