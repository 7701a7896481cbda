----------------------------- MODULE Encodings ------------------------------
(***************************************************************************)
(* The binary formats of the instructions: binary_format_t and its            *)
(* subclasses (binary-format.h, binary-formats.cc), the table of the          *)
(* instructions (instructions.inc), and decoder_t (decoder.cc).              *)
(*                                                                         *)
(* A word is the set of its bits that are 1, and so is the value of an        *)
(* operand.  An instruction is a format with an opcode and a flag; its name   *)
(* is left out.                                                            *)
(***************************************************************************)
EXTENDS Integers, Sequences, FiniteSets, TLC

LOCAL BitsOf(n) == {k \in 0 .. 4 : (n \div 2 ^ k) % 2 = 1}

\* insert: the pattern goes to bit start.  extract: width bits from start.
Insert(start, pattern) == {start + k : k \in pattern}
Extract(word, start, width) == {k \in 0 .. width - 1 : start + k \in word}

\* extractS: the sign of the field is extended.
ExtractS(word, start, width) ==
  Extract(word, start, width)
    \cup (IF start + width - 1 \in word THEN width .. 31 ELSE {})

\* An operand of width bits at bit start: unsigned, or signed.
LOCAL U(start, width) == [start |-> start, width |-> width, signed |-> FALSE]
LOCAL S(start, width) == [start |-> start, width |-> width, signed |-> TRUE]

-----------------------------------------------------------------------------
(* The formats: the mask and the pattern that the constructor gives to        *)
(* binary_format_t, the bit its opcode is inserted at, the slots it is legal in *)
(* and those with permissive dual issue, and where encode puts the operands    *)
(* and decode_operands looks for them.                                      *)

LOCAL Both == {0, 1}
LOCAL First == {0}
LOCAL Unit == 22 .. 26   \* the bits that tell the groups of formats apart
LOCAL Guard == [pred |-> U(27, 4)]

LOCAL Shape(mask, pattern, opAt, slots, permissive, encode, decode) ==
  [mask |-> mask, pattern |-> pattern, opAt |-> opAt, slots |-> slots,
   permissive |-> permissive, encode |-> encode @@ Guard, decode |-> decode @@ Guard]

alui ==
  Shape(Unit, {}, 22, Both, Both,
        [imm |-> U(0, 12), rs1 |-> U(12, 5), rd |-> U(17, 5)],
        [imm |-> U(0, 12), rs1 |-> U(12, 5), rd |-> U(17, 5)])

\* The immediate is a word of its own.
alul ==
  Shape(Unit \cup 0 .. 6 \cup {31}, Unit \cup {31}, 0, First, First,
        [rs1 |-> U(12, 5), rd |-> U(17, 5)],
        [rs1 |-> U(12, 5), rd |-> U(17, 5)])

alur ==
  Shape(Unit \cup 0 .. 6, {25}, 0, Both, Both,
        [rs2 |-> U(7, 5), rs1 |-> U(12, 5), rd |-> U(17, 5)],
        [rs2 |-> U(7, 5), rs1 |-> U(12, 5), rd |-> U(17, 5)])

alum ==
  Shape(Unit \cup 0 .. 6, {25, 5}, 0, First, Both,
        [rs2 |-> U(7, 5), rs1 |-> U(12, 5)],
        [rs2 |-> U(7, 5), rs1 |-> U(12, 5)])

aluc ==
  Shape(Unit \cup 0 .. 6, {25, 5, 4}, 0, Both, Both,
        [rs2 |-> U(7, 5), rs1 |-> U(12, 5), pd |-> U(17, 3)],
        [rs2 |-> U(7, 5), rs1 |-> U(12, 5), pd |-> U(17, 3)])

\* Faulty: without the bit that tells it from alup.
aluciUnmarked ==
  Shape(Unit \cup 0 .. 6, {25, 6}, 0, Both, Both,
        [imm |-> U(7, 5), rs1 |-> U(12, 5), pd |-> U(17, 3)],
        [imm |-> U(7, 5), rs1 |-> U(12, 5), pd |-> U(17, 3)])

aluci ==
  Shape(Unit \cup 0 .. 6, {25, 6, 5}, 0, Both, Both,
        [imm |-> U(7, 5), rs1 |-> U(12, 5), pd |-> U(17, 3)],
        [imm |-> U(7, 5), rs1 |-> U(12, 5), pd |-> U(17, 3)])

\* Faulty: Ps2 as far up as a register would reach.
alupWide ==
  Shape(Unit \cup 0 .. 6, {25, 6}, 0, Both, Both,
        [ps2 |-> U(9, 4), ps1 |-> U(12, 4), pd |-> U(17, 3)],
        [ps2 |-> U(9, 4), ps1 |-> U(12, 4), pd |-> U(17, 3)])

alup ==
  Shape(Unit \cup 0 .. 6, {25, 6}, 0, Both, Both,
        [ps2 |-> U(7, 4), ps1 |-> U(12, 4), pd |-> U(17, 3)],
        [ps2 |-> U(7, 4), ps1 |-> U(12, 4), pd |-> U(17, 3)])

alub ==
  Shape(Unit \cup 4 .. 6, {25, 6, 4}, 0, Both, Both,
        [ps1 |-> U(0, 4), imm |-> U(7, 5), rs1 |-> U(12, 5), rd |-> U(17, 5)],
        [ps1 |-> U(0, 4), imm |-> U(7, 5), rs1 |-> U(12, 5), rd |-> U(17, 5)])

spct ==
  Shape(Unit \cup 4 .. 6, {25, 22, 5}, 0, Both, Both,
        [s |-> U(0, 4), rs1 |-> U(12, 5)],
        [s |-> U(0, 4), rs1 |-> U(12, 5)])

spcf ==
  Shape(Unit \cup 4 .. 6, {25, 22, 5, 4}, 0, Both, Both,
        [s |-> U(0, 4), rd |-> U(17, 5)],
        [s |-> U(0, 4), rd |-> U(17, 5)])

ldt ==
  Shape(Unit \cup 7 .. 11, {25, 23}, 7, First, Both,
        [imm |-> U(0, 7), rs1 |-> U(12, 5), rd |-> U(17, 5)],
        [imm |-> U(0, 7), rs1 |-> U(12, 5), rd |-> U(17, 5)])

stt ==
  Shape(Unit \cup 17 .. 21, {25, 23, 22}, 17, First, Both,
        [imm |-> U(0, 7), rs2 |-> U(7, 5), rs1 |-> U(12, 5)],
        [imm |-> U(0, 7), rs2 |-> U(7, 5), rs1 |-> U(12, 5)])

stci ==
  Shape(Unit \cup 18 .. 21, {25, 24}, 20, First, First,
        [imm |-> U(0, 18)],
        [imm |-> U(0, 18)])

stcr ==
  Shape(Unit \cup 18 .. 21, {25, 24, 18}, 20, First, First,
        [rs1 |-> U(12, 5)],
        [rs1 |-> U(12, 5)])

cfli ==
  Shape(Unit, {26}, 23, First, Both,
        [imm |-> S(0, 22)],
        [imm |-> S(0, 22)])

cflri ==
  Shape(Unit \cup 0 .. 3, {26, 25}, 0, First, First,
        Guard,
        Guard)

cflrs ==
  Shape(Unit \cup 0 .. 3, {26, 25, 2}, 0, First, First,
        [rs1 |-> U(12, 5)],
        [rs1 |-> U(12, 5)])

cflrt ==
  Shape(Unit \cup 0 .. 3, {26, 25, 3}, 0, First, First,
        [rs2 |-> U(7, 5), rs1 |-> U(12, 5)],
        [rs2 |-> U(7, 5), rs1 |-> U(12, 5)])

Format ==
  [alui |-> alui, alul |-> alul, alur |-> alur, alum |-> alum,
   aluc |-> aluc, aluci |-> aluci, alup |-> alup, alub |-> alub,
   spct |-> spct, spcf |-> spcf, ldt |-> ldt, stt |-> stt,
   stci |-> stci, stcr |-> stcr, cfli |-> cfli, cflri |-> cflri,
   cflrs |-> cflrs, cflrt |-> cflrt]

LOCAL Group(format, ops, flags) ==
  [format : {format}, op : ops, flag : flags]

\* initialize_instructions.  bcopy, mts and mfs have no opcode of their own.
Instructions ==
       Group("alui", 0 .. 7, {0})
  \cup Group("alul", 0 .. 7 \cup 11 .. 13, {0})
  \cup Group("alur", 0 .. 7 \cup 11 .. 13, {0})
  \cup Group("alum", 0 .. 1, {0})
  \cup Group("aluc", 0 .. 6, {0})
  \cup Group("aluci", 0 .. 6, {0})
  \cup Group("alup", {6, 7, 10}, {0})
  \cup Group("alub", {0}, {0}) \cup Group("spct", {0}, {0}) \cup Group("spcf", {0}, {0})
  \cup Group("ldt", 0 .. 19, {0})
  \cup Group("stt", 0 .. 11, {0})
  \cup Group("stci", 0 .. 3, {0})
  \cup Group("stcr", {1, 3}, {0})
  \cup Group("cfli", 0 .. 2, {0, 1}) \cup Group("cfli", {3}, {0})
  \cup Group("cflri", 0 .. 1, {0, 1})
  \cup Group("cflrs", 0 .. 1, {0, 1})
  \cup Group("cflrt", {2}, {0, 1})

Flagged == {"cfli", "cflri", "cflrs", "cflrt"}

\* The opcode the constructor of a format makes.
Opcode ==
  [i \in Instructions |->
    Format[i.format].pattern
      \cup (IF i.format \in {"alub", "spct", "spcf"} THEN {}
            ELSE Insert(Format[i.format].opAt, BitsOf(i.op)))
      \cup (IF i.format \in Flagged THEN Insert(22, BitsOf(i.flag)) ELSE {})]

-----------------------------------------------------------------------------
\* encode: the first word; insertVs cuts off the upper bits of a signed value.
Encoded(i, operands) ==
  LET at == Format[i.format].encode IN
  Opcode[i] \cup
    UNION {Insert(at[f].start, operands[f] \cap 0 .. at[f].width - 1) : f \in DOMAIN at}

-----------------------------------------------------------------------------
(* decode.                                                                 *)

\* binary_format_t::matches; permissive is Use_permissive_dual_issue.
Matches(i, word, slot, permissive) ==
  LET f == Format[i.format] IN
  /\ slot \in IF permissive THEN f.permissive ELSE f.slots
  /\ word \cap f.mask = Opcode[i]

\* decode_operands; long is the word behind.
DecodedOperands(format, word, long) ==
  LET at == Format[format].decode IN
  [f \in DOMAIN at |->
     IF at[f].signed THEN ExtractS(word, at[f].start, at[f].width)
     ELSE Extract(word, at[f].start, at[f].width)]
  @@ IF format = "alul" THEN [imm |-> long] ELSE <<>>

\* decoder_t::decode of one word: every instruction that matches.
Decode(word, long, slot, permissive) ==
  {[instr |-> i, operands |-> DecodedOperands(i.format, word, long)] :
     i \in {j \in Instructions : Matches(j, word, slot, permissive)}}

Unknown == <<>>

\* decoder_t::decode of a bundle: its instructions, one or two; a long one
\* takes both words.
DecodeBundle(first, second, permissive) ==
  LET one == Decode(first, second, 0, permissive)
      two == Decode(second, {}, 1, permissive)
  IN
  IF one = {} THEN Unknown
  ELSE LET i == CHOOSE x \in one : TRUE IN
       IF i.instr.format = "alul" \/ 31 \notin first THEN <<i>>
       ELSE IF two = {} THEN Unknown ELSE <<i, CHOOSE x \in two : TRUE>>

\* Words the bundle takes.
BundleSize(bundle) ==
  CASE bundle = Unknown -> 1
    [] bundle # Unknown /\ (Len(bundle) = 2 \/ bundle[1].instr.format = "alul") -> 2
    [] OTHER -> 1

-----------------------------------------------------------------------------
\* No word at all is matched by two instructions in one slot, for the bits that
\* both masks cover tell them apart (the assertion of decoder_t::decode).
Distinguished(i) ==
  \A j \in Instructions \ {i} :
    LET both == Format[i.format].mask \cap Format[j.format].mask
    IN  \/ Opcode[i] \cap both # Opcode[j] \cap both
        \/ Format[i.format].permissive \cap Format[j.format].permissive = {}
=============================================================================
