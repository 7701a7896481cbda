------------------------------ MODULE Assembly ------------------------------
(***************************************************************************)
(* From assembler lines to words and back: line_assembler_t (assembler.cc)    *)
(* with the relocations of symbol.cc, and the loop of decoder_t over a         *)
(* section (decoder.cc), which padasm lists and pacheck checks.              *)
(*                                                                         *)
(* A line is a label, or none, and the statements of one bundle with their    *)
(* operands already parsed; the lexer is left out.  A statement may refer to  *)
(* a label, less another label or a number, and that is patched into the word *)
(* at the end.                                                             *)
(***************************************************************************)
EXTENDS Encodings, SequencesExt

CONSTANTS
  Permissive, \* Use_permissive_dual_issue
  Lines,     \* the lines a program may have
  MaxLines,  \* bound on its length
  NoLabel

VARIABLES
  source,     \* the lines parsed
  code,       \* Code: the words so far
  relocs,     \* Relocations: the index of a word, its instruction and symbols
  symbols,    \* SymTab: labels and their addresses, in the order of the lines
  phase,      \* "parse", "list", or "end"
  window, offset, address, fetch,  \* the loop of decoder_t::decode
  listing     \* what process_bundle was called with

assemblyVars ==
  <<source, code, relocs, symbols, phase, window, offset, address, fetch, listing>>

\* The bits of a number as a word of 32 bits.
Bits32(n) == {k \in 0 .. 30 : (n \div 2 ^ k) % 2 = 1} \cup (IF n < 0 THEN {31} ELSE {})

-----------------------------------------------------------------------------
(* The assembler.                                                          *)

\* Faulty: every access counts words.
AccessOfWords(i) == 2

\* Accesses count in their own width, the second letter of their names.
AccessShift(i) ==
  CASE i.op \in 0 .. 3 -> 2
    [] i.op \in 4 .. 7 \cup 12 .. 15 -> 1
    [] OTHER -> 0

\* reloc_info_t as parse_operands of each format sets it; no offset is ever set.
LOCAL Reloc(size, shift, relative) == [size |-> size, shift |-> shift, relative |-> relative]

\* Faulty: a branch is taken for a call.
RelocAbsolute(i) ==
  CASE i.format = "alui" -> Reloc(12, 0, FALSE)
    [] i.format = "alul" -> Reloc(32, 0, FALSE)
    [] i.format \in {"ldt", "stt"} -> Reloc(7, AccessShift(i), FALSE)
    [] i.format \in {"stci", "cfli"} -> Reloc(22, 2, FALSE)
    [] OTHER -> Reloc(0, 0, FALSE)

\* A branch with delay slots is relative to the program counter.
RelocOf(i) ==
  CASE i.format = "alui" -> Reloc(12, 0, FALSE)
    [] i.format = "alul" -> Reloc(32, 0, FALSE)
    [] i.format \in {"ldt", "stt"} -> Reloc(7, AccessShift(i), FALSE)
    [] i.format = "stci" -> Reloc(22, 2, FALSE)
    [] i.format = "cfli" -> Reloc(22, 2, i.op = 1 /\ i.flag = 1)
    [] OTHER -> Reloc(0, 0, FALSE)

\* The words of a statement; bundled says that || follows.
Words(s, bundled) ==
  LET word == Encoded(s.instr, s.operands) \cup (IF bundled THEN {31} ELSE {})
  IN  IF s.instr.format = "alul" THEN <<word, s.operands.imm>> ELSE <<word>>

\* parse_line: the label gets the address of the next word, and the relocation of
\* a statement is that of its last word.
ParseLine(l) ==
  LET n == Len(l.statements)
      at(k) == Len(code) + k - 1
               + (IF l.statements[k].instr.format = "alul" THEN 1 ELSE 0)
  IN
  /\ phase = "parse" /\ Len(source) < MaxLines
  /\ source' = Append(source, l)
  /\ symbols' = IF l.label = NoLabel THEN symbols
                ELSE Append(symbols, [name |-> l.label, address |-> 4 * Len(code)])
  /\ code' = code \o FlattenSeq([k \in 1 .. n |-> Words(l.statements[k], k < n)])
  /\ relocs' = relocs \o
       SelectSeq([k \in 1 .. n |-> [index |-> at(k), sym |-> l.statements[k].sym,
                                    instr |-> l.statements[k].instr]],
                 LAMBDA r : r.sym # NoLabel)
  /\ UNCHANGED <<phase, window, offset, address, fetch, listing>>

\* symbol_map_t::find: the first symbol of this name.
Defined(sym) == \E k \in 1 .. Len(symbols) : symbols[k].name = sym
Find(sym) == symbols[CHOOSE k \in 1 .. Len(symbols) :
                       /\ symbols[k].name = sym
                       /\ \A j \in 1 .. k - 1 : symbols[j].name # sym].address

Known(e) == Defined(e.a) /\ (e.b # NoLabel => Defined(e.b))

\* Faulty: the number is subtracted before the shift.
ValueInBytes(r) ==
  LET format == RelocOf(r.instr)
      distance == Find(r.sym.a) - (IF r.sym.b = NoLabel THEN 0 ELSE Find(r.sym.b))
                    - (IF format.relative THEN 4 * r.index ELSE 0)
  IN  Bits32((distance + r.sym.addend) \div 2 ^ format.shift) \cap 0 .. format.size - 1

\* reloc_info_t::get_value: shifted to the unit of the operand, where the number is
\* added, and cut to its size.
Value(r) ==
  LET format == RelocOf(r.instr)
      distance == Find(r.sym.a) - (IF r.sym.b = NoLabel THEN 0 ELSE Find(r.sym.b))
                    - (IF format.relative THEN 4 * r.index ELSE 0)
  IN  Bits32(distance \div 2 ^ format.shift + r.sym.addend) \cap 0 .. format.size - 1

\* write_program: a relocation to a label that is nowhere is left out; the labels
\* are only reported.
WriteProgram ==
  /\ phase = "parse" /\ source # <<>>
  /\ phase' = "list"
  /\ code' = [w \in 1 .. Len(code) |->
                code[w] \cup UNION {Value(r) : r \in {x \in ToSet(relocs) :
                                      x.index + 1 = w /\ Known(x.sym)}}]
  /\ UNCHANGED <<source, relocs, symbols, window, offset, address, fetch, listing>>

-----------------------------------------------------------------------------
(* The loop over a section.                                                *)

\* A word of the section; zeros are read behind its end.
WordAt(o) == IF o < 4 * Len(code) THEN code[o \div 4 + 1] ELSE {}

\* Faulty: the loop ends with the section.
ListsLess == offset < 4 * Len(code)

\* The loop goes on until the words in the window have been read behind the end.
Lists == offset < 4 * Len(code) + 4

\* One bundle: as many words are read as the last one took.
ListBundle ==
  LET read == [k \in 1 .. fetch |-> WordAt(offset + 4 * (k - 1))]
      words == SubSeq(window \o read, fetch + 1, fetch + 2)
      bundle == DecodeBundle(words[1], words[2], Permissive)
  IN
  /\ phase = "list" /\ Lists
  /\ window' = words
  /\ offset' = offset + 4 * fetch
  /\ listing' = Append(listing, [address |-> address, bundle |-> bundle])
  /\ fetch' = BundleSize(bundle)
  /\ address' = address + 4 * BundleSize(bundle)
  /\ UNCHANGED <<source, code, relocs, symbols, phase>>

EndOfSection ==
  /\ phase = "list" /\ ~ Lists
  /\ phase' = "end"
  /\ UNCHANGED <<source, code, relocs, symbols, window, offset, address, fetch, listing>>

Init ==
  /\ source = <<>> /\ code = <<>> /\ relocs = <<>> /\ symbols = <<>>
  /\ phase = "parse"
  /\ window = <<{}, {}>> /\ offset = 0 /\ address = 0 /\ fetch = 2
  /\ listing = <<>>

Next ==
  \/ \E l \in Lines : ParseLine(l)
  \/ WriteProgram
  \/ ListBundle
  \/ EndOfSection

Spec == Init /\ [][Next]_assemblyVars

-----------------------------------------------------------------------------
LOCAL WordsOf(l) ==
  IF l.statements[1].instr.format = "alul" THEN 2 ELSE Len(l.statements)
LOCAL AddressOf(k) == 4 * FoldSet(LAMBDA j, sum : WordsOf(source[j]) + sum, 0, 1 .. k - 1)

LOCAL LabelAt(sym) ==
  AddressOf(CHOOSE k \in 1 .. Len(source) :
              source[k].label = sym /\ \A j \in 1 .. k - 1 : source[j].label # sym)

LOCAL AccessBytes ==
  [ldt |-> [i \in 0 .. 19 |-> <<4, 2, 1, 2, 1>>[i \div 4 + 1]],
   stt |-> [i \in 0 .. 11 |-> <<4, 2, 1>>[i \div 4 + 1]]]

\* The number n as an immediate, its upper bits lost if the field is too small.
LOCAL AsImmediate(n, i) ==
  LET at == IF i.format = "alul" THEN [width |-> 32, signed |-> FALSE]
            ELSE Format[i.format].encode.imm
      bits == Bits32(n) \cap 0 .. at.width - 1
  IN  bits \cup IF at.signed /\ at.width - 1 \in bits THEN at.width .. 31 ELSE {}

\* What statement j of line k means: where it goes, or the address it names, in the
\* unit of its instruction; a branch counts words from its own.
LOCAL Meant(s, k, j) ==
  LET labels == {source[n].label : n \in 1 .. Len(source)} \ {NoLabel}
      e == s.sym
      to == LabelAt(e.a) - (IF e.b = NoLabel THEN 0 ELSE LabelAt(e.b))
      units == CASE s.instr.format \in {"ldt", "stt"} ->
                      to \div AccessBytes[s.instr.format][s.instr.op]
                 [] s.instr.format = "cfli" /\ s.instr.op = 1 ->
                      (to - AddressOf(k)) \div 4 - (j - 1)
                 [] s.instr.format = "cfli" /\ s.instr.op # 1 -> to \div 4
                 [] OTHER -> to
      known == e # NoLabel /\ {e.a, e.b} \ {NoLabel} \subseteq labels
  IN  [instr |-> s.instr,
       operands |-> IF known
                    THEN [s.operands EXCEPT !.imm = AsImmediate(units + e.addend, s.instr)]
                    ELSE s.operands]

\* Listing what was assembled gives the lines back, each at its address, with the
\* operands and the destinations they were written with.  Behind a last bundle of
\* two words one more is listed, of zeros: the loop cannot know that the section has
\* ended (decoder_t::decode, line_assembler_t, reloc_info_t::get_value).
ListsWhatWasWritten ==
  phase = "end" =>
    LET lines == [k \in 1 .. Len(source) |->
                    [address |-> AddressOf(k),
                     bundle |-> [j \in 1 .. Len(source[k].statements) |->
                                   Meant(source[k].statements[j], k, j)]]]
        behind == IF WordsOf(Last(source)) = 2
                  THEN <<[address |-> 4 * Len(code), bundle |-> DecodeBundle({}, {}, Permissive)]>>
                  ELSE <<>>
    IN  listing = lines \o behind
=============================================================================
