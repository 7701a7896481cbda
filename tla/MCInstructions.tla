--------------------------- MODULE MCInstructions ---------------------------
(***************************************************************************)
(* What instructions compute, how they are encoded and assembled, how their    *)
(* operands and results pass through the pipeline, the caches that they are    *)
(* fetched and load and store through, and how a run of pasim is set up; the   *)
(* variable chosen says which of the six is checked.                          *)
(*                                                                         *)
(* The data and instruction caches are combined in four ways; each index of    *)
(* their tags has three blocks for two tags.                                  *)
(***************************************************************************)
EXTENDS Naturals, FiniteSetsExt, TLC, MCDatapath, DataCache, Encodings

CONSTANTS NoLabel, NotSet, NoSymbol

-----------------------------------------------------------------------------
VARIABLES
  chosen,
  sample,   \* two words, or an instruction with its operands
  source, code, relocs, symbols, phase, window, offset, address, fetch, listing,
  run, stage, options, built, symbolMap, todo, content, marked, flushAt, checked,
  stored, printed, exit

Wide == INSTANCE Arithmetic WITH Width <- 4

\* The corner values of an operand of n bits.
LOCAL Corners(n) == {{}, {0}, {n - 1}, 0 .. n - 1}

\* Operands: all zeros or all ones, but for one that may have any corner value.
LOCAL Samples(i) ==
  LET at == Format[i.format].encode
             @@ IF i.format = "alul" THEN [imm |-> [width |-> 32, signed |-> FALSE]] ELSE <<>>
      names == DOMAIN at
      width(f) == at[f].width
      signed(f, v) == IF at[f].signed /\ width(f) - 1 \in v THEN v \cup width(f) .. 31 ELSE v
      zeros == [f \in names |-> {}]
      ones == [f \in names |-> signed(f, 0 .. width(f) - 1)]
  IN
  UNION {UNION {{[o EXCEPT ![f] = signed(f, v)] : v \in Corners(width(f))}
                  : f \in names} : o \in {zeros, ones}}

\* A line of a program, with its label, and what its statements refer to: a label less
\* another one, or less a number.
LOCAL Plain(rd) == [imm |-> {}, rs1 |-> {}, rd |-> rd, pred |-> {}]
LOCAL If0 == [imm |-> {}, pred |-> {0}]
LOCAL Statement(i, o, sym) == [instr |-> i, operands |-> o, sym |-> sym]
LOCAL Op(format, op, flag) == [format |-> format, op |-> op, flag |-> flag]
LOCAL AddI == Op("alui", 0, 0)
LOCAL Branch == Op("cfli", 1, 1)
LOCAL Line(label, statements) == [label |-> label, statements |-> statements]
LOCAL Less(l, m, n) == [a |-> l, b |-> m, addend |-> - n]
LOCAL At(l) == Less(l, NoLabel, 0)

MCLines ==
  {Line(NoLabel, <<Statement(AddI, Plain({0}), NoLabel)>>),
   Line("f", <<Statement(AddI, Plain({0}), NoLabel), Statement(AddI, Plain({1}), At("g"))>>),
   Line("g", <<Statement(Op("alul", 0, 0), Plain({1}), At("f"))>>),
   Line(NoLabel, <<Statement(Branch, If0, At("g")),
                   Statement(AddI, Plain({0}), Less("f", "g", 0))>>),
   Line("f", <<Statement(Branch, If0, At("f"))>>),
   Line(NoLabel, <<Statement(AddI, Plain({0}), NoLabel), Statement(Branch, If0, At("f"))>>),
   Line(NoLabel, <<Statement(Op("cfli", 0, 1), [imm |-> {}, pred |-> {}], At("f"))>>),
   Line(NoLabel, <<Statement(Op("ldt", 2, 0), Plain({1}), At("g")),
                   Statement(Op("ldt", 16, 0), Plain({2}), Less("g", "f", 0))>>),
   Line("g", <<Statement(Op("stt", 4, 0), [rs2 |-> {1}] @@ If0 @@ [rs1 |-> {}],
                         Less("g", NoLabel, 2))>>)}

Asm == INSTANCE Assembly WITH
  Permissive <- TRUE, Lines <- MCLines, MaxLines <- 3

assemblyVars ==
  <<source, code, relocs, symbols, phase, window, offset, address, fetch, listing>>

\* The caches, and the accesses made through them.
LOCAL Caches(instr, data) == ("IF" :> instr) @@ ("MW" :> data)
LOCAL Load(a) == [addr |-> a, size |-> 1, load |-> TRUE, val |-> 0]
LOCAL Store(a) == [addr |-> a, size |-> 1, load |-> FALSE, val |-> 1]

MCSystems == {Caches("fifo", "lru"), Caches("lru", "fifo"), Caches("lru", "none"),
              Caches("ideal", "lru")}
MCLoads == {Load(a) : a \in {0, 5, 8}}
MCStores == {Store(a) : a \in {1, 8}}

\* Runs of pasim: an ELF file of one or two segments, which overlap, touch, leave gaps, or
\* exceed a memory of six bytes, with the checks of reads; a binary; files that are no
\* program; programs with all tables of up to two symbols of a small universe; and one
\* program with options of all kinds, some of them refused or impossible to build.
LOCAL Size(n, u) == [number |-> n, unit |-> u]
LOCAL Cache(k, w) == [kind |-> k, ways |-> w]
LOCAL Named(n) == [number |-> 0, name |-> n]

LOCAL Segment(load, at, filesz, memsz, bytes) ==
  [load |-> load, at |-> at, filesz |-> filesz, memsz |-> memsz, bytes |-> bytes]
LOCAL Elf(segments, syms, accesses) ==
  [format |-> "elf", segments |-> segments, symbols |-> syms, accesses |-> accesses]
LOCAL Binary(n) ==
  [format |-> "bin", size |-> n, symbols |-> {}, accesses |-> TRUE]

LOCAL Texts ==
  {Segment(TRUE, 0, 1, 3, "code"), Segment(TRUE, 1, 2, 2, "code"),
   Segment(TRUE, 4, 0, 2, "code"), Segment(TRUE, 4, 2, 4, "code"),
   Segment(FALSE, 0, 2, 2, "code"), Segment(TRUE, 7, 0, 0, "code")}
LOCAL Data == Segment(TRUE, 1, 2, 2, "data")

LOCAL Main == [address |-> 4, size |-> 2, func |-> TRUE, name |-> "main"]
LOCAL Symbols ==
  {s @@ [name |-> s] : s \in [address : {1, 2, 4}, size : {0, 2, 4}, func : BOOLEAN]}
LOCAL Tables == UNION {kSubset(n, Symbols) : n \in 0 .. 2}

LOCAL Small == [gsize |-> Size(6, "")]
LOCAL Checked == [gsize : {Size(6, "")}, memrand : {1},
                  chkreads : {"err", "error-addr", "warn-addr"}]

LOCAL Configs ==
  [dckind : {Cache("dm", 0), Cache("lru", 0), Cache("lru", 4), Cache("fifo", 3),
             Cache("ideal", 0)},
   dcsize : {Size(2, "k"), Size(72, ""), Size(0, "")}, dlsize : {Size(0, ""), Size(24, "")}]
  \cup
  [icache : {"icache", "mcache", "cache"},
   ickind : {Cache("fifo", 2), Cache("no", 0), Cache("no", 2)},
   mcsize : {Size(1, "kb"), Size(100, "")}, mbsize : {Size(0, ""), Size(32, "")},
   mckind : {"lru", "ideal"}, mcmethods : {0, 8}]
  \cup
  [sckind : {"ideal", "block", "ablock", "lblock", "dcache"},
   scsize : {Size(5, "m"), Size(100, "")}, cores : {0, 1, 2}, gtime : {0, 9},
   psize : {Size(0, ""), Size(1, "g")}, chkreads : {"none", "err"}]
  \cup
  [flushcaches : {[number |-> 8, name |-> ""], Named("main"), Named("other")}]

PasimRuns ==
  {[given |-> g, file |-> Elf(<<f, Data>>, {Main}, TRUE)] : g \in Checked, f \in Texts}
  \cup {[given |-> Small, file |-> Elf(<<f>>, {}, TRUE)] : f \in Texts}
  \cup {[given |-> Small, file |-> Binary(n)] : n \in {2, 7}}
  \cup {[given |-> Small, file |-> [format |-> f]] : f \in {"foreign", "missing", "none"}}
  \cup {[given |-> Small, file |-> Elf(<<>>, t, FALSE)] : t \in Tables}
  \cup {[given |-> o, file |-> Elf(<<>>, {Main}, FALSE)] : o \in Configs}

Start == INSTANCE Pasim WITH
  Runs <- PasimRuns, LazyBytes <- 2, Addresses <- 0 .. 6,
  phase <- stage, symbols <- symbolMap, system <- built

pasimVars ==
  <<run, stage, options, built, symbolMap, todo, content, marked, flushAt, checked,
    stored, printed, exit>>

LOCAL AnyRun == CHOOSE r \in PasimRuns : TRUE
LOCAL NoSample == <<>>
LOCAL AnyProgram == CHOOSE p \in Programs : TRUE
LOCAL AnySystem == CHOOSE s \in Systems : TRUE

AnyInit ==
  /\ \/ /\ chosen \in {"datapath", "assembly", "caches", "pasim"} /\ sample = NoSample
     \/ chosen = "arithmetic" /\ sample \in Wide!Word \X Wide!Word
     \/ chosen = "encoding" /\ \E i \in Instructions : \E o \in Samples(i) : sample = <<i, o>>
  /\ IF chosen = "pasim" THEN Start!Init ELSE run = AnyRun /\ Start!Init
  /\ IF chosen = "datapath" THEN Init ELSE program = AnyProgram /\ Init
  /\ IF chosen = "caches" THEN CachesInit ELSE system = AnySystem /\ pc = 0 /\ CachesInit
  /\ Asm!Init

AnyNext ==
  /\ UNCHANGED <<chosen, sample>>
  /\ \/ chosen = "datapath" /\ Next /\ UNCHANGED <<assemblyVars, cachesVars, pasimVars>>
     \/ chosen = "assembly" /\ Asm!Next /\ UNCHANGED <<vars, cachesVars, pasimVars>>
     \/ chosen = "caches" /\ CachesNext /\ UNCHANGED <<vars, assemblyVars, pasimVars>>
     \/ chosen = "pasim" /\ Start!Next /\ UNCHANGED <<vars, assemblyVars, cachesVars>>

AnySpec ==
  AnyInit /\ [][AnyNext]_<<vars, chosen, sample, assemblyVars, cachesVars, pasimVars>>

-----------------------------------------------------------------------------
\* Every operation computes what a compiler relies on: sums from their carries,
\* signed comparisons from differences, arithmetic shifts from complements, bits
\* copied and tested, the halves of products, and bytes stored and loaded (compute
\* of the instruction classes).
ComputesRight ==
  chosen = "arithmetic" =>
    LET a == sample[1]  b == sample[2] IN
    /\ Wide!LogicLaws(a, b) /\ Wide!ShiftLaws(a, b) /\ Wide!CompareLaws(a, b)
    /\ Wide!BitLaws(a, b) /\ Wide!ProductLaws(a, b) /\ Wide!BytesLaws(a)

\* What encode makes of an instruction and its operands, decode takes apart again,
\* in every slot where the instruction is legal, bundled or not; and no word at all is
\* an instruction in two ways (the assertion of decoder_t::decode).
DecodesWhatWasEncoded ==
  chosen = "encoding" =>
    LET i == sample[1]  o == sample[2]
        word == Encoded(i, o)
        long == IF i.format = "alul" THEN o.imm ELSE {0}
    IN
    /\ Distinguished(i)
    /\ \A slot \in {0, 1}, bundled \in BOOLEAN :
         LET w == IF bundled THEN word \cup {31} ELSE word IN
         /\ slot \in Format[i.format].slots =>
              Decode(w, long, slot, FALSE) = {[instr |-> i, operands |-> o]}
         /\ slot \in Format[i.format].permissive =>
              Decode(w, long, slot, TRUE) = {[instr |-> i, operands |-> o]}

\* Listing gives back what was assembled (ListsWhatWasWritten).
ListsAsWritten == Asm!ListsWhatWasWritten

\* What pasim builds is what was asked for, and the options it prints build it again
\* (BuiltToSize, PrintedAgain, SizesReadBack).
PasimBuiltAsAsked == Start!BuiltAsAsked

\* The memory and the symbols of a program are those that it was linked with, and what
\* it stored since (HoldsStored, ComplainsRightly, the laws of SymbolMap).
ProgramLoadedAsLinked == Start!LoadedAsLinked

\* A function is named before its blocks (NamesFunctionFirst).
FunctionsBeforeBlocks == Start!FunctionsNamedFirst
=============================================================================
