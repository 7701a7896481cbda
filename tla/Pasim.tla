-------------------------------- MODULE Pasim ---------------------------------
(***************************************************************************)
(* A run of pasim (main in pasim.cc): its options are read, the memories and *)
(* caches are built, the program is loaded (loader.cc) into a memory that is  *)
(* initialised as it is accessed (check_initialize_content), the symbols are  *)
(* looked up, the program loads and stores, and the options are printed so    *)
(* that the run can be repeated.                                            *)
(***************************************************************************)
EXTENDS CommandLine, SymbolMap

CONSTANTS
  Runs,           \* pairs of the options given and the program file
  LazyBytes,      \* how much more than an access is initialised (1024)
  Addresses,      \* what the program loads from and stores to
  NotSet

VARIABLES
  run,            \* the options given, and the file
  phase,
  options, system,
  symbols, todo,  \* the symbol map, the segments not yet loaded
  content,        \* Content below Initialized_offset
  marked,         \* Init_vector
  flushAt,        \* where to flush the caches
  checked,        \* what the last load was answered
  stored,         \* history: the byte last stored, by the loader or the program
  printed,        \* the options printed at the end
  exit            \* the exit code

programVars == <<symbols, todo, content, marked, flushAt, checked, stored>>
vars == <<run, phase, options, system, programVars, printed, exit>>

-----------------------------------------------------------------------------
(* The options.                                                            *)

Plain(n) == [number |-> n, unit |-> None]

\* The default_value of each option, as a text.
Defaults ==
  [cores |-> 1, gsize |-> [number |-> 2, unit |-> "m"], gtime |-> 21, tdelay |-> 0,
   bsize |-> 16, psize |-> Plain(0), ispmsize |-> [number |-> 128, unit |-> "k"],
   memrand |-> 0, chkreads |-> "none",
   dcsize |-> [number |-> 2, unit |-> "k"], dckind |-> [kind |-> "dm", ways |-> 0],
   dlsize |-> Plain(0), scsize |-> [number |-> 2, unit |-> "k"], sckind |-> "block",
   icache |-> "mcache", ickind |-> [kind |-> "lru", ways |-> 2], ilsize |-> Plain(0),
   mcsize |-> [number |-> 4, unit |-> "k"], mckind |-> "fifo", mcmethods |-> 16,
   mbsize |-> Plain(8), flushcaches |-> [number |-> 0, name |-> None],
   debugfmt |-> "default", debugcache |-> "none", gkind |-> "simple"]

Read(option, text) ==
  CASE option \in {"gsize", "psize", "ispmsize", "dcsize", "dlsize", "scsize", "ilsize",
                   "mcsize", "mbsize"} -> ReadSize(text)
    [] option \in {"dckind", "ickind"} -> ReadCache(text)
    [] option = "chkreads" -> ReadMemCheck(text)
    [] option = "sckind" -> ReadWord(StackCacheKind, text)
    [] option = "icache" -> ReadWord(InstrCache, text)
    [] option = "mckind" -> ReadWord(MethodCacheKind, text)
    [] option = "gkind" -> ReadWord(MemoryKind, text)
    [] option = "debugfmt" -> ReadWord(DebugFormat, text)
    [] option = "debugcache" -> ReadWord(DebugCache, text)
    [] option = "flushcaches" -> ReadAddress(text)
    [] OTHER -> {text}

\* The options that follow from what was given: a method cache block is a burst if not
\* said otherwise, and there is no data cache while reads are checked.
Configured(given) ==
  LET texts == given @@ Defaults
      o == [k \in DOMAIN Defaults |-> CHOOSE v \in Read(k, texts[k]) : TRUE]
  IN  [o EXCEPT !.mbsize = IF @ = 0 THEN o.bsize ELSE @,
                !.dckind.policy = IF o.chkreads # "MCK_NONE" THEN "SAC_NO" ELSE @]

Refused(given) == \E k \in DOMAIN given : Read(k, given[k]) = {}

\* Faulty: the block size is printed as it was given.
PrintedNoBlockSize(o) ==
  [k \in {"cores", "gtime", "tdelay", "bsize", "mcmethods"} |-> o[k]]
    @@ [k \in {"gsize", "psize", "dcsize", "dlsize", "scsize", "ilsize", "mcsize"}
          |-> Plain(o[k])]
    @@ [dckind |-> WriteCache(o.dckind), ickind |-> WriteCache(o.ickind),
        sckind |-> StackCacheKind[o.sckind], icache |-> InstrCache[o.icache],
        mckind |-> MethodCacheKind[o.mckind]]

\* The options printed after the run.
Printed(o) ==
  [k \in {"cores", "gtime", "tdelay", "bsize", "mcmethods"} |-> o[k]]
    @@ [k \in {"gsize", "psize", "dcsize", "dlsize", "scsize", "ilsize", "mcsize", "mbsize"}
          |-> Plain(o[k])]
    @@ [dckind |-> WriteCache(o.dckind), ickind |-> WriteCache(o.ickind),
        sckind |-> StackCacheKind[o.sckind], icache |-> InstrCache[o.icache],
        mckind |-> MethodCacheKind[o.mckind]]
    @@ (IF flushAt # NotSet THEN [flushcaches |-> WriteAddress([value |-> flushAt])]
        ELSE <<>>)

-----------------------------------------------------------------------------
(* The memory.                                                             *)

Exceeds(a, size) == a > options.gsize \/ size > options.gsize - a

Fill == IF options.memrand > 0 THEN "random" ELSE "zero"

\* Faulty: what is in front of the access stays uninitialised.
InitializeFromAccess(c, a, size) ==
  LET top == Min({a + Max({LazyBytes, size}), options.gsize}) IN
  [x \in DOMAIN c \cup (0 .. top - 1) |-> IF x \in DOMAIN c /\ x < a THEN c[x] ELSE Fill]

\* check_initialize_content: the memory is initialised up to behind the access.
Initialize(c, a, size) ==
  LET top == Min({a + Max({LazyBytes, size}), options.gsize}) IN
  [x \in DOMAIN c \cup (0 .. top - 1) |-> IF x \in DOMAIN c THEN c[x] ELSE Fill]

Bytes(a, size) == a .. a + size - 1

Write(c, a, size, value) ==
  [x \in DOMAIN Initialize(c, a, size) |->
     IF x \in Bytes(a, size) THEN value ELSE Initialize(c, a, size)[x]]

Mark(m, a, size) == IF options.chkreads = "MCK_NONE" THEN m ELSE m \cup Bytes(a, size)

Abort(code) ==
  /\ phase' = "exit" /\ exit' = code
  /\ UNCHANGED <<run, options, system, programVars, printed>>

-----------------------------------------------------------------------------
(* main.                                                                   *)

ReadOptions ==
  /\ phase = "options" /\ run.file.format # "none" /\ ~ Refused(run.given)
  /\ options' = Configured(run.given)
  /\ phase' = "create"
  /\ UNCHANGED <<run, system, programVars, printed, exit>>

\* The usage is printed.
RefuseOptions ==
  /\ phase = "options" /\ (run.file.format = "none" \/ Refused(run.given))
  /\ Abort(1)

Create ==
  /\ phase = "create" /\ ~ CannotBuild(options)
  /\ system' = System(options)
  /\ phase' = "symbols"
  /\ UNCHANGED <<run, options, programVars, printed, exit>>

\* abort, or an assertion; the code stands for the signal.
CreateFails ==
  /\ phase = "create" /\ CannotBuild(options)
  /\ Abort(134)

\* The file of the program cannot be opened.
OpenFails ==
  /\ phase = "symbols" /\ run.file.format = "missing"
  /\ Abort(-1)

\* A file that does not begin like an ELF file is one segment from address 0.
Segments(file) ==
  IF file.format = "elf" THEN file.segments
  ELSE <<[load |-> TRUE, at |-> 0, filesz |-> file.size, memsz |-> file.size,
          bytes |-> "code"]>>

\* Without an ELF file there are no symbols.
LoadSymbols ==
  /\ phase = "symbols" /\ run.file.format \in {"elf", "bin"}
  /\ symbols' \in Sortings(run.file.symbols)
  /\ todo' = Segments(run.file)
  /\ phase' = "load"
  /\ UNCHANGED <<run, options, system, content, marked, flushAt, checked, stored, printed, exit>>

\* An ELF file for another machine.
LoadFails ==
  /\ phase = "symbols" /\ run.file.format = "foreign"
  /\ Abort(1)

\* Faulty: the segment is filled up to the size of the file only.
ZeroesNone(s) == <<>>

\* The addresses behind the bytes of the file, each written by itself.
Zeroes(s) == [i \in 1 .. s.memsz - s.filesz |-> s.at + s.filesz + i - 1]

LoadSegment ==
  LET s == Head(todo)
      zeroed == Zeroes(s)
      filled == Write(content, s.at, s.filesz, s.bytes)
      cleared == FoldLeft(LAMBDA c, x : Write(c, x, 1, "zero"), filled, zeroed)
  IN
  /\ phase = "load" /\ todo # <<>>
  /\ s.load => ~ Exceeds(s.at, s.filesz) /\ \A x \in ToSet(zeroed) : ~ Exceeds(x, 1)
  /\ todo' = Tail(todo)
  /\ IF s.load
     THEN /\ content' = cleared
          /\ marked' = Mark(Mark(marked, s.at, s.filesz), s.at + s.filesz, Len(zeroed))
          /\ stored' = [x \in s.at .. s.at + s.memsz - 1 |->
                          IF x < s.at + s.filesz THEN s.bytes ELSE "zero"] @@ stored
     ELSE UNCHANGED <<content, marked, stored>>
  /\ UNCHANGED <<run, phase, options, system, symbols, flushAt, checked, printed, exit>>

\* The exception of a segment outside the memory ends the run.
LoadUnmapped ==
  LET s == Head(todo) IN
  /\ phase = "load" /\ todo # <<>> /\ s.load
  /\ Exceeds(s.at, s.filesz) \/ \E x \in ToSet(Zeroes(s)) : Exceeds(x, 1)
  /\ Abort(-1)

\* address_t::parse: a value of 0 counts as none.
Resolve(a) == IF a.value # 0 THEN a.value ELSE FindName(symbols, a.symbol)

Start ==
  /\ phase = "load" /\ todo = <<>>
  /\ flushAt' = IF "flushcaches" \in DOMAIN run.given THEN Resolve(options.flushcaches)
                ELSE NotSet
  /\ phase' = "run"
  /\ UNCHANGED <<run, options, system, symbols, todo, content, marked, checked, stored,
                 printed, exit>>

-----------------------------------------------------------------------------
(* The program.                                                            *)

Running == phase = "run" /\ run.file.accesses

StoreTo(a, size) ==
  /\ Running /\ ~ Exceeds(a, size)
  /\ content' = Write(content, a, size, "stored")
  /\ marked' = Mark(marked, a, size)
  /\ stored' = [x \in Bytes(a, size) |-> "stored"] @@ stored
  /\ UNCHANGED <<run, phase, options, system, symbols, todo, flushAt, checked, printed, exit>>

\* How many bytes of an access make it a mistake: any, or all of them.
Complains(a, size) ==
  LET unmarked == Bytes(a, size) \ marked IN
  CASE options.chkreads = "MCK_NONE" -> FALSE
    [] options.chkreads \in {"MCK_WARN", "MCK_ERROR"} -> unmarked # {}
    [] OTHER -> unmarked = Bytes(a, size)

LoadFrom(a, size) ==
  /\ Running /\ ~ Exceeds(a, size)
  /\ content' = Initialize(content, a, size)
  /\ LET outcome == CASE ~ Complains(a, size) -> "quiet"
                      [] Complains(a, size) /\ options.chkreads \in {"MCK_WARN", "MCK_WARN_ADDR"}
                           -> "warned"
                      [] OTHER -> "stopped"
     IN
     /\ checked' = [at |-> Bytes(a, size), outcome |-> outcome]
     /\ phase' = IF outcome = "stopped" THEN "exit" ELSE "run"
     /\ exit' = IF outcome = "stopped" THEN -1 ELSE exit
  /\ UNCHANGED <<run, options, system, symbols, todo, marked, flushAt, stored, printed>>

Unmapped(a, size) ==
  /\ Running /\ Exceeds(a, size)
  /\ Abort(-1)

\* The program halts with its exit code, or the cycles given are over; with --verbose
\* the options are printed.
Stop ==
  /\ phase = "run"
  /\ exit' \in {0, -1}
  /\ printed' = Printed(options)
  /\ phase' = "exit"
  /\ UNCHANGED <<run, options, system, programVars>>

Init ==
  /\ run \in Runs
  /\ phase = "options"
  /\ options = NotSet /\ system = NotSet /\ symbols = <<>> /\ todo = <<>>
  /\ content = <<>> /\ marked = {} /\ flushAt = NotSet
  /\ checked = NotSet /\ stored = <<>>
  /\ printed = NotSet /\ exit = -1

Next ==
  \/ ReadOptions \/ RefuseOptions \/ Create \/ CreateFails
  \/ OpenFails \/ LoadSymbols \/ LoadFails \/ LoadSegment \/ LoadUnmapped \/ Start
  \/ \E a \in Addresses, size \in {1, 2} : StoreTo(a, size) \/ LoadFrom(a, size) \/ Unmapped(a, size)
  \/ Stop

Spec == Init /\ [][Next]_vars
-----------------------------------------------------------------------------
(* Properties.                                                             *)

\* Do n blocks of so many bytes hold size bytes, where 0 stands for all that an address
\* of 32 bits reaches?  That is counted in pages of 64 KB.
LOCAL Holds(n, bytes, size) ==
  IF size # 0 THEN n * bytes >= size
  ELSE (n \div 2^16) * bytes + ((n % 2^16) * bytes) \div 2^16 >= 2^16

\* A cache has the blocks for its size, and no block more; its sets divide them.  A
\* size of 0 asks for the whole address space.
HoldsSize(cache, size) ==
  LET exactly(n) == Holds(n, cache.bytes, size) /\ ~ Holds(n - 1, cache.bytes, size) IN
  /\ "blocks" \in DOMAIN cache => exactly(cache.blocks)
  /\ "ways" \in DOMAIN cache => exactly(cache.ways * cache.sets)

BuiltToSize ==
  system # NotSet =>
    /\ HoldsSize(system.data, options.dcsize)
    /\ HoldsSize(system.instr.cache, options.mcsize)
    /\ HoldsSize(system.stack, options.scsize)

\* The options that are not printed.
Unprinted == {"ispmsize", "memrand", "chkreads", "gkind", "debugfmt", "debugcache"}

\* A run with the options printed, and those that are not, builds the same system,
\* and flushes the caches at the same address, unless it is 0.
PrintedAgain ==
  printed # NotSet =>
    LET again == printed @@ [k \in DOMAIN run.given \cap Unprinted |-> run.given[k]]
        o == Configured(again)
    IN
    /\ ~ Refused(again)
    /\ System(o) = system
    /\ flushAt \notin {NotSet, 0} => Resolve(o.flushcaches) = flushAt

\* Sizes are written so that they can be read, but for whole gigabytes.
SizesReadBack ==
  options # NotSet =>
    \A k \in {"gsize", "psize", "dcsize", "scsize", "mcsize", "mbsize"} :
      options[k] % 2^30 # 0 => ReadSize(WriteSize(options[k])) = {options[k]}

\* What is built is what was asked for, and the options a run ends with say so
\* (create_data_cache, create_method_cache, the output of "Pasim options").
BuiltAsAsked == BuiltToSize /\ PrintedAgain /\ SizesReadBack

\* Memory holds what the segments of the program and its stores put there, in their
\* order, although it is only initialised when it is accessed, and nothing is stored
\* where it is not initialised.
HoldsStored ==
  options # NotSet =>
    /\ DOMAIN stored \subseteq DOMAIN content
    /\ \A a \in DOMAIN content :
         content[a] = IF a \in DOMAIN stored THEN stored[a] ELSE Fill

\* With the checks of reads, a load is complained about exactly if a byte of it, or all
\* of them, were never stored; bytes that the loader cleared were.
ComplainsRightly ==
  LET never == checked'.at \ DOMAIN stored
      wrong == CASE options.chkreads = "MCK_NONE" -> FALSE
                 [] options.chkreads \in {"MCK_WARN", "MCK_ERROR"} -> never # {}
                 [] OTHER -> never = checked'.at
  IN  checked' # checked => (checked'.outcome # "quiet" <=> wrong)

\* The symbols are printed as the declaration of symbol_map_t::print says.
FunctionsNamedFirst ==
  phase = "run" => \A a \in Addresses : NamesFunctionFirst(symbols, a)

\* The program that runs is the one that was linked: its memory, and its symbols
\* (load_to_memory, check_initialize_content, symbol_map_t).
LoadedAsLinked ==
  /\ [](/\ HoldsStored
        /\ phase = "run" =>
             \A a \in Addresses \ {0} :
               /\ DescribesAddress(symbols, a) /\ DescribesFunction(symbols, a)
               /\ CoversItsBytes(symbols, a))
  /\ [][ComplainsRightly]_vars
=============================================================================
