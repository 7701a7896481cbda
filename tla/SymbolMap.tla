------------------------------ MODULE SymbolMap -------------------------------
(***************************************************************************)
(* The symbols of a program (symbol.cc): a list, sorted by address and size, *)
(* that is searched by name and by address.  A symbol without a size is the  *)
(* label of a basic block.                                                 *)
(***************************************************************************)
EXTENDS Integers, SequencesExt, FiniteSetsExt

CONSTANT NoSymbol     \* a null pointer

\* What find returns for an unknown name: all ones.
NotFound == -1

\* operator<
Before(s, t) == s.address < t.address \/ (s.address = t.address /\ s.size < t.size)

\* sort: symbols that are neither before the other come in any order.
Sortings(S) ==
  {order \in [1 .. Cardinality(S) -> S] :
     /\ IsInjective(order)
     /\ \A i \in 1 .. Cardinality(S) - 1 : ~ Before(order[i + 1], order[i])}

\* find by name: the first of that name.
FindName(table, name) ==
  LET named == {i \in DOMAIN table : table[i].name = name}
  IN  IF named = {} THEN NotFound ELSE table[Min(named)].address

\* Faulty: only the first symbol at that address is looked at.
CoversFirst(table, symbol, a) ==
  LET at == {i \in DOMAIN table : table[i].address = symbol}
  IN  at # {} /\ a \in symbol .. symbol + table[Min(at)].size - 1

\* covers: lower_bound, then all symbols at that address.
Covers(table, symbol, a) ==
  \E i \in DOMAIN table :
    /\ \A j \in 1 .. i - 1 : table[j].address <= symbol
    /\ table[i].address = symbol
    /\ a \in symbol .. symbol + table[i].size - 1

-----------------------------------------------------------------------------
(* print: one pass over the list.                                          *)

Inside(s, a) == s.size # 0 /\ a \in s.address .. s.address + s.size - 1

\* Faulty: a label in front of the function counts as one of its blocks.
NameBlockFirst(d, s, a, funcOnly) ==
  IF Inside(s, a)
  THEN IF funcOnly /\ ~ s.func THEN d
       ELSE [d EXCEPT !.names = Append(@, s.name), !.enclosing = s]
  ELSE IF s.address <= a /\ s.size = 0 /\ ~ funcOnly
       THEN [d EXCEPT !.names = IF d.bb # NoSymbol /\ d.bb.address = a
                                THEN Append(@, d.bb.name) ELSE @,
                      !.bb = s]
       ELSE d

\* One symbol: those that enclose the address are named at once, a label when the
\* next one or the end is reached.
NameSymbol(d, s, a, funcOnly) ==
  LET named == [d EXCEPT !.names = Append(@, s.name), !.enclosing = s]
      wanted == ~ funcOnly \/ s.func
  IN
  CASE Inside(s, a) -> IF wanted THEN named ELSE d
    [] s.size = 0 /\ s.address <= a /\ d.enclosing # NoSymbol ->
         IF funcOnly THEN d
         ELSE [d EXCEPT !.names = IF d.bb # NoSymbol /\ d.bb.address = a
                                  THEN Append(@, d.bb.name) ELSE @,
                        !.bb = s]
    [] s.size = 0 /\ s.address = a /\ d.enclosing = NoSymbol ->
         IF wanted THEN named ELSE d
    [] OTHER -> d

\* The loop ends with the first symbol behind the address, here a filter: the list
\* is sorted.  Nothing is printed for address 0.
Described(table, a, funcOnly) ==
  LET start == [names |-> <<>>, enclosing |-> NoSymbol, bb |-> NoSymbol]
      d == IF a = 0 THEN start
           ELSE FoldLeft(LAMBDA e, s : NameSymbol(e, s, a, funcOnly), start,
                         SelectSeq(table, LAMBDA s : s.address <= a))
  IN
  CASE d.bb # NoSymbol -> [names |-> Append(d.names, d.bb.name), offset |-> a - d.bb.address]
    [] d.bb = NoSymbol /\ d.enclosing # NoSymbol ->
         [names |-> d.names, offset |-> IF funcOnly THEN 0 ELSE a - d.enclosing.address]
    [] OTHER -> [names |-> <<>>, offset |-> 0]

-----------------------------------------------------------------------------
(* What a trace or a profile relies on.  Names are distinct.                *)

Named(table, name) == table[CHOOSE i \in DOMAIN table : table[i].name = name]

\* Every symbol that covers the address is named, in the order of the table, by address
\* and then by ascending size, and then the last label that follows; the last name with
\* the offset gives the address back.  Nothing else is named but the labels right there.
DescribesAddress(table, a) ==
  LET d == Described(table, a, FALSE)
      covering == SelectSeq(table, LAMBDA s : Inside(s, a))
      labels == {i \in DOMAIN table : table[i].size = 0 /\ table[i].address <= a}
      inside == {i \in labels : \E j \in 1 .. i - 1 : Inside(table[j], a)}
      here == {table[i].name : i \in {j \in labels : table[j].address = a}}
      names == [i \in DOMAIN covering |-> covering[i].name]
  IN
  /\ IsInjective(d.names)
  /\ SelectSeq(d.names, LAMBDA n : n \in ToSet(names)) = names
  /\ d.names # <<>> => Named(table, Last(d.names)).address + d.offset = a
  /\ d.names = <<>> <=> covering = <<>> /\ here = {}
  /\ ToSet(d.names) \ (ToSet(names) \cup here) =
       IF inside \ {i \in labels : table[i].address = a} # {} /\ here = {}
       THEN {table[Max(inside)].name} ELSE {}

\* "For basic block 'bar' in function 'foo' 'foo:bar' is returned" (symbol.h:173): a
\* function is named before what lies inside it.
NamesFunctionFirst(table, a) ==
  LET names == Described(table, a, FALSE).names IN
  \A i, j \in DOMAIN names :
    LET f == Named(table, names[i])  b == Named(table, names[j]) IN
    f.func /\ ~ b.func /\ Inside(f, b.address)
      /\ b.address + b.size <= f.address + f.size => i < j

\* With functions only, these are named and nothing else.
DescribesFunction(table, a) ==
  LET covering == SelectSeq(table, LAMBDA s : s.func /\ Inside(s, a)) IN
  covering # <<>> =>
    SelectSeq(Described(table, a, TRUE).names,
              LAMBDA n : Named(table, n).size # 0)
      = [i \in DOMAIN covering |-> covering[i].name]

\* A symbol with a size covers its bytes and no others, also beside others there.
CoversItsBytes(table, a) ==
  \A s \in ToSet(table) :
    Covers(table, s.address, a) <=>
      \E t \in ToSet(table) : t.address = s.address /\ Inside(t, a)
=============================================================================
