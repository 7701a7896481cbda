----------------------------- MODULE Arithmetic -----------------------------
(***************************************************************************)
(* What the instructions compute (instructions.h), over words of Width bits, *)
(* 32 in the simulator, held as naturals.  A shift count is masked by the    *)
(* width less one, 0x1F in the source.                                     *)
(***************************************************************************)
EXTENDS Integers, Sequences, FiniteSetsExt

CONSTANT Width   \* bits of a word: a power of two

ASSUME WidthAssumption == Width \in Nat \ {0}

LOCAL Modulus == 2 ^ Width
Word == 0 .. Modulus - 1

\* The word as word_t has it, and the word of a number.
Signed(a) == IF a < 2 ^ (Width - 1) THEN a ELSE a - Modulus
Wrap(n) == n % Modulus

Bits(a) == {i \in 0 .. Width - 1 : (a \div 2 ^ i) % 2 = 1}
WordOf(bits) == MapThenSumSet(LAMBDA i : 2 ^ i, bits)

LOCAL Not(a) == Modulus - 1 - a
LOCAL Shift(b) == 2 ^ (b % Width)

AluOps == {"add", "sub", "xor", "sl", "sr", "sra", "or", "and", "nor",
           "shadd", "shadd2"}

\* Faulty: the shift keeps no sign.
AluLogicalShift(op, a, b) ==
  CASE op = "add" -> Wrap(a + b)
    [] op = "sub" -> Wrap(a - b)
    [] op = "xor" -> WordOf((Bits(a) \cup Bits(b)) \ (Bits(a) \cap Bits(b)))
    [] op = "sl" -> Wrap(a * Shift(b))
    [] op \in {"sr", "sra"} -> a \div Shift(b)
    [] op = "or" -> WordOf(Bits(a) \cup Bits(b))
    [] op = "and" -> WordOf(Bits(a) \cap Bits(b))
    [] op = "nor" -> Not(WordOf(Bits(a) \cup Bits(b)))
    [] op = "shadd" -> Wrap(2 * a + b)
    [] op = "shadd2" -> Wrap(4 * a + b)

\* compute of i_aluil_t and i_alur_t.
Alu(op, a, b) ==
  CASE op = "add" -> Wrap(a + b)
    [] op = "sub" -> Wrap(a - b)
    [] op = "xor" -> WordOf((Bits(a) \cup Bits(b)) \ (Bits(a) \cap Bits(b)))
    [] op = "sl" -> Wrap(a * Shift(b))
    [] op = "sr" -> a \div Shift(b)
    [] op = "sra" -> Wrap(Signed(a) \div Shift(b))
    [] op = "or" -> WordOf(Bits(a) \cup Bits(b))
    [] op = "and" -> WordOf(Bits(a) \cap Bits(b))
    [] op = "nor" -> Not(WordOf(Bits(a) \cup Bits(b)))
    [] op = "shadd" -> Wrap(2 * a + b)
    [] op = "shadd2" -> Wrap(4 * a + b)

Comparisons == {"cmpeq", "cmpneq", "cmplt", "cmple", "cmpult", "cmpule", "btest"}
Connectives == {"por", "pand", "pxor"}

\* compute of i_aluc_t and i_aluci_t.  btest shifts 1 by the whole operand, which
\* C++ defines for counts below the width; the processor masks others.
Compare(op, a, b) ==
  CASE op = "cmpeq" -> a = b
    [] op = "cmpneq" -> a # b
    [] op = "cmplt" -> Signed(a) < Signed(b)
    [] op = "cmple" -> Signed(a) <= Signed(b)
    [] op = "cmpult" -> a < b
    [] op = "cmpule" -> a <= b
    [] op = "btest" -> b % Width \in Bits(a)

\* compute of i_alup_t.
Logic(op, p, q) ==
  CASE op = "por" -> p \/ q
    [] op = "pand" -> p /\ q
    [] op = "pxor" -> p # q

\* compute of i_bcopy_t: the bit is replaced.
Bcopy(a, i, p) == WordOf((Bits(a) \ {i}) \cup (IF p THEN {i} ELSE {}))

\* compute of i_alum_t, and the halves it leaves in sl and sh.
LOCAL Product(op, a, b) == IF op = "mul" THEN Signed(a) * Signed(b) ELSE a * b
Low(op, a, b) == Wrap(Product(op, a, b))
High(op, a, b) == Wrap(Product(op, a, b) \div Modulus)

-----------------------------------------------------------------------------
(* Loads and stores of n of the four bytes of a word.                      *)

LOCAL Byte == 2 ^ (Width \div 4)

\* to_big_endian: the low bytes of the value, the highest first.
StoredBytes(v, n) == [k \in 1 .. n |-> (v \div Byte ^ (n - k)) % Byte]

\* from_big_endian, extended with zeros for the unsigned types.
Loaded(bytes, n, signed) ==
  LET v == MapThenSumSet(LAMBDA k : bytes[k] * Byte ^ (n - k), 1 .. n)
  IN  IF signed /\ v >= Byte ^ n \div 2 THEN Wrap(v - Byte ^ n) ELSE v

-----------------------------------------------------------------------------
(* What a compiler relies on, for operands a and b.                        *)

LogicLaws(a, b) ==
  /\ Alu("add", a, b) = Wrap(Alu("xor", a, b) + 2 * Alu("and", a, b))
  /\ Alu("sub", a, b) = Wrap(a + Alu("nor", b, b) + 1)
  /\ Alu("or", a, b) = Alu("add", Alu("xor", a, b), Alu("and", a, b))
  /\ Alu("nor", a, b) = Alu("xor", Alu("or", a, b), Not(0))
  /\ Alu("and", a, b) = Alu("nor", Alu("nor", a, a), Alu("nor", b, b))

\* sra rounds towards minus infinity, as the complement of a shifted complement.
ShiftLaws(a, b) ==
  /\ Alu("sra", a, b) =
       IF Signed(a) < 0 THEN Not(Alu("sr", Not(a), b)) ELSE Alu("sr", a, b)
  /\ Alu("add", Alu("sl", Alu("sr", a, b), b), Alu("and", a, Shift(b) - 1)) = a
  /\ Alu("shadd", a, b) = Alu("add", Alu("sl", a, 1), b)
  /\ Alu("shadd2", a, b) = Alu("shadd", Alu("shadd", a, 0), b)

\* The signed comparisons from the difference, the unsigned ones with other signs.
CompareLaws(a, b) ==
  LET flip(x) == Alu("xor", x, 2 ^ (Width - 1))
      overflow == Alu("and", Alu("xor", a, b), Alu("xor", a, Alu("sub", a, b)))
  IN
  /\ Compare("cmplt", a, b) <=> Signed(Alu("xor", Alu("sub", a, b), overflow)) < 0
  /\ Compare("cmpult", a, b) <=> Compare("cmplt", flip(a), flip(b))
  /\ Compare("cmple", a, b) <=> ~ Compare("cmplt", b, a)
  /\ Compare("cmpule", a, b) <=> ~ Compare("cmpult", b, a)
  /\ Compare("cmpneq", a, b) <=> Alu("xor", a, b) # 0

\* The bits a test sees are the ones a copy has put there, and the others stay.
BitLaws(a, b) ==
  \A p \in BOOLEAN, j \in 0 .. Width - 1 :
    Compare("btest", Bcopy(a, b % Width, p), j) <=>
      IF j = b % Width THEN p ELSE Compare("btest", a, j)

\* The low halves agree; the high ones differ by what the signs count.
ProductLaws(a, b) ==
  /\ Low("mul", a, b) = Low("mulu", a, b)
  /\ High("mulu", a, b) * Modulus + Low("mulu", a, b) = a * b
  /\ High("mul", a, b) = Wrap(High("mulu", a, b)
                              - (IF Signed(a) < 0 THEN b ELSE 0)
                              - (IF Signed(b) < 0 THEN a ELSE 0))

\* A load gets back the low bytes of what a store of this type has stored, and a
\* byte or half word of a stored word is the one at its place.
BytesLaws(a) ==
  \A n \in {1, 2, 4}, signed \in BOOLEAN :
    /\ LET v == Loaded(StoredBytes(a, n), n, signed) IN
         /\ v % Byte ^ n = a % Byte ^ n
         /\ signed => v = Alu("sra", Alu("sl", a, Width - n * (Width \div 4)),
                              Width - n * (Width \div 4))
         /\ ~ signed => v < Byte ^ n
    /\ \A k \in 0 .. 4 - n :
         Loaded(SubSeq(StoredBytes(a, 4), k + 1, k + n), n, FALSE)
           = (a \div Byte ^ (4 - n - k)) % Byte ^ n
=============================================================================
