----------------------------- MODULE MCDatapath -----------------------------
(***************************************************************************)
(* Kinds of programs for the data path, over two registers, one predicate    *)
(* and one word of memory; words have two bits.  Each kind is about one of   *)
(* by-passes, predicates, loads and stores, special registers, and bundles   *)
(* of two accesses or multiplications.                                     *)
(***************************************************************************)
EXTENDS Datapath

LOCAL Alone(i) == <<i, Nop>>
LOCAL P == Pred(1)
LOCAL N == NotPred(1)

LOCAL Inc == Instr("aluil", "add", 1, 1, 0, 1)
LOCAL Sum == Instr("alur", "add", 2, 1, 2, 0)
LOCAL Shl == Instr("alur", "shadd", 1, 2, 1, 0)
LOCAL Clear == Instr("alur", "sub", 0, 1, 2, 0)
LOCAL Less == Instr("aluc", "cmplt", 1, 1, 2, 0)
LOCAL Flip == [Instr("alup", "pxor", 1, 0, 0, 0) EXCEPT !.q1 = P]
LOCAL Copy == [Instr("alub", "bcopy", 2, 1, 0, 0) EXCEPT !.q1 = N]
LOCAL Mul == Instr("alum", "mul", 0, 1, 2, 0)
LOCAL ToS(s) == Instr("spct", s, 0, 1, 0, 0)
LOCAL FromS(s) == Instr("spcf", s, 2, 0, 0, 0)
LOCAL Load(d) == Instr("ldt", "lwc", d, 1, 0, 0)
LOCAL Store == Instr("stt", "swc", 0, 1, 2, 0)

MCPrograms ==
  {{Alone(Nop), Alone(Inc), <<Sum, Shl>>, <<Clear, Sum>>, <<Sum, Sum>>},
   {Alone(Nop), <<Inc, Less>>, Alone(Flip), <<If(N, Shl), If(P, Copy)>>,
    <<If(P, Inc), Shl>>},
   {Alone(Nop), <<Inc, Flip>>, <<If(N, Load(2)), Clear>>, <<Store, Sum>>},
   {Alone(Nop), <<Mul, Inc>>, Alone(ToS("sl")), Alone(FromS("sl"))},
   {Alone(Nop), Alone(Inc), <<FromS("s0"), ToS("s0")>>, <<If(P, Inc), FromS("s0")>>},
   {Alone(Nop), <<Inc, Flip>>, <<If(P, Load(2)), If(N, Store)>>,
    <<If(P, Mul), If(N, Mul)>>, <<Store, If(P, Load(1))>>}}

\* Loads next to comparisons, which the load check misjudges.
MisjudgedPrograms ==
  {{Alone(Nop), Alone(Inc), <<Sum, Less>>, <<If(P, Load(2)), Nop>>}}

MCBundles == UNION MCPrograms
MisjudgedBundles == UNION MisjudgedPrograms
=============================================================================
