---------------------------- MODULE MCStackBlock -----------------------------
(***************************************************************************)
(* The block cache and the lazy cache in one run: Kind is block, and the     *)
(* variable chosen says which one pasim was started with.  Here the lazy     *)
(* cache runs programs without sspill, on a larger stack than in             *)
(* MCStackKinds.                                                           *)
(***************************************************************************)
EXTENDS StackCache

\* The instructions a program is made of.
AllOps == StackControl \cup {"load", "store", "nop"}
OpsWithoutSpill == AllOps \ {"spill"}

VARIABLE chosen

Lazy == INSTANCE StackCache WITH
  Kind <- "lblock", Ops <- OpsWithoutSpill, Adjacent <- FALSE, MaxFetch <- 0

AnyInit ==
  \/ chosen = "block" /\ Init
  \/ chosen = "lazy" /\ Lazy!Init

AnyNext ==
  /\ chosen' = chosen
  /\ \/ chosen = "block" /\ Next
     \/ chosen = "lazy" /\ Lazy!Next

AnySpec == AnyInit /\ [][AnyNext]_<<vars, chosen>>
=============================================================================
