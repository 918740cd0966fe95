------------------------------ MODULE MCReload ------------------------------
(***************************************************************************)
(* A small instance of Reload for TLC: one Source instance.                *)
(***************************************************************************)
EXTENDS Reload, RunsFlight, TLC

CONSTANT a

NoCalls == [k \in Key |-> {}]
=============================================================================
