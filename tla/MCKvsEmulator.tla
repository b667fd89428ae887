--------------------------- MODULE MCKvsEmulator ---------------------------
(***************************************************************************)
(* KvsEmulator with two values, one that fills the smaller buffer and one  *)
(* that does not fit it.                                                   *)
(***************************************************************************)
EXTENDS KvsEmulator

CONSTANTS small, large

MCValues == {small, large}
MCSize == [v \in MCValues |-> IF v = small THEN 1 ELSE 2]
=============================================================================
