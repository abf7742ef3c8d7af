--------------------------------- MODULE MCPair ---------------------------------
(***************************************************************************)
(* A small instance of PairSystem for TLC.                                 *)
(***************************************************************************)
EXTENDS PairSystem
===============================================================================
