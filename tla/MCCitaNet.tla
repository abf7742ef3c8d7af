------------------------------ MODULE MCCitaNet ------------------------------
(***************************************************************************)
(* A small instance of CitaNetServer for TLC: three addresses, one of which*)
(* has two ports.                                                          *)
(***************************************************************************)
EXTENDS CitaNetServer, TLC

CONSTANTS Traveller, Others

MCEndpoints ==
  [address : {Traveller}, port : {1, 2}] \cup [address : Others, port : {1}]

Symmetry == Permutations(Others) \cup Permutations(RequestIDs)
===============================================================================
