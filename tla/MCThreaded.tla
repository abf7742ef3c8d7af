------------------------------ MODULE MCThreaded ------------------------------
(***************************************************************************)
(* Small instances of ThreadedSystem for TLC.                              *)
(***************************************************************************)
EXTENDS ThreadedSystem

CONSTANTS Talker, TalkerMessages, OtherMessages

Messages == [c \in Clients |-> IF c = Talker THEN TalkerMessages ELSE OtherMessages]

(* Socket values are interchangeable.                                      *)
Symmetry == Permutations(Handles)
===============================================================================
