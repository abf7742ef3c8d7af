------------------------------- MODULE MCMidterm -------------------------------
(***************************************************************************)
(* A small instance of MidtermSync for TLC: dead reckoning with one launch *)
(* of each program; restarts of both, or more moves.                        *)
(***************************************************************************)
EXTENDS MidtermSync

Each(s, c) == [p \in Peers |-> IF p = Server THEN s ELSE c]

SmallBudgets ==
  { [moves |-> Each(1, 1), launches |-> Each(1, 1), reckoning |-> TRUE],
    [moves |-> Each(1, 1), launches |-> Each(2, 2), reckoning |-> FALSE],
    [moves |-> Each(2, 2), launches |-> Each(1, 1), reckoning |-> FALSE] }
===============================================================================
