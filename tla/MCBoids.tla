------------------------------- MODULE MCBoids -------------------------------
(***************************************************************************)
(* Small instances of BoidsSession for TLC.                                *)
(***************************************************************************)
EXTENDS BoidsSession

CONSTANTS ServerLaunches, ClientLaunches

Launches == [p \in Peers |-> IF p = Server THEN ServerLaunches ELSE ClientLaunches]
===============================================================================
