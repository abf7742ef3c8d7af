------------------------------ MODULE MCUDPChat ------------------------------
(***************************************************************************)
(* Small instances of UDPChat for TLC.                                     *)
(***************************************************************************)
EXTENDS UDPChat

CONSTANTS Talker, TalkerDatagrams, OtherDatagrams

Datagrams == [p \in Ports |-> IF p = Talker THEN TalkerDatagrams ELSE OtherDatagrams]
===============================================================================
