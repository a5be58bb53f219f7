---------------------------- MODULE MCXMPPClient ----------------------------
(***************************************************************************)
(* Instances of XMPPClient for TLC.                                        *)
(***************************************************************************)
EXTENDS XMPPClient

CONSTANTS r1, r2, m1, m2

MCRoomOf == [m \in Messages |-> IF m = m2 THEN r2 ELSE r1]
=============================================================================
