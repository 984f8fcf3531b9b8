---------------------------- MODULE MCHashPicker ----------------------------
(* Two users whose hashes differ modulo 2 for two connections, and one for *)
(* three.                                                                  *)
EXTENDS HashPicker, TLC

CONSTANTS usrA, usrB

MCUser == {usrA, usrB}
MCOneUser == {usrA}
MCOneHash == usrA :> 5

MCHash == usrA :> 3 @@ usrB :> 4
=============================================================================
