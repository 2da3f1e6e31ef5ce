------------------------------ MODULE MCIpiPoll ------------------------------
(***************************************************************************)
(* IpiPoll with the two cores of the RZ/G3S mailbox (MBX_CH_NUM = 2).  The *)
(* threads treat both alike, so the safety run takes them as symmetric.    *)
(***************************************************************************)
EXTENDS IpiPoll, TLC

Symmetry == Permutations(Target)
=============================================================================
