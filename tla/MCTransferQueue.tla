--------------------------- MODULE MCTransferQueue ---------------------------
(***************************************************************************)
(* Small instances of the transfer queue for TLC.                          *)
(***************************************************************************)
EXTENDS TransferQueue

(* Wall-clock readings: two suffice for earlier, later and a tie, and the  *)
(* model lets the clock step back.                                         *)
OneTime  == {0}
TwoTimes == {0, 1}
=============================================================================
