--------------------------- MODULE MCDownloadCache ---------------------------
(***************************************************************************)
(* Small instances of the download cache for TLC.                          *)
(***************************************************************************)
EXTENDS DownloadCache

(* Transfers are numbers, so that an unused inode is chosen predictably.   *)
OneTransfer == {1}
=============================================================================
