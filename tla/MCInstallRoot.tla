---------------------------- MODULE MCInstallRoot ----------------------------
(***************************************************************************)
(* Small instances of the install root for TLC.                            *)
(***************************************************************************)
EXTENDS InstallRoot, TLC

CONSTANTS a1, a2, g1

TwoAppliers   == {a1, a2}
OneGeneration == {g1}
=============================================================================
