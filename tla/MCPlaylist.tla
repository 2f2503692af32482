----------------------------- MODULE MCPlaylist ------------------------------
(***************************************************************************)
(* A small instance of the playlist engine for TLC.                        *)
(***************************************************************************)
EXTENDS PlaylistEngine, TLC

MCSongs  == {"good", "bad"}
MCBroken == {"bad"}
MCNames  == {"named"}

(* Of the current version and of another. *)
MCDocuments ==
  {[version |-> 2, name |-> "named", songs |-> <<"bad", "good">>],
   [version |-> 2, name |-> Anonymous, songs |-> <<"bad", "bad", "bad">>],
   [version |-> 1, name |-> "named", songs |-> <<"good">>]}
=============================================================================
