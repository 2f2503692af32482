----------------------------- MODULE MCSurfaces ------------------------------
(***************************************************************************)
(* A small instance of the shared surfaces for TLC.                        *)
(***************************************************************************)
EXTENDS Surfaces, TLC

CONSTANTS s1, s2

MCSongs == {s1, s2}

(* Two windows of one pattern, and one of another. *)
MCWindows == {[pattern |-> "p", lo |-> 0, hi |-> 2], [pattern |-> "p", lo |-> 1, hi |-> 4],
              [pattern |-> "q", lo |-> 0, hi |-> 2]}

MCCaptures == {<<>>, <<0, -3, 1, 0, 2>>, <<1, 0>>, <<0, 0, 0, 0, 1, 2, 0>>}
=============================================================================
