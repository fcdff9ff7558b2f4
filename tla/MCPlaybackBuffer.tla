-------------------------- MODULE MCPlaybackBuffer --------------------------
(***************************************************************************)
(* A small instance of PlaybackBuffer for TLC.                             *)
(***************************************************************************)
EXTENDS PlaybackBuffer

Sizes == {1, 2, 3}
=============================================================================
