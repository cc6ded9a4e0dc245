------------------------------ MODULE MCEngine ------------------------------
(***************************************************************************)
(* Small instances of the engine's batch queue for TLC.                    *)
(***************************************************************************)
EXTENDS Engine

CONSTANTS d1, d2

OneStream  == {d1}
TwoStreams == {d1, d2}
=============================================================================
