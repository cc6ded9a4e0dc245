----------------------------- MODULE MCGlQueue -----------------------------
(***************************************************************************)
(* Small instances of the queued transport for TLC.                        *)
(***************************************************************************)
EXTENDS GlQueue, TLC

CONSTANTS d1, d2, c1, c2

OneStream  == {d1}
TwoStreams == {d1, d2}
OneClient  == {c1}
OneEach   == [d \in {d1} |-> c1]
SameOwner == [d \in {d1, d2} |-> c1]
(* Two streams of one client are alike. *)
Alike == Permutations(TwoStreams)
=============================================================================
