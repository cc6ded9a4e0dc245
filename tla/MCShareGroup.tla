---------------------------- MODULE MCShareGroup ----------------------------
(***************************************************************************)
(* Two contexts of a share group for TLC.                                  *)
(***************************************************************************)
EXTENDS ShareGroup

CONSTANTS c1, c2

(* Contexts of a share group are alike.                                      *)
Alike == Permutations({c1, c2})
=============================================================================
