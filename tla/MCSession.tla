----------------------------- MODULE MCSession -----------------------------
(***************************************************************************)
(* Instances of Session for TLC.                                           *)
(***************************************************************************)
EXTENDS Session, TLC

CONSTANTS o1, o2, home, game, away, player, mask

\* The other clients are interchangeable.
OtherSymmetry == Permutations(Others)
=============================================================================
