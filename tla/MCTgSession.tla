----------------------------- MODULE MCTgSession -----------------------------
(* TgSession with interchangeable threads.                                 *)
EXTENDS TgSession, TLC
SessionSymmetry == Permutations(Thread)
=============================================================================
