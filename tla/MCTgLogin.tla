----------------------------- MODULE MCTgLogin -----------------------------
(* TgLogin for two data centres.                                           *)
EXTENDS TgLogin, TLC
CONSTANTS dc1, dc2, o1, o2
=============================================================================
