------------------------------ MODULE MCTgChat ------------------------------
(* TgChat with one document.                                               *)
EXTENDS TgChat
CONSTANTS d1
=============================================================================
