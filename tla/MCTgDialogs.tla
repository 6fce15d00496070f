---------------------------- MODULE MCTgDialogs ----------------------------
(* TgDialogs for two dialogs, one pinned, one with or without an apostrophe. *)
EXTENDS TgDialogs
CONSTANTS a, b
=============================================================================
