-------------------------- MODULE MCTokenStoreRestart --------------------------
(* TokenStoreRestart for TLC: finite supplies of ids. *)
EXTENDS TokenStoreRestart
=============================================================================
