-------------------------- MODULE MCFounderChannel --------------------------
(* A small instance of FounderChannel for TLC.                             *)
EXTENDS FounderChannel, TLC
=============================================================================
