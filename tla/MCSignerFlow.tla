---------------------------- MODULE MCSignerFlow ----------------------------
(***************************************************************************)
(* SignerFlow for TLC.                                                     *)
(***************************************************************************)
EXTENDS SignerFlow

\* While no review is open, nothing reads the last transaction and its flow.
MCView == IF step = 0 THEN << 0, mode, ctx, text >> ELSE vars
=============================================================================
