---------------------------- MODULE MCChainClient ----------------------------
(* Small instances of ChainClient for TLC. *)
EXTENDS ChainClient

CONSTANTS owner, org, x1
=============================================================================
