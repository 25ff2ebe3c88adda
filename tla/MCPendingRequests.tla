-------------------------- MODULE MCPendingRequests -------------------------
(* Small instances of PendingRequests for TLC. *)
EXTENDS PendingRequests

CONSTANTS s1, u1, u2, p1, p2, p3, t1, t2
=============================================================================
