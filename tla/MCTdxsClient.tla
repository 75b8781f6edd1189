---------------------------- MODULE MCTdxsClient ----------------------------
(* TdxsClient on a small instance.                                           *)
EXTENDS TdxsClient

CONSTANTS c1, c2, c3
=============================================================================
