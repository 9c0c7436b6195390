---------------------------- MODULE MCRpcClient ----------------------------
(***************************************************************************)
(* Values of the constants of RpcClient for TLC.                           *)
(***************************************************************************)
EXTENDS RpcClient, TLC

CONSTANTS c1, c2, c3, c4

\* The calls that do the same may be exchanged.
CallSymmetry == Permutations(Calls \ SignatureCalls)
=============================================================================
