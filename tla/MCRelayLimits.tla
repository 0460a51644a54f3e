---------------------------- MODULE MCRelayLimits ----------------------------
(***************************************************************************)
(* RelayLimits for TLC, with connections, addresses and accounts it never  *)
(* tells apart.                                                            *)
(***************************************************************************)
EXTENDS RelayLimits, TLC

Symmetric == Permutations(Conns) \cup Permutations(Ips) \cup Permutations(Subs)
=============================================================================
