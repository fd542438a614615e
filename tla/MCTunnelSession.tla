-------------------------- MODULE MCTunnelSession --------------------------
(* TunnelSession on small instances. *)
EXTENDS TunnelSession, TLC

Symmetry == Permutations(Conns)
============================================================================
