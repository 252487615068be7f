-------------------------- MODULE MCTunnelProvider --------------------------
(* TunnelProvider with a bounded number of stop requests. *)
EXTENDS TunnelProvider
=============================================================================
