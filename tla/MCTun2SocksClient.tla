------------------------- MODULE MCTun2SocksClient -------------------------
(* Instance of Tun2SocksClient for TLC. *)
EXTENDS Tun2SocksClient
============================================================================
