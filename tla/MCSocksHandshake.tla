-------------------------- MODULE MCSocksHandshake --------------------------
(* SocksHandshake with short addresses and a few bytes of payload. *)
EXTENDS SocksHandshake
=============================================================================
