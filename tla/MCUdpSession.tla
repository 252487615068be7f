---------------------------- MODULE MCUdpSession ----------------------------
(* UdpSession with two programs, a shared server and one reached by IPv6. *)
EXTENDS UdpSession
=============================================================================
