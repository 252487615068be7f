------------------------ MODULE MCShadowsocksLocal ------------------------
(* Instances of ShadowsocksLocal for TLC. *)
EXTENDS ShadowsocksLocal

\* Every recv() boundary TCP allows, and the ones of clients that send each
\* SOCKS message with one write.
AnyBreak     == 1 .. ClientLen
MessageBreak == {GreetingLen} \union HandshakeLen .. ClientLen

AllRequests == [cmd: {"connect", "udp", "bind"},
                atyp: {"ip", "domain", "bad"}, sni: BOOLEAN]
\* What Antinat and Privoxy send.
TcpRequests == [cmd: {"connect", "bind"}, atyp: {"ip", "domain", "bad"}, sni: BOOLEAN]
===========================================================================
