----------------------------- MODULE MCAntinat -----------------------------
(* Antinat with a few connections, each of which may come at any time. *)
EXTENDS Antinat
=============================================================================
