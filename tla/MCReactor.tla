----------------------------- MODULE MCReactor -----------------------------
(* Reactor with two connections and two timers. *)
EXTENDS Reactor
=============================================================================
