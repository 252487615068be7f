----------------------------- MODULE MCTapPipe -----------------------------
(* TapPipe with bytes, packets and a pipe small enough that writes split. *)
EXTENDS TapPipe
=============================================================================
