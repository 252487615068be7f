------------------------------- MODULE Relay -------------------------------
(***************************************************************************)
(* What a relay promises for one direction: of the bytes it has received   *)
(* it delivers an ever longer prefix, in order, each byte once.  It may     *)
(* stop at any time.                                                       *)
(***************************************************************************)
EXTENDS Streams

CONSTANT Max    \* length of the stream

VARIABLES in,   \* how much of the stream the relay has received
          out   \* what it has delivered

Init == in = 0 /\ out = <<>>

\* Receive some, deliver some.
Move ==
  \E i \in in .. Max : \E o \in Len(out) .. i :
    /\ in' = i
    /\ out' = Positions(0, o)

Spec == Init /\ [][Move]_<<in, out>>
============================================================================
