------------------------------ MODULE Streams ------------------------------
(* A TCP stream abstracted to the positions of its bytes. *)
EXTENDS Naturals, Sequences

\* The positions lo + 1 .. hi of a stream, in order.
Positions(lo, hi) == [i \in 1 .. (hi - lo) |-> lo + i]

\* Mutant: the length is reduced but the memmove is missing.
AfterUnmoved(s, n) == SubSeq(s, 1, Len(s) - n)

\* What is left of s behind its first n elements.
After(s, n) == SubSeq(s, n + 1, Len(s))
============================================================================
