------------------------------ MODULE TapPipe ------------------------------
(***************************************************************************)
(* How TCP packets get from the packet flow to tun2socks: TunnelInterface   *)
(* writes each one, behind a two-byte length, into a pipe, and BTap's       *)
(* fd_handler reads it back on the tun2socks thread.  The write blocks, the *)
(* read does not, and the kernel takes a long write in parts when the pipe  *)
(* has no room for it.                                                      *)
(***************************************************************************)
EXTENDS Naturals, Sequences, SequencesExt

CONSTANTS
  Base,      \* 256: values of a byte
  MTU,       \* TunnelMTU
  Capacity,  \* bytes the pipe holds
  PipeBuf,   \* PIPE_BUF: a write of at most so many bytes is never split
  Count      \* bound on the packets sent

ASSUME FrameAssumption ==
  /\ Base \in Nat \ {0, 1} /\ MTU \in 1 .. Base * Base - 1 /\ Count \in Nat
  /\ Capacity \in Nat /\ PipeBuf \in Nat /\ PipeBuf <= Capacity

VARIABLES
  sent,     \* packets taken from the packet flow
  message,  \* bytes of the last one that write has not yet handed over
  pipe,     \* bytes in the pipe
  armed,    \* BTap has a buffer to fill and waits for BREACTOR_READ
  length,   \* data_len of the frame whose body fd_handler is about to read, or 0
  got,      \* packets given to lwIP
  error,    \* why the device failed: "no", "again", "short" or "overrun"
  split,    \* a write was taken in parts
  lost      \* a read took half a header

vars == <<sent, message, pipe, armed, length, got, error, split, lost>>

Init ==
  /\ sent = <<>> /\ message = <<>> /\ pipe = <<>>
  /\ armed = TRUE /\ length = 0 /\ got = <<>>
  /\ error = "no" /\ split = FALSE /\ lost = FALSE

\* Mutants of Header: low byte first; the length counts the header too.
HeaderSwapped(n) == <<n % Base, n \div Base>>
HeaderCounted(n) == <<(n + 2) \div Base, (n + 2) % Base>>
Header(n) == <<n \div Base, n % Base>>
Length(bytes) == bytes[1] * Base + bytes[2]

\* The payload of the k-th packet, told apart from that of its neighbours.  The
\* last one is all zeros, so that stray payload can look like an empty frame.
Payload(k, n) == [i \in 1 .. n |-> (Count - k) % Base]

-----------------------------------------------------------------------------
(* The packet flow's side *)

handleTCPPPacket ==
  /\ message = <<>> /\ Len(sent) < Count
  /\ \E n \in 1 .. MTU :
       LET p == Payload(Len(sent) + 1, n)
       IN  sent' = Append(sent, p) /\ message' = Header(n) \o p
  /\ UNCHANGED <<pipe, armed, length, got, error, split, lost>>

Room == Capacity - Len(pipe)

\* The kernel takes what fits of a long message, and all of a short one.
write ==
  /\ message # <<>> /\ Room > 0
  /\ Len(Last(sent)) + 2 <= PipeBuf => Len(message) <= Room
  /\ LET n == IF Len(message) <= Room THEN Len(message) ELSE Room
     IN  /\ pipe' = pipe \o SubSeq(message, 1, n)
         /\ message' = SubSeq(message, n + 1, Len(message))
         /\ split' = (split \/ n < Len(message))
  /\ UNCHANGED <<sent, armed, length, got, error, lost>>

-----------------------------------------------------------------------------
(* tun2socks' side *)

Readable == error = "no" /\ armed /\ length = 0 /\ pipe # <<>>

\* Half a header: the byte that was read is gone.
fd_handler_half ==
  /\ Readable /\ Len(pipe) = 1
  /\ pipe' = <<>> /\ lost' = TRUE
  /\ UNCHANGED <<sent, message, armed, length, got, error, split>>

\* The header.  A frame of length zero has no body: "retry later".
fd_handler_header ==
  /\ Readable /\ Len(pipe) >= 2
  /\ length' = Length(pipe)
  /\ pipe' = SubSeq(pipe, 3, Len(pipe))
  /\ UNCHANGED <<sent, message, armed, got, error, split, lost>>

\* The whole body is there, and fits.
fd_handler ==
  /\ error = "no" /\ length > 0 /\ length <= MTU /\ length <= Len(pipe)
  /\ got' = Append(got, SubSeq(pipe, 1, length))
  /\ pipe' = SubSeq(pipe, length + 1, Len(pipe))
  /\ length' = 0 /\ armed' = FALSE
  /\ UNCHANGED <<sent, message, error, split, lost>>

\* Fewer bytes than the header says, or more than the buffer holds.
fd_handler_error ==
  /\ error = "no" /\ length > 0 /\ (length > MTU \/ length > Len(pipe))
  /\ error' = IF length > MTU /\ Len(pipe) > MTU THEN "overrun"
              ELSE IF pipe = <<>> THEN "again" ELSE "short"
  /\ pipe' = IF length <= Len(pipe) THEN SubSeq(pipe, length + 1, Len(pipe)) ELSE <<>>
  /\ length' = 0
  /\ UNCHANGED <<sent, message, armed, got, split, lost>>

\* Mutant of Rearm: BREACTOR_READ stays disabled.
RearmNever == UNCHANGED armed

Rearm == armed' = TRUE

\* lwIP took the packet; SinglePacketBuffer asks for the next one.
output_handler_recv ==
  /\ error = "no" /\ ~armed
  /\ Rearm
  /\ UNCHANGED <<sent, message, pipe, length, got, error, split, lost>>

-----------------------------------------------------------------------------
Next ==
  \/ handleTCPPPacket \/ write
  \/ fd_handler \/ fd_handler_half \/ fd_handler_header \/ fd_handler_error
  \/ output_handler_recv

\* The write goes on while there is room, and the tun2socks thread runs.
Fairness ==
  /\ WF_vars(write)
  /\ WF_vars(fd_handler \/ fd_handler_half \/ fd_handler_header \/ fd_handler_error
             \/ output_handler_recv)

Spec == Init /\ [][Next]_vars /\ Fairness

-----------------------------------------------------------------------------
(* Properties *)

Byte == 0 .. Base - 1

\* Types; no byte is out of range and the pipe never holds more than it can.
TypeOK ==
  /\ sent \in Seq(Seq(Byte)) /\ message \in Seq(Byte) /\ pipe \in Seq(Byte)
  /\ Len(pipe) <= Capacity /\ length \in 0 .. Base * Base - 1 /\ lost \in BOOLEAN
  /\ armed \in BOOLEAN /\ got \in Seq(Seq(Byte))
  /\ error \in {"no", "again", "short", "overrun"} /\ split \in BOOLEAN

\* lwIP is given the packets of the flow, whole and in order, whatever the
\* moments the two threads meet at, until fd_handler finds half a header and
\* drops it (it breaks off without keeping the byte).
FramesIntact == ~lost => IsPrefix(got, sent)

\* Only a write that the kernel took in parts can make fd_handler lose its
\* place or report the device as failed.
ErrorNeedsSplit == (lost \/ error # "no") => split

\* No packet stays behind in the pipe: unless a write is split, BTap asks for
\* the next one until lwIP has them all.
PacketsArrive == (Len(sent) = Count) ~> (got = sent \/ split)

\* "Treat zero return value the same as EAGAIN. ... retry later" (fd_handler):
\* finding that the body of a frame is not there yet is no device error.
RetryLater == error # "again"

-----------------------------------------------------------------------------
(* The inductive invariant *)

\* Every packet of the flow has a length the header can hold.
Packets(s) == \A k \in DOMAIN s : Len(s[k]) \in 1 .. MTU

\* The frames of the packets of s behind the first g follow each other in bytes
\* without a gap: off[k] bytes come before the body of packet k, two of them its
\* header, but for the first one, whose header may have been read already.
Frames(off, s, g, first, bytes) ==
  /\ off[g + 1] = first /\ off[Len(s) + 1] = Len(bytes) + 2
  /\ \A j, k \in g + 1 .. Len(s) + 1 : j <= k => off[j] <= off[k]
  /\ \A k \in g + 1 .. Len(s) :
       /\ off[k + 1] = off[k] + Len(s[k]) + 2
       /\ \A i \in 1 .. Len(s[k]) : bytes[off[k] + i] = s[k][i]
       /\ off[k] >= 2 => <<bytes[off[k] - 1], bytes[off[k]]>> = Header(Len(s[k]))

Framing(s, g, first, bytes) ==
  \E off \in [g + 1 .. Len(s) + 1 -> Nat] : Frames(off, s, g, first, bytes)

\* fd_handler is where a frame begins, or behind the header of the next packet.
Framed ==
  /\ length = 0 => Framing(sent, Len(got), 2, pipe \o message)
  /\ length > 0 => /\ Framing(sent, Len(got), 0, pipe \o message)
                   /\ Len(got) < Len(sent) /\ length = Len(sent[Len(got) + 1])

\* A message the kernel takes whole is in the pipe entirely, or not at all.
Whole ==
  ~split /\ message # <<>> => sent # <<>> /\ Len(message) = Len(sent[Len(sent)]) + 2

IInv ==
  /\ TypeOK /\ Packets(sent) /\ Whole /\ FramesIntact /\ ErrorNeedsSplit
  /\ ~lost /\ error = "no" => Framed

=============================================================================
