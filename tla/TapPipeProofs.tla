--------------------------- MODULE TapPipeProofs ---------------------------
(* Framing is right for every MTU, every pipe and every split of the writes. *)
EXTENDS TapPipe, SequenceTheorems, TLAPS

-----------------------------------------------------------------------------
(* Headers *)

\* A header is two bytes, and gives back the length it was made from.
LEMMA HeaderLength ==
  ASSUME NEW n \in 1 .. MTU
  PROVE  /\ Header(n) \in Seq(Byte) /\ Len(Header(n)) = 2
         /\ Header(n)[1] * Base + Header(n)[2] = n
<1>1. n \in Nat /\ n <= Base * Base - 1 /\ Base \in Nat /\ Base > 1
  BY FrameAssumption
<1>2. n % Base \in 0 .. Base - 1 /\ (n \div Base) * Base + (n % Base) = n /\ n \div Base \in Nat
  BY <1>1
<1>3. n \div Base < Base
  BY <1>1
<1>4. n \div Base \in Byte /\ n % Base \in Byte
  BY <1>1, <1>2, <1>3 DEF Byte
<1>5. Header(n) = <<n \div Base, n % Base>>
  BY DEF Header
<1> QED BY <1>2, <1>4, <1>5

\* Whatever two bytes are taken for a header, they give a number of two bytes.
LEMMA LengthBound ==
  ASSUME NEW bytes \in Seq(Byte), Len(bytes) >= 2
  PROVE  Length(bytes) \in 0 .. Base * Base - 1
<1> DEFINE a == bytes[1]
           b == bytes[2]
<1>1. Base \in Nat /\ Base > 1
  BY FrameAssumption
<1>2. a \in 0 .. Base - 1 /\ b \in 0 .. Base - 1
  <2>1. 1 \in DOMAIN bytes /\ 2 \in DOMAIN bytes
    OBVIOUS
  <2>2. a \in Byte /\ b \in Byte
    BY <2>1
  <2> QED BY <2>2 DEF Byte
<1>3. Length(bytes) = a * Base + b
  BY DEF Length
<1> HIDE DEF a, b
<1>4. a * Base <= (Base - 1) * Base /\ a * Base \in Nat
  BY <1>1, <1>2
<1>5. (Base - 1) * Base = Base * Base - Base
  BY <1>1
<1> QED BY <1>1, <1>2, <1>3, <1>4, <1>5

-----------------------------------------------------------------------------
(* Frames in a row *)

\* What taking m bytes from the front leaves, byte by byte.
LEMMA Rest ==
  ASSUME NEW S, NEW bytes \in Seq(S), NEW m \in 0 .. Len(bytes)
  PROVE  /\ SubSeq(bytes, m + 1, Len(bytes)) \in Seq(S)
         /\ Len(SubSeq(bytes, m + 1, Len(bytes))) = Len(bytes) - m
         /\ \A i \in 1 .. Len(bytes) - m :
              SubSeq(bytes, m + 1, Len(bytes))[i] = bytes[m + i]
<1>1. m \in Nat /\ Len(bytes) \in Nat /\ m <= Len(bytes)
  OBVIOUS
<1> QED BY <1>1

\* What two sequences of bytes give in a row, byte by byte.
LEMMA Joined ==
  \A s, t \in Seq(Byte) :
    /\ s \o t \in Seq(Byte) /\ Len(s \o t) = Len(s) + Len(t)
    /\ \A i \in 1 .. Len(s) : (s \o t)[i] = s[i]
    /\ \A i \in 1 .. Len(t) : (s \o t)[Len(s) + i] = t[i]
<1> TAKE s, t \in Seq(Byte)
<1>1. Len(s) \in Nat /\ Len(t) \in Nat
  OBVIOUS
<1>2. s \o t \in Seq(Byte) /\ Len(s \o t) = Len(s) + Len(t)
  BY ConcatProperties
<1>3. ASSUME NEW i \in 1 .. Len(s) PROVE (s \o t)[i] = s[i]
  <2>1. i \in Nat /\ i <= Len(s) /\ i \in 1 .. Len(s) + Len(t)
    BY <1>1
  <2> QED BY <2>1
<1>4. ASSUME NEW i \in 1 .. Len(t) PROVE (s \o t)[Len(s) + i] = t[i]
  <2>1. i \in Nat /\ ~(Len(s) + i <= Len(s)) /\ Len(s) + i \in 1 .. Len(s) + Len(t)
        /\ (Len(s) + i) - Len(s) = i
    BY <1>1
  <2> QED BY <1>1, <2>1
<1> QED BY <1>2, <1>3, <1>4

\* Reading m bytes moves all frames that are left by m.
LEMMA Moved ==
  ASSUME NEW s \in Seq(Seq(Byte)), NEW bytes \in Seq(Byte), Packets(s),
         NEW g \in 0 .. Len(s), NEW h \in g .. Len(s),
         NEW first \in Nat, NEW next \in Nat, NEW m \in 0 .. Len(bytes),
         NEW off \in [g + 1 .. Len(s) + 1 -> Nat],
         Frames(off, s, g, first, bytes), off[h + 1] = m + next
  PROVE  Framing(s, h, next, SubSeq(bytes, m + 1, Len(bytes)))
<1> DEFINE o == [k \in h + 1 .. Len(s) + 1 |-> off[k] - m]
           left == SubSeq(bytes, m + 1, Len(bytes))
           N == Len(s)
           L == Len(bytes)
<1>1. N \in Nat /\ g \in Nat /\ h \in Nat /\ g <= h /\ h <= N /\ m \in Nat /\ L \in Nat /\ m <= L
  OBVIOUS
<1>2. Len(left) = L - m /\ \A i \in 1 .. L - m : left[i] = bytes[m + i]
  BY Rest
<1>3. \A k \in h + 1 .. N + 1 : k \in g + 1 .. N + 1 /\ off[k] \in Nat /\ off[k] >= m + next
  <2> SUFFICES ASSUME NEW k \in h + 1 .. N + 1
               PROVE  k \in g + 1 .. N + 1 /\ off[k] \in Nat /\ off[k] >= m + next
    OBVIOUS
  <2>1. k \in g + 1 .. N + 1 /\ h + 1 \in g + 1 .. N + 1 /\ h + 1 <= k
    BY <1>1
  <2>2. off[h + 1] <= off[k]
    BY <2>1 DEF Frames
  <2> QED BY <2>1, <2>2
<1>4. o \in [h + 1 .. N + 1 -> Nat]
  <2> SUFFICES ASSUME NEW k \in h + 1 .. N + 1 PROVE off[k] - m \in Nat
    OBVIOUS
  <2> QED BY <1>1, <1>3
<1>5. o[h + 1] = next /\ o[N + 1] = Len(left) + 2
  <2>1. h + 1 \in h + 1 .. N + 1 /\ N + 1 \in h + 1 .. N + 1
    BY <1>1
  <2>2. off[N + 1] = L + 2
    BY DEF Frames
  <2> QED BY <1>1, <1>2, <2>1, <2>2
<1>6. ASSUME NEW j \in h + 1 .. N + 1, NEW k \in h + 1 .. N + 1, j <= k PROVE o[j] <= o[k]
  <2>1. off[j] <= off[k] /\ off[j] \in Nat /\ off[k] \in Nat
    BY <1>3, <1>6 DEF Frames
  <2>2. o[j] = off[j] - m /\ o[k] = off[k] - m
    OBVIOUS
  <2> QED BY <1>1, <2>1, <2>2
<1>7. ASSUME NEW k \in h + 1 .. N
      PROVE  /\ o[k + 1] = o[k] + Len(s[k]) + 2
             /\ \A i \in 1 .. Len(s[k]) : left[o[k] + i] = s[k][i]
             /\ o[k] >= 2 => <<left[o[k] - 1], left[o[k]]>> = Header(Len(s[k]))
  <2>1. k \in Nat /\ k \in h + 1 .. N + 1 /\ k + 1 \in h + 1 .. N + 1 /\ k \in g + 1 .. N
        /\ k + 1 \in g + 1 .. N + 1 /\ N + 1 \in g + 1 .. N + 1 /\ k + 1 <= N + 1 /\ k \in DOMAIN s
    BY <1>1
  <2>2. /\ off[k] \in Nat /\ off[k + 1] \in Nat /\ off[k] >= m
        /\ o[k] = off[k] - m /\ o[k + 1] = off[k + 1] - m
    BY <1>1, <1>3, <2>1
  <2>3. Len(s[k]) \in Nat
    BY <2>1
  <2>4. off[k + 1] = off[k] + Len(s[k]) + 2
    BY <2>1 DEF Frames
  <2>5. \A i \in 1 .. Len(s[k]) : bytes[off[k] + i] = s[k][i]
    BY <2>1 DEF Frames
  <2>6. off[k] >= 2 => <<bytes[off[k] - 1], bytes[off[k]]>> = Header(Len(s[k]))
    BY <2>1 DEF Frames
  <2> DEFINE x == off[k]
             y == off[k + 1]
             n == Len(s[k])
  <2>7. y <= L + 2
    BY <2>1 DEF Frames
  <2> HIDE DEF x, y, n, o, left, L, N
  <2>8. x + n <= L /\ x \in Nat /\ n \in Nat /\ x >= m /\ o[k] = x - m
    <3>1. x \in Nat /\ n \in Nat /\ y \in Nat /\ x >= m /\ y = x + n + 2
      BY <2>2, <2>3, <2>4 DEF x, y, n
    <3>2. o[k] = x - m
      BY <2>2 DEF x
    <3> QED BY <1>1, <2>7, <3>1, <3>2
  <2>9. ASSUME NEW i \in 1 .. Len(s[k]) PROVE left[o[k] + i] = s[k][i]
    <3>1. i \in Nat /\ i >= 1 /\ i <= n
      BY <2>8 DEF n
    <3>2. o[k] + i \in 1 .. L - m /\ m + (o[k] + i) = x + i
      BY <1>1, <2>8, <3>1
    <3>3. bytes[x + i] = s[k][i]
      BY <2>5 DEF x
    <3> QED BY <1>2, <3>2, <3>3
  <2>10. ASSUME o[k] >= 2
        PROVE  <<left[o[k] - 1], left[o[k]]>> = Header(Len(s[k]))
    <3>1. /\ o[k] - 1 \in 1 .. L - m /\ o[k] \in 1 .. L - m
          /\ m + (o[k] - 1) = x - 1 /\ m + o[k] = x /\ x >= 2
      BY <1>1, <2>10, <2>8
    <3>2. <<bytes[x - 1], bytes[x]>> = Header(Len(s[k]))
      BY <2>6, <3>1 DEF x
    <3>3. left[o[k] - 1] = bytes[x - 1] /\ left[o[k]] = bytes[x]
      BY <1>2, <3>1
    <3> QED BY <3>2, <3>3
  <2>11. o[k + 1] = o[k] + Len(s[k]) + 2
    <3>1. y = x + n + 2 /\ o[k + 1] = y - m
      BY <2>2, <2>4 DEF x, y, n
    <3>2. o[k + 1] = o[k] + n + 2
      BY <1>1, <2>8, <3>1
    <3> QED BY <3>2 DEF n
  <2> QED BY <2>9, <2>10, <2>11
<1>8. Frames(o, s, h, next, left)
  BY <1>5, <1>6, <1>7 DEF Frames
<1> QED BY <1>4, <1>8 DEF Framing

\* Where a frame begins, the header that is read is that of the next packet.
LEMMA HeaderRead ==
  ASSUME NEW s \in Seq(Seq(Byte)), NEW bytes \in Seq(Byte), Packets(s),
         NEW g \in 0 .. Len(s), Framing(s, g, 2, bytes), bytes # <<>>
  PROVE  /\ g < Len(s) /\ Len(bytes) >= Len(s[g + 1]) + 2
         /\ bytes[1] * Base + bytes[2] = Len(s[g + 1])
         /\ Framing(s, g, 0, SubSeq(bytes, 3, Len(bytes)))
<1>1. PICK off \in [g + 1 .. Len(s) + 1 -> Nat] : Frames(off, s, g, 2, bytes)
  BY DEF Framing
<1>2. Len(bytes) \in Nat /\ Len(bytes) > 0 /\ Len(s) \in Nat /\ g \in Nat /\ g <= Len(s)
  BY EmptySeq
<1>3. off[g + 1] = 2 /\ off[Len(s) + 1] = Len(bytes) + 2
  BY <1>1 DEF Frames
<1>4. g < Len(s)
  <2>1. g # Len(s)
    BY <1>2, <1>3
  <2> QED BY <1>2, <2>1
<1>5. g + 1 \in g + 1 .. Len(s) /\ g + 1 \in DOMAIN s /\ (g + 1) + 1 \in g + 1 .. Len(s) + 1
      /\ Len(s) + 1 \in g + 1 .. Len(s) + 1 /\ (g + 1) + 1 <= Len(s) + 1
  BY <1>2, <1>4
<1>6. Len(s[g + 1]) \in 1 .. MTU /\ Len(s[g + 1]) \in Nat
  BY <1>5, FrameAssumption DEF Packets
<1>7. off[(g + 1) + 1] = Len(s[g + 1]) + 4
  <2>1. off[(g + 1) + 1] = off[g + 1] + Len(s[g + 1]) + 2
    BY <1>1, <1>5 DEF Frames
  <2> QED BY <1>3, <1>6, <2>1
<1>8. Len(s[g + 1]) + 2 <= Len(bytes)
  <2>1. off[(g + 1) + 1] <= off[Len(s) + 1]
    BY <1>1, <1>5 DEF Frames
  <2> QED BY <1>2, <1>3, <1>6, <1>7, <2>1
<1>9. <<bytes[1], bytes[2]>> = Header(Len(s[g + 1]))
  <2>1. off[g + 1] >= 2 => <<bytes[off[g + 1] - 1], bytes[off[g + 1]]>> = Header(Len(s[g + 1]))
    BY <1>1, <1>5 DEF Frames
  <2>2. <<bytes[2 - 1], bytes[2]>> = Header(Len(s[g + 1])) /\ 2 - 1 = 1
    BY <1>3, <2>1
  <2> QED BY <2>2
<1>10. bytes[1] * Base + bytes[2] = Len(s[g + 1])
  <2>1. Header(Len(s[g + 1]))[1] * Base + Header(Len(s[g + 1]))[2] = Len(s[g + 1])
    BY <1>6, HeaderLength
  <2>2. Header(Len(s[g + 1]))[1] = bytes[1] /\ Header(Len(s[g + 1]))[2] = bytes[2]
    BY <1>9
  <2> QED BY <2>1, <2>2
<1>11. Framing(s, g, 0, SubSeq(bytes, 3, Len(bytes)))
  <2>1. 2 \in 0 .. Len(bytes) /\ g \in g .. Len(s) /\ 0 \in Nat /\ 2 \in Nat /\ 2 + 1 = 3 /\ off[g + 1] = 2 + 0
    BY <1>2, <1>3, <1>6, <1>8
  <2>2. Framing(s, g, 0, SubSeq(bytes, 2 + 1, Len(bytes)))
    BY <1>1, <2>1, Moved
  <2> QED BY <2>1, <2>2
<1> QED BY <1>4, <1>8, <1>10, <1>11

\* Behind the header comes the body of that packet, and then the next frame.
LEMMA BodyRead ==
  ASSUME NEW s \in Seq(Seq(Byte)), NEW bytes \in Seq(Byte), Packets(s),
         NEW g \in 0 .. Len(s), Framing(s, g, 0, bytes), g < Len(s)
  PROVE  /\ Len(s[g + 1]) \in 1 .. Len(bytes)
         /\ SubSeq(bytes, 1, Len(s[g + 1])) = s[g + 1]
         /\ Framing(s, g + 1, 2, SubSeq(bytes, Len(s[g + 1]) + 1, Len(bytes)))
<1> DEFINE n == Len(s[g + 1])
<1>1. PICK off \in [g + 1 .. Len(s) + 1 -> Nat] : Frames(off, s, g, 0, bytes)
  BY DEF Framing
<1>2. Len(bytes) \in Nat /\ Len(s) \in Nat /\ g \in Nat /\ g < Len(s)
  OBVIOUS
<1>3. off[g + 1] = 0 /\ off[Len(s) + 1] = Len(bytes) + 2
  BY <1>1 DEF Frames
<1>4. g + 1 \in g + 1 .. Len(s) /\ g + 1 \in DOMAIN s /\ (g + 1) + 1 \in g + 1 .. Len(s) + 1
      /\ Len(s) + 1 \in g + 1 .. Len(s) + 1 /\ (g + 1) + 1 <= Len(s) + 1
  BY <1>2
<1>5. n \in 1 .. MTU /\ n \in Nat /\ n >= 1 /\ s[g + 1] \in Seq(Byte)
  BY <1>4, FrameAssumption DEF Packets
<1>6. off[(g + 1) + 1] = n + 2
  <2>1. off[(g + 1) + 1] = off[g + 1] + n + 2
    BY <1>1, <1>4 DEF Frames
  <2> QED BY <1>3, <1>5, <2>1
<1>7. n <= Len(bytes)
  <2>1. off[(g + 1) + 1] <= off[Len(s) + 1]
    BY <1>1, <1>4 DEF Frames
  <2> QED BY <1>2, <1>3, <1>5, <1>6, <2>1
<1>8. \A i \in 1 .. n : bytes[i] = s[g + 1][i]
  <2>1. \A i \in 1 .. n : bytes[off[g + 1] + i] = s[g + 1][i]
    BY <1>1, <1>4 DEF Frames
  <2>2. \A i \in 1 .. n : bytes[0 + i] = s[g + 1][i]
    BY <1>3, <2>1
  <2> SUFFICES ASSUME NEW i \in 1 .. n PROVE bytes[i] = s[g + 1][i]
    OBVIOUS
  <2>3. 0 + i = i
    BY <1>5
  <2> QED BY <2>2, <2>3
<1>9. SubSeq(bytes, 1, n) = s[g + 1]
  <2>1. /\ SubSeq(bytes, 1, n) \in Seq(Byte) /\ Len(SubSeq(bytes, 1, n)) = n
        /\ \A i \in 1 .. n : SubSeq(bytes, 1, n)[i] = bytes[i]
    <3> HIDE DEF n
    <3> QED BY <1>2, <1>5, <1>7
  <2> QED BY <1>5, <1>8, <2>1, SeqEqual
<1>10. Framing(s, g + 1, 2, SubSeq(bytes, n + 1, Len(bytes)))
  <2>1. n \in 0 .. Len(bytes) /\ g + 1 \in g .. Len(s) /\ 0 \in Nat /\ 2 \in Nat
    BY <1>2, <1>5, <1>7
  <2> QED BY <1>1, <1>6, <2>1, Moved
<1> QED BY <1>2, <1>5, <1>7, <1>9, <1>10

\* One more packet puts one more frame at the end.
LEMMA Added ==
  ASSUME NEW s \in Seq(Seq(Byte)), NEW bytes \in Seq(Byte), Packets(s),
         NEW g \in 0 .. Len(s), NEW first \in Nat, Framing(s, g, first, bytes),
         NEW p \in Seq(Byte), Len(p) \in 1 .. MTU
  PROVE  Framing(Append(s, p), g, first, bytes \o (Header(Len(p)) \o p))
<1> DEFINE t == Append(s, p)
           all == bytes \o (Header(Len(p)) \o p)
           N == Len(s)
           L == Len(bytes)
           n == Len(p)
<1>1. PICK off \in [g + 1 .. N + 1 -> Nat] : Frames(off, s, g, first, bytes)
  BY DEF Framing
<1> DEFINE o == [k \in g + 1 .. (N + 1) + 1 |-> IF k <= N + 1 THEN off[k] ELSE L + 2 + n + 2]
<1>2. L \in Nat /\ N \in Nat /\ g \in Nat /\ g <= N /\ n \in Nat /\ n >= 1
  BY FrameAssumption
<1>3. /\ Header(n) \in Seq(Byte) /\ Len(Header(n)) = 2 /\ Header(n) = <<Header(n)[1], Header(n)[2]>>
  <2>1. Header(n) \in Seq(Byte) /\ Len(Header(n)) = 2
    BY HeaderLength
  <2> QED BY <2>1 DEF Header
<1>4. /\ Len(all) = L + 2 + n
      /\ \A i \in 1 .. L : all[i] = bytes[i]
      /\ all[L + 1] = Header(n)[1] /\ all[L + 2] = Header(n)[2]
      /\ \A i \in 1 .. n : all[L + 2 + i] = p[i]
  <2> DEFINE f == Header(n) \o p
  <2>1. /\ f \in Seq(Byte) /\ Len(f) = 2 + n /\ f[1] = Header(n)[1] /\ f[2] = Header(n)[2]
        /\ \A i \in 1 .. n : f[2 + i] = p[i]
    <3> DEFINE hd == Header(n)
    <3>1. hd \in Seq(Byte)
      BY <1>3
    <3> HIDE DEF hd
    <3>2. /\ hd \o p \in Seq(Byte) /\ Len(hd \o p) = Len(hd) + Len(p)
          /\ \A i \in 1 .. Len(hd) : (hd \o p)[i] = hd[i]
          /\ \A i \in 1 .. Len(p) : (hd \o p)[Len(hd) + i] = p[i]
      BY <3>1, Joined, Zenon
    <3>3. /\ f \in Seq(Byte) /\ Len(f) = Len(Header(n)) + Len(p)
          /\ \A i \in 1 .. Len(Header(n)) : f[i] = Header(n)[i]
          /\ \A i \in 1 .. Len(p) : f[Len(Header(n)) + i] = p[i]
      BY <3>2, Zenon DEF hd
    <3>4. 1 \in 1 .. Len(Header(n)) /\ 2 \in 1 .. Len(Header(n))
      BY <1>3
    <3> QED BY <1>3, <3>3, <3>4
  <2> HIDE DEF f
  <2>2. /\ Len(bytes \o f) = L + Len(f) /\ \A i \in 1 .. L : (bytes \o f)[i] = bytes[i]
        /\ \A i \in 1 .. Len(f) : (bytes \o f)[L + i] = f[i]
    <3>1. f \in Seq(Byte)
      BY <2>1
    <3>2. /\ bytes \o f \in Seq(Byte) /\ Len(bytes \o f) = Len(bytes) + Len(f)
          /\ \A i \in 1 .. Len(bytes) : (bytes \o f)[i] = bytes[i]
          /\ \A i \in 1 .. Len(f) : (bytes \o f)[Len(bytes) + i] = f[i]
      BY <3>1, Joined, Zenon
    <3> QED BY <3>2, Zenon DEF L
  <2>3. all = bytes \o f
    BY DEF f
  <2> HIDE DEF all, L, n
  <2>4. Len(all) = L + 2 + n
    BY <1>2, <2>1, <2>2, <2>3
  <2>5. 1 \in 1 .. Len(f) /\ 2 \in 1 .. Len(f)
    BY <1>2, <2>1
  <2>6. ASSUME NEW i \in 1 .. n PROVE all[L + 2 + i] = p[i]
    <3>1. Len(f) = 2 + n
      BY <2>1
    <3>2. i \in Nat /\ 2 + i \in 1 .. Len(f) /\ L + (2 + i) = L + 2 + i
      BY <1>2, <3>1
    <3> QED BY <2>1, <2>2, <2>3, <3>2
  <2> QED BY <2>1, <2>2, <2>3, <2>4, <2>5, <2>6
<1>5. /\ Len(t) = N + 1 /\ t[N + 1] = p /\ \A k \in 1 .. N : t[k] = s[k]
  OBVIOUS
<1> HIDE DEF t, all, L
<1>6. \A k \in g + 1 .. N + 1 : k \in g + 1 .. (N + 1) + 1 /\ o[k] = off[k] /\ off[k] \in Nat /\ off[k] <= L + 2
  <2> SUFFICES ASSUME NEW k \in g + 1 .. N + 1
               PROVE  k \in g + 1 .. (N + 1) + 1 /\ o[k] = off[k] /\ off[k] \in Nat /\ off[k] <= L + 2
    OBVIOUS
  <2>1. k \in Nat /\ k <= N + 1 /\ k \in g + 1 .. (N + 1) + 1 /\ N + 1 \in g + 1 .. N + 1
    BY <1>2
  <2>2. off[k] <= off[N + 1] /\ off[N + 1] = L + 2
    BY <1>1, <2>1 DEF Frames, L
  <2> QED BY <2>1, <2>2
<1>7. o[(N + 1) + 1] = L + 2 + n + 2
  BY <1>2
<1>8. o \in [g + 1 .. (N + 1) + 1 -> Nat]
  <2> SUFFICES ASSUME NEW k \in g + 1 .. (N + 1) + 1
               PROVE  (IF k <= N + 1 THEN off[k] ELSE L + 2 + n + 2) \in Nat
    OBVIOUS
  <2>1. CASE k <= N + 1
    <3>1. k \in g + 1 .. N + 1
      BY <1>2, <2>1
    <3> QED BY <1>6, <2>1, <3>1
  <2>2. CASE ~(k <= N + 1)
    BY <1>2, <2>2
  <2> QED BY <2>1, <2>2
<1>9. o[g + 1] = first /\ o[Len(t) + 1] = Len(all) + 2
  <2>1. g + 1 \in g + 1 .. N + 1
    BY <1>2
  <2>2. off[g + 1] = first
    BY <1>1 DEF Frames
  <2> QED BY <1>2, <1>4, <1>5, <1>6, <1>7, <2>1, <2>2
<1> HIDE DEF o
<1>10. ASSUME NEW j \in g + 1 .. Len(t) + 1, NEW k \in g + 1 .. Len(t) + 1, j <= k
       PROVE  o[j] <= o[k]
  <2>1. CASE k <= N + 1
    <3>1. j \in g + 1 .. N + 1 /\ k \in g + 1 .. N + 1
      BY <1>2, <1>5, <1>10, <2>1
    <3>2. off[j] <= off[k]
      BY <1>1, <1>10, <3>1 DEF Frames
    <3> QED BY <1>6, <3>1, <3>2
  <2>2. CASE ~(k <= N + 1)
    <3>1. k = (N + 1) + 1
      BY <1>2, <1>5, <2>2
    <3>2. CASE j = (N + 1) + 1
      BY <1>2, <1>7, <3>1, <3>2
    <3>3. CASE j \in g + 1 .. N + 1
      BY <1>2, <1>6, <1>7, <3>1, <3>3
    <3> QED BY <1>2, <1>5, <3>2, <3>3
  <2> QED BY <2>1, <2>2
<1>11. ASSUME NEW k \in g + 1 .. Len(t)
       PROVE  /\ o[k + 1] = o[k] + Len(t[k]) + 2
              /\ \A i \in 1 .. Len(t[k]) : all[o[k] + i] = t[k][i]
              /\ o[k] >= 2 => <<all[o[k] - 1], all[o[k]]>> = Header(Len(t[k]))
  <2>1. CASE k <= N
    <3>1. k \in Nat /\ k \in g + 1 .. N /\ k \in g + 1 .. N + 1 /\ k + 1 \in g + 1 .. N + 1
          /\ k \in 1 .. N /\ k \in DOMAIN s
      BY <1>2, <2>1
    <3>2. t[k] = s[k] /\ o[k] = off[k] /\ o[k + 1] = off[k + 1] /\ off[k] \in Nat /\ off[k + 1] <= L + 2
      BY <1>5, <1>6, <3>1
    <3>3. off[k + 1] = off[k] + Len(s[k]) + 2
      BY <1>1, <3>1 DEF Frames
    <3>4. \A i \in 1 .. Len(s[k]) : bytes[off[k] + i] = s[k][i]
      BY <1>1, <3>1 DEF Frames
    <3>5. off[k] >= 2 => <<bytes[off[k] - 1], bytes[off[k]]>> = Header(Len(s[k]))
      BY <1>1, <3>1 DEF Frames
    <3>6. Len(s[k]) \in Nat
      BY <3>1
    <3> DEFINE x == off[k]
               q == Len(s[k])
    <3> HIDE DEF x, q
    <3>7. x + q <= L /\ x \in Nat /\ q \in Nat
      <4>1. off[k] + Len(s[k]) + 2 <= L + 2 /\ off[k] \in Nat
        BY <3>2, <3>3
      <4> QED BY <1>2, <3>6, <4>1 DEF x, q
    <3>8. ASSUME NEW i \in 1 .. Len(s[k]) PROVE all[o[k] + i] = s[k][i]
      <4>1. i \in 1 .. q /\ x + i \in 1 .. L
        BY <1>2, <3>7 DEF q
      <4> QED BY <1>4, <3>2, <3>4, <4>1 DEF x
    <3>9. ASSUME o[k] >= 2 PROVE <<all[o[k] - 1], all[o[k]]>> = Header(Len(s[k]))
      <4>1. x - 1 \in 1 .. L /\ x \in 1 .. L /\ x >= 2
        <5>1. x >= 2
          BY <3>2, <3>9 DEF x
        <5> QED BY <1>2, <3>7, <5>1
      <4>2. all[x - 1] = bytes[x - 1] /\ all[x] = bytes[x]
        BY <1>4, <4>1
      <4> QED BY <3>2, <3>5, <4>1, <4>2 DEF x
    <3> QED BY <3>2, <3>3, <3>8, <3>9
  <2>2. CASE ~(k <= N)
    <3>1. k = N + 1 /\ N + 1 \in g + 1 .. N + 1
      BY <1>2, <1>5, <2>2
    <3>2. t[k] = p /\ o[k] = L + 2 /\ o[k + 1] = L + 2 + n + 2
      <4>1. off[N + 1] = L + 2
        BY <1>1 DEF Frames, L
      <4> QED BY <1>5, <1>6, <1>7, <3>1, <4>1
    <3>3. all[o[k] - 1] = Header(n)[1] /\ all[o[k]] = Header(n)[2]
      <4>1. (L + 2) - 1 = L + 1
        BY <1>2
      <4> QED BY <1>4, <3>2, <4>1
    <3> QED BY <1>3, <1>4, <3>2, <3>3
  <2> QED BY <2>1, <2>2
<1>12. Frames(o, t, g, first, all)
  BY <1>9, <1>10, <1>11 DEF Frames
<1> QED BY <1>5, <1>8, <1>12 DEF Framing, t, all

\* A prefix that takes in the next element is still one, and so is one of a
\* sequence that has grown.
LEMMA PrefixGrows ==
  ASSUME NEW S, NEW s \in Seq(S), NEW t \in Seq(S), IsPrefix(s, t)
  PROVE  /\ \A e \in S : IsPrefix(s, Append(t, e))
         /\ Len(s) < Len(t) => IsPrefix(Append(s, t[Len(s) + 1]), t)
         /\ Len(s) <= Len(t)
<1>1. Len(s) \in Nat /\ Len(t) \in Nat /\ Len(s) <= Len(t)
  BY DEF IsPrefix
<1>2. \A i \in 1 .. Len(s) : s[i] = t[i]
  <2> SUFFICES ASSUME NEW i \in 1 .. Len(s) PROVE s[i] = t[i]
    OBVIOUS
  <2>1. SubSeq(s, 1, Len(s))[i] = s[i] /\ SubSeq(t, 1, Len(s))[i] = t[i]
    BY <1>1
  <2> QED BY <2>1 DEF IsPrefix
<1>3. ASSUME NEW e \in S PROVE IsPrefix(s, Append(t, e))
  <2>1. \A i \in 1 .. Len(s) : Append(t, e)[i] = s[i]
    BY <1>1, <1>2
  <2>2. Len(Append(t, e)) = Len(t) + 1 /\ Append(t, e) \in Seq(S)
    OBVIOUS
  <2>3. SubSeq(s, 1, Len(s)) = SubSeq(Append(t, e), 1, Len(s))
    BY <1>1, <2>1, <2>2
  <2> QED BY <1>1, <2>2, <2>3 DEF IsPrefix
<1>4. ASSUME Len(s) < Len(t) PROVE IsPrefix(Append(s, t[Len(s) + 1]), t)
  <2> DEFINE u == Append(s, t[Len(s) + 1])
  <2>1. t[Len(s) + 1] \in S
    BY <1>1, <1>4
  <2>2. u \in Seq(S) /\ Len(u) = Len(s) + 1 /\ \A i \in 1 .. Len(s) + 1 : u[i] = t[i]
    BY <1>1, <1>2, <2>1
  <2> HIDE DEF u
  <2>3. SubSeq(u, 1, Len(u)) = SubSeq(t, 1, Len(u))
    BY <1>1, <1>4, <2>2
  <2>4. IsPrefix(u, t)
    BY <1>1, <1>4, <2>2, <2>3 DEF IsPrefix
  <2> QED BY <2>4 DEF u
<1> QED BY <1>1, <1>3, <1>4

\* Taking m bytes from the pipe takes them from all that is ahead.
LEMMA Taken ==
  ASSUME NEW a \in Seq(Byte), NEW b \in Seq(Byte), NEW m \in 0 .. Len(a)
  PROVE  /\ SubSeq(a, m + 1, Len(a)) \o b = SubSeq(a \o b, m + 1, Len(a \o b))
         /\ SubSeq(a, 1, m) = SubSeq(a \o b, 1, m)
         /\ m \in 0 .. Len(a \o b)
<1> DEFINE c == a \o b
           r == SubSeq(a, m + 1, Len(a))
           x == r \o b
           y == SubSeq(c, m + 1, Len(c))
<1>1. m \in Nat /\ Len(a) \in Nat /\ Len(b) \in Nat /\ m <= Len(a)
  OBVIOUS
<1>2. /\ c \in Seq(Byte) /\ Len(c) = Len(a) + Len(b)
      /\ \A i \in 1 .. Len(a) : c[i] = a[i]
      /\ \A i \in 1 .. Len(b) : c[Len(a) + i] = b[i]
  BY Joined
<1>3. /\ r \in Seq(Byte) /\ Len(r) = Len(a) - m
      /\ \A i \in 1 .. Len(a) - m : r[i] = a[m + i]
  BY Rest
<1> HIDE DEF c, r
<1>4. /\ x \in Seq(Byte) /\ Len(x) = Len(r) + Len(b)
      /\ \A i \in 1 .. Len(r) : x[i] = r[i]
      /\ \A i \in 1 .. Len(b) : x[Len(r) + i] = b[i]
  BY <1>3, Joined
<1>5. m \in 0 .. Len(c)
  BY <1>1, <1>2
<1>6. /\ y \in Seq(Byte) /\ Len(y) = Len(c) - m
      /\ \A i \in 1 .. Len(c) - m : y[i] = c[m + i]
  BY <1>2, <1>5, Rest
<1> HIDE DEF x, y
<1>7. Len(x) = Len(y) /\ Len(x) = (Len(a) - m) + Len(b)
  BY <1>1, <1>2, <1>3, <1>4, <1>6
<1>8. ASSUME NEW i \in 1 .. Len(x) PROVE x[i] = y[i]
  <2>1. i \in Nat /\ i >= 1 /\ i <= (Len(a) - m) + Len(b) /\ i \in 1 .. Len(c) - m
    BY <1>1, <1>2, <1>7
  <2>2. y[i] = c[m + i]
    BY <1>6, <2>1
  <2>3. CASE i <= Len(a) - m
    <3>1. i \in 1 .. Len(r) /\ i \in 1 .. Len(a) - m /\ m + i \in 1 .. Len(a)
      BY <1>1, <1>3, <2>1, <2>3
    <3> QED BY <1>2, <1>3, <1>4, <2>2, <3>1
  <2>4. CASE ~(i <= Len(a) - m)
    <3> DEFINE d == i - (Len(a) - m)
    <3>1. d \in 1 .. Len(b) /\ (Len(a) - m) + d = i /\ Len(a) + d = m + i
      BY <1>1, <2>1, <2>4
    <3> HIDE DEF d
    <3>2. x[Len(r) + d] = b[d] /\ Len(r) + d = i /\ c[Len(a) + d] = b[d]
      BY <1>2, <1>3, <1>4, <3>1
    <3> QED BY <2>2, <3>1, <3>2
  <2> QED BY <2>3, <2>4
<1>9. x = y
  BY <1>4, <1>6, <1>7, <1>8, SeqEqual
<1>10. SubSeq(a, 1, m) = SubSeq(c, 1, m)
  <2>1. \A i \in 1 .. m : c[i] = a[i] /\ i \in DOMAIN a
    BY <1>1, <1>2
  <2> QED BY <1>1, <1>2, <2>1
<1> QED BY <1>5, <1>9, <1>10 DEF c, r, x, y

\* While the last message is still to be written as a whole, the pipe holds whole
\* frames: none, or all of the next packet.
LEMMA WholeFrames ==
  ASSUME NEW s \in Seq(Seq(Byte)), NEW a \in Seq(Byte), NEW b \in Seq(Byte), Packets(s),
         NEW g \in 0 .. Len(s), NEW first \in {0, 2}, Framing(s, g, first, a \o b),
         s # <<>>, b # <<>>, Len(b) = Len(s[Len(s)]) + 2
  PROVE  \/ first = 2 /\ a = <<>>
         \/ g < Len(s) /\ Len(s[g + 1]) + first <= Len(a)
<1> DEFINE N == Len(s)
           n == Len(s[N])
<1>1. PICK off \in [g + 1 .. N + 1 -> Nat] : Frames(off, s, g, first, a \o b)
  BY DEF Framing
<1>2. /\ N \in Nat /\ g \in Nat /\ g <= N /\ N >= 1 /\ Len(a) \in Nat /\ Len(b) \in Nat
      /\ first \in Nat /\ first <= 2 /\ N \in DOMAIN s /\ n \in Nat
  <2>1. N \in Nat /\ N # 0
    BY EmptySeq
  <2>2. N \in DOMAIN s
    BY <2>1
  <2> QED BY <2>1, <2>2
<1>3. off[g + 1] = first /\ off[N + 1] = Len(a) + n + 4
  <2>1. off[g + 1] = first /\ off[N + 1] = Len(a \o b) + 2
    BY <1>1 DEF Frames
  <2>2. Len(a \o b) = Len(a) + Len(b)
    BY Joined
  <2> QED BY <1>2, <2>1, <2>2
<1>4. g < N
  <2>1. g # N
    BY <1>2, <1>3
  <2> QED BY <1>2, <2>1
<1>5. off[N] = Len(a) + 2
  <2>1. N \in g + 1 .. N /\ N \in g + 1 .. N + 1
    BY <1>2, <1>4
  <2>2. off[N + 1] = off[N] + n + 2 /\ off[N] \in Nat
    BY <1>1, <2>1 DEF Frames
  <2> QED BY <1>2, <1>3, <2>2
<1>6. CASE g + 1 = N
  <2>1. first = Len(a) + 2
    BY <1>3, <1>5, <1>6
  <2>2. first = 2 /\ Len(a) = 0
    BY <1>2, <2>1
  <2> QED BY <2>2, EmptySeq
<1>7. CASE g + 1 # N
  <2>1. /\ g + 1 \in g + 1 .. N /\ g + 1 \in DOMAIN s /\ (g + 1) + 1 \in g + 1 .. N + 1
        /\ N \in g + 1 .. N + 1 /\ (g + 1) + 1 <= N
    BY <1>2, <1>4, <1>7
  <2>2. Len(s[g + 1]) \in Nat
    BY <2>1
  <2>3. off[(g + 1) + 1] = off[g + 1] + Len(s[g + 1]) + 2
    BY <1>1, <2>1 DEF Frames
  <2>4. off[(g + 1) + 1] <= off[N]
    BY <1>1, <2>1 DEF Frames
  <2>5. first + Len(s[g + 1]) + 2 <= Len(a) + 2
    BY <1>3, <1>5, <2>3, <2>4
  <2> QED BY <1>2, <1>4, <2>2, <2>5
<1> QED BY <1>6, <1>7

-----------------------------------------------------------------------------
(* The steps *)

\* Unless a write was split, what fd_handler is about to read is in the pipe.
LEMMA NextIsThere ==
  ASSUME IInv, ~split
  PROVE  /\ length > 0 => length <= MTU /\ length <= Len(pipe)
         /\ length = 0 /\ pipe # <<>> => Len(pipe) >= 2
<1> DEFINE g == Len(got)
           first == IF length = 0 THEN 2 ELSE 0
<1>1. ~lost /\ error = "no" /\ Framed /\ Packets(sent) /\ Whole
  BY DEF IInv, ErrorNeedsSplit
<1>2. sent \in Seq(Seq(Byte)) /\ pipe \in Seq(Byte) /\ message \in Seq(Byte) /\ length \in Nat
      /\ got \in Seq(Seq(Byte)) /\ pipe \o message \in Seq(Byte)
      /\ Len(pipe \o message) = Len(pipe) + Len(message) /\ Len(pipe) \in Nat
  <2>1. sent \in Seq(Seq(Byte)) /\ pipe \in Seq(Byte) /\ message \in Seq(Byte)
        /\ length \in 0 .. Base * Base - 1 /\ got \in Seq(Seq(Byte))
    BY DEF IInv, TypeOK
  <2>2. length \in Nat
    BY <2>1
  <2> QED BY <2>1, <2>2, Joined
<1>3. g \in 0 .. Len(sent)
  <2>1. g <= Len(sent) /\ g \in Nat
    BY <1>1, <1>2, PrefixGrows DEF IInv, FramesIntact
  <2> QED BY <1>2, <2>1
<1>4. first \in {0, 2} /\ Framing(sent, g, first, pipe \o message)
  <2>1. CASE length = 0
    BY <1>1, <2>1 DEF Framed
  <2>2. CASE length # 0
    BY <1>1, <1>2, <2>2 DEF Framed
  <2> QED BY <2>1, <2>2
<1>5. length > 0 => g < Len(sent) /\ length = Len(sent[g + 1])
  BY <1>1 DEF Framed
<1> HIDE DEF g, first
<1>6. length > 0 => length <= MTU
  <2> HAVE length > 0
  <2>1. g + 1 \in DOMAIN sent
    BY <1>2, <1>3, <1>5
  <2>2. Len(sent[g + 1]) \in 1 .. MTU /\ MTU \in Nat
    BY <1>1, <2>1, FrameAssumption DEF Packets
  <2> QED BY <1>5, <2>2
<1>7. CASE message = <<>>
  <2>1. Len(pipe \o message) = Len(pipe)
    BY <1>2, <1>7, EmptySeq
  <2>2. ASSUME length > 0 PROVE length <= Len(pipe)
    <3>1. first = 0
      BY <2>2 DEF first
    <3>2. Len(sent[g + 1]) \in 1 .. Len(pipe \o message)
      BY <1>1, <1>2, <1>3, <1>4, <1>5, <2>2, <3>1, BodyRead
    <3> QED BY <1>2, <1>5, <2>1, <2>2, <3>2
  <2>3. ASSUME length = 0, pipe # <<>> PROVE Len(pipe) >= 2
    <3>1. first = 2
      BY <2>3 DEF first
    <3>2. pipe \o message # <<>>
      <4>1. Len(pipe) # 0
        BY <1>2, <2>3, EmptySeq
      <4> QED BY <1>2, <2>1, <4>1, EmptySeq
    <3>3. Len(pipe \o message) >= Len(sent[g + 1]) + 2 /\ g < Len(sent)
      BY <1>1, <1>2, <1>3, <1>4, <3>1, <3>2, HeaderRead
    <3>4. Len(sent[g + 1]) \in Nat
      <4>1. g + 1 \in DOMAIN sent
        BY <1>2, <1>3, <3>3
      <4> QED BY <1>2, <4>1
    <3> QED BY <1>2, <2>1, <3>3, <3>4
  <2> QED BY <1>6, <2>2, <2>3
<1>8. CASE message # <<>>
  <2>1. sent # <<>> /\ Len(message) = Len(sent[Len(sent)]) + 2
    BY <1>1, <1>8 DEF Whole
  <2>2. \/ first = 2 /\ pipe = <<>>
        \/ g < Len(sent) /\ Len(sent[g + 1]) + first <= Len(pipe)
    BY <1>1, <1>2, <1>3, <1>4, <1>8, <2>1, WholeFrames
  <2>3. length > 0 => first = 0
    BY <1>2 DEF first
  <2>4. length = 0 => first = 2
    BY DEF first
  <2>5. g < Len(sent) => Len(sent[g + 1]) \in Nat
    <3> HAVE g < Len(sent)
    <3>1. g + 1 \in DOMAIN sent
      BY <1>2, <1>3
    <3> QED BY <1>2, <3>1
  <2>6. length > 0 => length <= Len(pipe)
    BY <1>2, <1>5, <2>2, <2>3, <2>5
  <2>7. length = 0 /\ pipe # <<>> => Len(pipe) >= 2
    BY <1>2, <2>2, <2>4, <2>5
  <2> QED BY <1>6, <2>6, <2>7
<1> QED BY <1>7, <1>8

\* The types the steps need.
LEMMA Types ==
  ASSUME IInv
  PROVE  /\ sent \in Seq(Seq(Byte)) /\ got \in Seq(Seq(Byte))
         /\ message \in Seq(Byte) /\ pipe \in Seq(Byte) /\ pipe \o message \in Seq(Byte)
         /\ length \in Nat /\ Len(pipe) <= Capacity
         /\ ~lost => Len(got) \in 0 .. Len(sent)
<1>1. sent \in Seq(Seq(Byte)) /\ got \in Seq(Seq(Byte)) /\ message \in Seq(Byte)
      /\ pipe \in Seq(Byte) /\ length \in 0 .. Base * Base - 1 /\ Len(pipe) <= Capacity
  BY DEF IInv, TypeOK
<1>2. ~lost => Len(got) \in 0 .. Len(sent)
  <2> HAVE ~lost
  <2>1. IsPrefix(got, sent)
    BY DEF IInv, FramesIntact
  <2>2. Len(got) <= Len(sent)
    BY <1>1, <2>1, PrefixGrows
  <2> QED BY <1>1, <2>2
<1>3. length \in Nat
  BY <1>1
<1> QED BY <1>1, <1>2, <1>3, Joined

\* handleTCPPPacket puts a new frame at the end of what is ahead.
LEMMA PacketInv == ASSUME IInv, handleTCPPPacket PROVE IInv'
<1>1. PICK n \in 1 .. MTU :
        /\ sent' = Append(sent, Payload(Len(sent) + 1, n))
        /\ message' = Header(n) \o Payload(Len(sent) + 1, n)
  BY DEF handleTCPPPacket
<1> DEFINE p == Payload(Len(sent) + 1, n)
<1>2. message = <<>> /\ Len(sent) < Count
      /\ UNCHANGED <<pipe, armed, length, got, error, split, lost>>
  BY DEF handleTCPPPacket
<1>3. n \in Nat /\ n >= 1 /\ p \in Seq(Byte) /\ Len(p) = n
  <2>1. n \in Nat /\ n >= 1
    BY FrameAssumption
  <2>2. (Count - (Len(sent) + 1)) % Base \in Byte
    <3>1. Len(sent) \in Nat /\ Count \in Nat /\ Base \in Nat /\ Base > 0
      BY Types, FrameAssumption
    <3>2. Count - (Len(sent) + 1) \in Nat
      BY <1>2, <3>1
    <3> QED BY <3>1, <3>2 DEF Byte
  <2> QED BY <2>1, <2>2 DEF Payload
<1>4. Header(n) \in Seq(Byte) /\ Len(Header(n)) = 2
  BY HeaderLength
<1> HIDE DEF p
<1>5. sent' = Append(sent, p) /\ message' = Header(n) \o p
  BY <1>1 DEF p
<1>6. /\ sent' \in Seq(Seq(Byte)) /\ Len(sent') = Len(sent) + 1 /\ sent'[Len(sent) + 1] = p
      /\ \A k \in 1 .. Len(sent) : sent'[k] = sent[k]
  BY <1>3, <1>5, Types
<1>7. message' \in Seq(Byte) /\ Len(message') = n + 2
  <2>1. message' \in Seq(Byte) /\ Len(message') = 2 + n
    <3> DEFINE hd == Header(n)
    <3>1. hd \in Seq(Byte) /\ Len(hd) = 2
      BY <1>4
    <3> HIDE DEF hd
    <3>2. hd \o p \in Seq(Byte) /\ Len(hd \o p) = Len(hd) + Len(p)
      BY <1>3, <3>1, Joined
    <3>3. message' = hd \o p
      BY <1>5 DEF hd
    <3> QED BY <1>3, <3>1, <3>2, <3>3
  <2> QED BY <1>3, <2>1
<1>8. TypeOK'
  BY <1>2, <1>6, <1>7 DEF IInv, TypeOK, Byte
<1>9. Packets(sent')
  <2> SUFFICES ASSUME NEW k \in DOMAIN sent' PROVE Len(sent'[k]) \in 1 .. MTU
    BY DEF Packets
  <2>1. Len(sent) \in Nat /\ DOMAIN sent = 1 .. Len(sent) /\ k \in 1 .. Len(sent) + 1
    BY <1>6, Types
  <2>2. CASE k \in 1 .. Len(sent)
    BY <1>6, <2>1, <2>2 DEF IInv, Packets
  <2>3. CASE k = Len(sent) + 1
    BY <1>3, <1>6, <2>3
  <2> QED BY <2>1, <2>2, <2>3
<1>10. Whole'
  <2>1. sent' # <<>>
    <3>1. Len(sent) + 1 # 0
      BY Types
    <3> QED BY <1>6, <3>1, EmptySeq
  <2>2. Len(sent'[Len(sent')]) = n
    BY <1>3, <1>6
  <2> QED BY <1>7, <2>1, <2>2 DEF Whole
<1>11. FramesIntact'
  <2> SUFFICES ASSUME ~lost PROVE IsPrefix(got, sent')
    BY <1>2 DEF FramesIntact
  <2>1. IsPrefix(got, sent)
    BY DEF IInv, FramesIntact
  <2> QED BY <1>3, <1>5, <2>1, Types, PrefixGrows
<1>12. ErrorNeedsSplit'
  BY <1>2 DEF IInv, ErrorNeedsSplit
<1>13. ASSUME ~lost, error = "no" PROVE Framed'
  <2>1. Framed /\ Packets(sent) /\ Len(got) \in 0 .. Len(sent)
    BY <1>13, Types DEF IInv
  <2>2. pipe \o message = pipe /\ pipe' \o message' = pipe \o (Header(Len(p)) \o p)
    BY <1>2, <1>3, <1>5, Types, ConcatEmptySeq
  <2>3. ASSUME NEW first \in Nat, Framing(sent, Len(got), first, pipe \o message)
        PROVE  Framing(sent', Len(got), first, pipe' \o message')
    BY <1>3, <1>5, <2>1, <2>2, <2>3, Types, Added
  <2>4. length = 0 => Framing(sent', Len(got), 2, pipe' \o message')
    BY <2>1, <2>3 DEF Framed
  <2>5. length > 0 => /\ Framing(sent', Len(got), 0, pipe' \o message')
                      /\ Len(got) < Len(sent') /\ length = Len(sent'[Len(got) + 1])
    <3> HAVE length > 0
    <3>1. /\ Framing(sent, Len(got), 0, pipe \o message) /\ Len(got) < Len(sent)
          /\ length = Len(sent[Len(got) + 1])
      BY <2>1 DEF Framed
    <3>2. Len(sent) \in Nat /\ Len(got) \in Nat /\ Len(got) + 1 \in 1 .. Len(sent)
      BY <2>1, <3>1, Types
    <3> QED BY <1>6, <2>3, <3>1, <3>2
  <2> QED BY <1>2, <2>4, <2>5 DEF Framed
<1> QED BY <1>2, <1>8, <1>9, <1>10, <1>11, <1>12, <1>13 DEF IInv

\* What the kernel takes moves from the message to the pipe: nothing is lost
\* between them.
LEMMA WriteInv == ASSUME IInv, write PROVE IInv'
<1> DEFINE n == IF Len(message) <= Room THEN Len(message) ELSE Room
<1>1. /\ message # <<>> /\ Room > 0
      /\ pipe' = pipe \o SubSeq(message, 1, n)
      /\ message' = SubSeq(message, n + 1, Len(message))
      /\ split' = (split \/ n < Len(message))
      /\ UNCHANGED <<sent, armed, length, got, error, lost>>
  BY DEF write
<1>2. n \in Nat /\ n <= Len(message) /\ Len(pipe) + n <= Capacity /\ Len(message) \in Nat
      /\ Len(pipe) \in Nat
  BY <1>1, Types, FrameAssumption DEF Room
<1> HIDE DEF n
<1>3. SubSeq(message, 1, n) \in Seq(Byte) /\ Len(SubSeq(message, 1, n)) = n
  BY <1>2, Types
<1>4. message' \in Seq(Byte) /\ Len(message') = Len(message) - n
  BY <1>1, <1>2, Types, Rest
<1>5. pipe' \in Seq(Byte) /\ Len(pipe') <= Capacity
  <2>1. pipe' \in Seq(Byte) /\ Len(pipe') = Len(pipe) + n
    BY <1>1, <1>3, Types, Joined
  <2> QED BY <1>2, <2>1
<1>6. pipe' \o message' = pipe \o message
  <2>1. SubSeq(message, 1, n) \o SubSeq(message, n + 1, Len(message)) = message
    <3>1. 1 \in 1 .. Len(message) + 1 /\ n \in 1 - 1 .. Len(message)
          /\ Len(message) \in n .. Len(message)
      BY <1>2
    <3>2. SubSeq(message, 1, n) \o SubSeq(message, n + 1, Len(message))
          = SubSeq(message, 1, Len(message))
      BY <3>1, Types, ConcatAdjacentSubSeq
    <3> QED BY <3>2, Types, SubSeqFull
  <2>2. (pipe \o SubSeq(message, 1, n)) \o message'
        = pipe \o (SubSeq(message, 1, n) \o message')
    <3> DEFINE taken == SubSeq(message, 1, n)
               kept == message'
    <3>1. taken \in Seq(Byte) /\ kept \in Seq(Byte) /\ pipe \in Seq(Byte)
      BY <1>3, <1>4, Types
    <3> HIDE DEF taken, kept
    <3>2. (pipe \o taken) \o kept = pipe \o (taken \o kept)
      BY <3>1, ConcatAssociative
    <3> QED BY <3>2 DEF taken, kept
  <2> QED BY <1>1, <2>1, <2>2
<1>7. split' \in BOOLEAN
  BY <1>1 DEF IInv, TypeOK
<1>8. TypeOK'
  BY <1>1, <1>4, <1>5, <1>7 DEF IInv, TypeOK, Byte
<1>9. Whole'
  <2>1. ASSUME ~split' PROVE message' = <<>>
    <3>1. ~(n < Len(message))
      BY <1>1, <2>1, Zenon
    <3>2. n = Len(message)
      BY <1>2, <3>1
    <3>3. Len(message') = 0
      BY <1>2, <1>4, <3>2
    <3> QED BY <1>4, <3>3, EmptySeq
  <2> QED BY <2>1 DEF Whole
<1>10. Packets(sent') /\ FramesIntact' /\ ErrorNeedsSplit'
  BY <1>1 DEF IInv, FramesIntact, ErrorNeedsSplit
<1>11. ~lost' /\ error' = "no" => Framed'
  BY <1>1, <1>6 DEF IInv, Framed
<1> QED BY <1>8, <1>9, <1>10, <1>11 DEF IInv

\* Half a header is only there when a write was split.
LEMMA HalfInv == ASSUME IInv, fd_handler_half PROVE IInv'
<1>1. /\ error = "no" /\ length = 0 /\ pipe # <<>> /\ Len(pipe) = 1
      /\ pipe' = <<>> /\ lost' = TRUE
      /\ UNCHANGED <<sent, message, armed, length, got, error, split>>
  BY DEF fd_handler_half, Readable
<1>2. split
  BY <1>1, NextIsThere
<1>3. pipe' \in Seq(Byte) /\ Len(pipe') <= Capacity
  BY <1>1, EmptySeq, FrameAssumption
<1>4. TypeOK'
  BY <1>1, <1>3 DEF IInv, TypeOK, Byte
<1> QED BY <1>1, <1>2, <1>4 DEF IInv, Packets, Whole, FramesIntact, ErrorNeedsSplit

\* The header that is read is that of the next packet.
LEMMA HeaderInv == ASSUME IInv, fd_handler_header PROVE IInv'
<1>1. /\ error = "no" /\ length = 0 /\ pipe # <<>> /\ Len(pipe) >= 2
      /\ length' = Length(pipe) /\ pipe' = SubSeq(pipe, 3, Len(pipe))
      /\ UNCHANGED <<sent, message, armed, got, error, split, lost>>
  BY DEF fd_handler_header, Readable
<1>2. 2 \in 0 .. Len(pipe) /\ 2 + 1 = 3 /\ Len(pipe) \in Nat
  BY <1>1, Types
<1>3. pipe' \in Seq(Byte) /\ Len(pipe') <= Capacity
  <2>1. pipe' \in Seq(Byte) /\ Len(pipe') = Len(pipe) - 2
    BY <1>1, <1>2, Types, Rest
  <2> QED BY <1>2, <2>1, Types, FrameAssumption
<1>4. TypeOK'
  <2>1. length' \in 0 .. Base * Base - 1
    BY <1>1, Types, LengthBound
  <2> QED BY <1>1, <1>3, <2>1 DEF IInv, TypeOK, Byte
<1>5. Packets(sent') /\ Whole' /\ FramesIntact' /\ ErrorNeedsSplit'
  BY <1>1 DEF IInv, Whole, FramesIntact, ErrorNeedsSplit
<1>6. ASSUME ~lost PROVE Framed'
  <2>1. Framing(sent, Len(got), 2, pipe \o message) /\ Packets(sent) /\ Len(got) \in 0 .. Len(sent)
    BY <1>1, <1>6, Types DEF IInv, Framed
  <2>2. (pipe \o message)[1] = pipe[1] /\ (pipe \o message)[2] = pipe[2]
        /\ Len(pipe \o message) = Len(pipe) + Len(message)
    <3>1. 1 \in 1 .. Len(pipe) /\ 2 \in 1 .. Len(pipe)
      BY <1>2
    <3> QED BY <3>1, Types, Joined
  <2>3. pipe \o message # <<>>
    <3>1. Len(pipe \o message) # 0
      BY <1>2, <2>2, Types
    <3> QED BY <3>1, EmptySeq
  <2>4. /\ Len(got) < Len(sent)
        /\ (pipe \o message)[1] * Base + (pipe \o message)[2] = Len(sent[Len(got) + 1])
        /\ Framing(sent, Len(got), 0, SubSeq(pipe \o message, 3, Len(pipe \o message)))
    BY <2>1, <2>3, Types, HeaderRead
  <2>5. pipe' \o message' = SubSeq(pipe \o message, 3, Len(pipe \o message))
    <3>1. SubSeq(pipe, 2 + 1, Len(pipe)) \o message
          = SubSeq(pipe \o message, 2 + 1, Len(pipe \o message))
      BY <1>2, Types, Taken
    <3>2. SubSeq(pipe, 3, Len(pipe)) \o message
          = SubSeq(pipe \o message, 3, Len(pipe \o message))
      BY <1>2, <3>1
    <3> QED BY <1>1, <3>2
  <2>6. length' = Len(sent[Len(got) + 1])
    BY <1>1, <2>2, <2>4 DEF Length
  <2>7. length' > 0
    <3>1. Len(got) + 1 \in DOMAIN sent
      BY <2>1, <2>4, Types
    <3>2. Len(sent[Len(got) + 1]) \in 1 .. MTU /\ MTU \in Nat
      BY <2>1, <3>1, FrameAssumption DEF Packets
    <3> QED BY <2>6, <3>2
  <2>8. Framing(sent', Len(got'), 0, pipe' \o message')
    BY <1>1, <2>4, <2>5
  <2>9. length' # 0
    BY <2>7
  <2>10. Len(got') < Len(sent') /\ length' = Len(sent'[Len(got') + 1])
    BY <1>1, <2>4, <2>6
  <2> QED BY <2>8, <2>9, <2>10 DEF Framed
<1> QED BY <1>1, <1>4, <1>5, <1>6 DEF IInv

\* The body that is read is that of the next packet.
LEMMA BodyInv == ASSUME IInv, fd_handler PROVE IInv'
<1>1. /\ error = "no" /\ length > 0 /\ length <= MTU /\ length <= Len(pipe)
      /\ got' = Append(got, SubSeq(pipe, 1, length))
      /\ pipe' = SubSeq(pipe, length + 1, Len(pipe))
      /\ length' = 0 /\ armed' = FALSE
      /\ UNCHANGED <<sent, message, error, split, lost>>
  BY DEF fd_handler
<1>2. length \in 0 .. Len(pipe) /\ length \in Nat /\ Len(pipe) \in Nat
  BY <1>1, Types
<1>3. pipe' \in Seq(Byte) /\ Len(pipe') <= Capacity
  <2>1. pipe' \in Seq(Byte) /\ Len(pipe') = Len(pipe) - length
    BY <1>1, <1>2, Types, Rest
  <2> QED BY <1>2, <2>1, Types, FrameAssumption
<1>4. SubSeq(pipe, 1, length) \in Seq(Byte)
  BY <1>1, <1>2, Types
<1>5. got' \in Seq(Seq(Byte)) /\ Len(got') = Len(got) + 1
  BY <1>1, <1>4, Types
<1>6. TypeOK'
  <2>1. length' \in 0 .. Base * Base - 1
    <3>1. 0 .. Base * Base - 1 # {}
      BY DEF IInv, TypeOK
    <3>2. Base * Base - 1 \in Int
      BY FrameAssumption
    <3> QED BY <1>1, <3>1, <3>2
  <2>2. armed' \in BOOLEAN
    BY <1>1
  <2> QED BY <1>1, <1>3, <1>5, <2>1, <2>2 DEF IInv, TypeOK, Byte
<1>7. Packets(sent') /\ Whole' /\ ErrorNeedsSplit'
  BY <1>1 DEF IInv, Whole, ErrorNeedsSplit
<1>8. ASSUME ~lost PROVE Framed' /\ IsPrefix(got', sent')
  <2> DEFINE g == Len(got)
  <2>1. /\ Framing(sent, g, 0, pipe \o message) /\ Packets(sent) /\ g \in 0 .. Len(sent)
        /\ g < Len(sent) /\ length = Len(sent[g + 1])
    BY <1>1, <1>8, Types DEF IInv, Framed
  <2>2. /\ SubSeq(pipe \o message, 1, Len(sent[g + 1])) = sent[g + 1]
        /\ Framing(sent, g + 1, 2,
                   SubSeq(pipe \o message, Len(sent[g + 1]) + 1, Len(pipe \o message)))
    BY <2>1, Types, BodyRead
  <2>3. /\ SubSeq(pipe, 1, length) = SubSeq(pipe \o message, 1, length)
        /\ pipe' \o message' = SubSeq(pipe \o message, length + 1, Len(pipe \o message))
    BY <1>1, <1>2, Types, Taken
  <2>4. got' = Append(got, sent[g + 1])
    BY <1>1, <2>1, <2>2, <2>3
  <2>5. IsPrefix(got, sent)
    BY <1>8 DEF IInv, FramesIntact
  <2>6. IsPrefix(got', sent)
    BY <2>1, <2>4, <2>5, Types, PrefixGrows
  <2>7. Framing(sent, Len(got'), 2, pipe' \o message')
    BY <1>5, <2>1, <2>2, <2>3
  <2> QED BY <1>1, <2>6, <2>7 DEF Framed
<1> QED BY <1>1, <1>6, <1>7, <1>8 DEF IInv, FramesIntact

\* The device only fails when a write was split.
LEMMA ErrorInv == ASSUME IInv, fd_handler_error PROVE IInv'
<1>1. /\ error = "no" /\ length > 0 /\ (length > MTU \/ length > Len(pipe))
      /\ error' = IF length > MTU /\ Len(pipe) > MTU THEN "overrun"
                  ELSE IF pipe = <<>> THEN "again" ELSE "short"
      /\ pipe' = IF length <= Len(pipe) THEN SubSeq(pipe, length + 1, Len(pipe)) ELSE <<>>
      /\ length' = 0
      /\ UNCHANGED <<sent, message, armed, got, split, lost>>
  BY DEF fd_handler_error
<1>2. split
  <2> SUFFICES ASSUME ~split PROVE FALSE
    OBVIOUS
  <2>1. length <= MTU /\ length <= Len(pipe)
    BY <1>1, NextIsThere
  <2>2. length \in Nat /\ Len(pipe) \in Nat /\ MTU \in Nat
    BY Types, FrameAssumption
  <2> QED BY <1>1, <2>1, <2>2
<1>3. pipe' \in Seq(Byte) /\ Len(pipe') <= Capacity
  <2>1. CASE length <= Len(pipe)
    <3>1. length \in 0 .. Len(pipe) /\ length \in Nat /\ Len(pipe) \in Nat
      BY <2>1, Types
    <3>2. pipe' \in Seq(Byte) /\ Len(pipe') = Len(pipe) - length
      BY <1>1, <2>1, <3>1, Types, Rest
    <3> QED BY <3>1, <3>2, Types, FrameAssumption
  <2>2. CASE ~(length <= Len(pipe))
    <3>1. pipe' = <<>>
      BY <1>1, <2>2
    <3> QED BY <3>1, EmptySeq, FrameAssumption
  <2> QED BY <2>1, <2>2
<1>4. error' \in {"again", "short", "overrun"}
  BY <1>1
<1>5. TypeOK'
  <2>1. length' \in 0 .. Base * Base - 1
    <3>1. 0 .. Base * Base - 1 # {}
      BY DEF IInv, TypeOK
    <3>2. Base * Base - 1 \in Int
      BY FrameAssumption
    <3> QED BY <1>1, <3>1, <3>2
  <2> QED BY <1>1, <1>3, <1>4, <2>1 DEF IInv, TypeOK, Byte
<1>6. Packets(sent') /\ Whole' /\ FramesIntact' /\ ErrorNeedsSplit'
  BY <1>1, <1>2 DEF IInv, Whole, FramesIntact, ErrorNeedsSplit
<1>7. error' # "no"
  BY <1>4
<1> QED BY <1>5, <1>6, <1>7 DEF IInv

\* Asking for the next packet changes nothing of this.
LEMMA RearmInv == ASSUME IInv, output_handler_recv PROVE IInv'
<1>1. armed' = TRUE /\ UNCHANGED <<sent, message, pipe, length, got, error, split, lost>>
  BY DEF output_handler_recv, Rearm
<1>2. TypeOK'
  BY <1>1 DEF IInv, TypeOK, Byte
<1> QED BY <1>1, <1>2 DEF IInv, Whole, FramesIntact, ErrorNeedsSplit, Framed

-----------------------------------------------------------------------------
(* The theorems *)

\* Nothing is ahead, and nothing was sent.
LEMMA InitInv == Init => IInv
<1> SUFFICES ASSUME Init PROVE IInv
  OBVIOUS
<1>1. /\ sent = <<>> /\ message = <<>> /\ pipe = <<>> /\ length = 0 /\ got = <<>>
      /\ armed = TRUE /\ error = "no" /\ split = FALSE /\ lost = FALSE
  BY DEF Init
<1>2. /\ sent \in Seq(Seq(Byte)) /\ got \in Seq(Seq(Byte)) /\ message \in Seq(Byte)
      /\ pipe \in Seq(Byte) /\ Len(sent) = 0 /\ Len(got) = 0 /\ Len(pipe) = 0
  BY <1>1, EmptySeq
<1>3. TypeOK
  <2>1. length \in 0 .. Base * Base - 1
    <3>1. Base \in Nat /\ Base >= 2
      BY FrameAssumption
    <3>2. Base * Base >= Base
      BY <3>1
    <3> QED BY <1>1, <3>1, <3>2
  <2>2. Len(pipe) <= Capacity
    BY <1>2, FrameAssumption
  <2> QED BY <1>1, <1>2, <2>1, <2>2 DEF TypeOK
<1>4. Packets(sent) /\ Whole /\ ErrorNeedsSplit
  BY <1>1 DEF Packets, Whole, ErrorNeedsSplit
<1>5. FramesIntact
  BY <1>1 DEF FramesIntact, IsPrefix
<1>6. Framed
  <2> DEFINE off == [k \in 0 + 1 .. 0 + 1 |-> 2]
  <2>1. pipe \o message = <<>> /\ Len(<<>>) = 0
    BY <1>1, <1>2, EmptySeq, ConcatEmptySeq
  <2>2. off \in [Len(got) + 1 .. Len(sent) + 1 -> Nat]
    BY <1>2
  <2>3. Frames(off, sent, Len(got), 2, pipe \o message)
    BY <1>2, <2>1 DEF Frames
  <2> QED BY <1>1, <2>2, <2>3 DEF Framed, Framing
<1> QED BY <1>3, <1>4, <1>5, <1>6 DEF IInv

\* Every step keeps the invariant.
LEMMA StepInv == IInv /\ [Next]_vars => IInv'
<1> SUFFICES ASSUME IInv, [Next]_vars PROVE IInv'
  OBVIOUS
<1>1. CASE Next
  BY <1>1, PacketInv, WriteInv, HalfInv, HeaderInv, BodyInv, ErrorInv, RearmInv DEF Next
<1>2. CASE UNCHANGED vars
  <2>1. UNCHANGED <<sent, message, pipe, armed, length, got, error, split, lost>>
    BY <1>2 DEF vars
  <2>2. TypeOK'
    BY <2>1 DEF IInv, TypeOK, Byte
  <2> QED BY <2>1, <2>2 DEF IInv, Whole, FramesIntact, ErrorNeedsSplit, Framed
<1> QED BY <1>1, <1>2

\* Until half a header is lost or the device fails, what is ahead of fd_handler is
\* exactly the frames of the packets it has not delivered.
THEOREM Invariant == Spec => []IInv
BY InitInv, StepInv, PTL DEF Spec

\* Every byte is a byte, and the pipe never holds more than it can.
THEOREM TypeCorrect == Spec => []TypeOK
<1>1. IInv => TypeOK
  BY DEF IInv
<1> QED BY <1>1, Invariant, PTL

\* lwIP is given the packets of the flow, whole and in order, however the kernel
\* cuts the writes, until fd_handler drops half a header.
THEOREM PacketsWhole == Spec => []FramesIntact
<1>1. IInv => FramesIntact
  BY DEF IInv
<1> QED BY <1>1, Invariant, PTL

\* fd_handler only loses its place, or reports the device as failed, when the
\* kernel took a write in parts.
THEOREM FailsOnlySplit == Spec => []ErrorNeedsSplit
<1>1. IInv => ErrorNeedsSplit
  BY DEF IInv
<1> QED BY <1>1, Invariant, PTL

=============================================================================
