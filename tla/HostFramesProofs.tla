--------------------------- MODULE HostFramesProofs ---------------------------
(* The checksums of all frames of the host: the FPGA's step and the software's *)
(* are compared bit by bit, and a fold over a frame of any length by induction. *)
(* From them follows which frames dummycoord answers, and so how its beacons    *)
(* are numbered, for any arguments of the block and any frames received.        *)
EXTENDS HostFrames, SequenceTheorems, FiniteSetTheorems, TLAPS

(* A char as it is sent, and the one after it.                                  *)
LEMMA CharFits ==
    ASSUME HostAssumption, NEW c \in Char
    PROVE  ToByte(c) \in Byte
<1>1. c \in Int
  BY DEF HostAssumption, Char
<1> QED BY <1>1 DEF ToByte, Byte

LEMMA NextChar ==
    ASSUME HostAssumption, NEW c \in Char
    PROVE  NextBsn(c) \in Char /\ ToByte(NextBsn(c)) = (ToByte(c) + 1) % 256
<1>1. CASE CharMin = 0
  BY <1>1 DEF Char, NextBsn, ToChar, ToByte
<1>2. CASE CharMin = -128
  BY <1>2 DEF Char, NextBsn, ToChar, ToByte
<1> QED BY <1>1, <1>2 DEF HostAssumption

(* An argument of the block is a sequence of bytes.                             *)
LEMMA TableIsSeq ==
    ASSUME NEW S, NEW n \in Nat, NEW t \in [1..n -> S]
    PROVE  t \in Seq(S) /\ Len(t) = n
<1>1. t \in Seq(S)
  BY SeqDef
<1> QED BY <1>1, LenProperties

LEMMA ArgumentsAreBytes ==
    ASSUME HostAssumption
    PROVE  /\ pan_id \in Seq(Byte) /\ Len(pan_id) = 2
           /\ src_addr \in Seq(Byte) /\ Len(src_addr) = 8
           /\ epid \in Seq(Byte) /\ Len(epid) = 8
<1>1. pan_id \in [1..2 -> Byte] /\ src_addr \in [1..8 -> Byte] /\ epid \in [1..8 -> Byte]
  BY DEF HostAssumption
<1>2. \A n \in Nat : \A t : t \in [1..n -> Byte] => t \in Seq(Byte) /\ Len(t) = n
  BY TableIsSeq
<1>3. 2 \in Nat /\ 8 \in Nat
  OBVIOUS
<1> QED BY <1>1, <1>2, <1>3, Zenon

(* The fixed part of a beacon's head is three bytes long, with its number last; *)
(* the rest is never empty.                                                     *)
LEMMA NumberOfBeacon ==
    ASSUME HostAssumption, NEW bsn \in Char
    PROVE  /\ Beacon(bsn) \in Seq(Byte)
           /\ Beacon(bsn)[BsnIndex] = ToByte(bsn)
           /\ Len(Beacon(bsn)) > 3
<1> DEFINE mode == IF short_addr_mode THEN 128 ELSE 192
           number == ToByte(bsn)
           head == <<0, mode, number>>
           addr == SubSeq(src_addr, 1, IF short_addr_mode THEN 2 ELSE 8)
           middle == <<255, 207, 0, 0, 0, 32, 132>>
           tail == <<255, 255, 255, 0>>
<1>1. head \in Seq(Byte) /\ Len(head) = 3 /\ head[3] = number
  <2>1. mode \in Byte /\ number \in Byte
    BY CharFits DEF Byte
  <2> HIDE DEF mode, number
  <2> QED BY <2>1 DEF Byte
<1>2. pan_id \in Seq(Byte) /\ Len(pan_id) = 2 /\ epid \in Seq(Byte)
  BY ArgumentsAreBytes
<1>3. addr \in Seq(Byte)
  <2>1. src_addr \in Seq(Byte) /\ Len(src_addr) = 8
    BY ArgumentsAreBytes
  <2> QED BY <2>1
<1>4. middle \in Seq(Byte) /\ tail \in Seq(Byte)
  BY DEF Byte
<1>5. Beacon(bsn) = head \o pan_id \o addr \o middle \o epid \o tail
  BY DEF Beacon
<1> HIDE DEF number, head, addr, middle, tail
<1>6. ASSUME NEW s \in Seq(Byte), NEW t \in Seq(Byte), Len(s) >= 3, s[3] = number
      PROVE  s \o t \in Seq(Byte) /\ Len(s \o t) = Len(s) + Len(t) /\ (s \o t)[3] = number
  BY <1>6, ConcatProperties
<1> DEFINE Begun(s) == s \in Seq(Byte) /\ Len(s) >= 5 /\ s[3] = number
<1>7. ASSUME NEW s, Begun(s), NEW t \in Seq(Byte) PROVE Begun(s \o t)
  BY <1>6, <1>7
<1>8. Begun(head \o pan_id)
  <2>1. Len(head \o pan_id) = 5
    <3>1. Len(head \o pan_id) = Len(head) + Len(pan_id)
      BY <1>1, <1>2, ConcatProperties, Zenon
    <3> QED BY <1>1, <1>2, <3>1
  <2> QED BY <1>1, <1>2, <1>6, <2>1
<1> HIDE DEF Begun
<1>9. Begun(head \o pan_id \o addr \o middle \o epid \o tail)
  BY <1>2, <1>3, <1>4, <1>7, <1>8
<1> QED BY <1>5, <1>9 DEF Begun, BsnIndex, number

-------------------------------------------------------------------------------
(* Numbers by their bits, least significant first. Whatever is not 1 counts as 0,*)
(* so that the lemmas need no hypotheses.                                     *)

Digit(x) == IF x = 1 THEN 1 ELSE 0
Plus(x, y) == IF Digit(x) = Digit(y) THEN 0 ELSE 1
Nib(a, b, c, d) == Digit(a) + 2 * Digit(b) + 4 * Digit(c) + 8 * Digit(d)
Oct(a, b, c, d, e, f, g, h) == Nib(a, b, c, d) + 16 * Nib(e, f, g, h)
Word(a0, a1, a2, a3, a4, a5, a6, a7, a8, a9, a10, a11, a12, a13, a14, a15) ==
  Oct(a0, a1, a2, a3, a4, a5, a6, a7) + 256 * Oct(a8, a9, a10, a11, a12, a13, a14, a15)
Low(n) == n % 2
Half(n) == n \div 2
Bottom(n) == n % 256
Top(n) == n \div 256
Raised(n) == (n * 256) % 65536
Left(n) == n \div 16
Right(n) == n % 16

(* An interval of numbers, by its upper bound.                                *)
LEMMA Interval ==
  ASSUME NEW m \in Nat
  PROVE  \A n : n \in 0..m <=> n \in Nat /\ n <= m
OBVIOUS

(* The bounds of a register.                                                  *)
LEMMA WordRange == \A n : n \in Word16 <=> n \in Nat /\ n <= 65535
<1> DEFINE top == 65535
<1>1. top \in Nat
  OBVIOUS
<1>2. Word16 = 0..top
  BY DEF Word16
<1>3. top = 65535
  OBVIOUS
<1> HIDE DEF top
<1>4. \A n : n \in Word16 <=> n \in Nat /\ n <= top
  BY <1>1, <1>2, Interval, Zenon
<1> QED BY <1>3, <1>4

(* The bounds of a byte.                                                      *)
LEMMA ByteRange == \A n : n \in Byte <=> n \in Nat /\ n <= 255
BY DEF Byte

(* A register by its bits: its halves, and what a shift makes of it.          *)
LEMMA WordOfBits ==
  \A b0, b1, b2, b3, b4, b5, b6, b7, b8, b9, b10, b11, b12, b13, b14, b15 :
   /\ Word(b0, b1, b2, b3, b4, b5, b6, b7, b8, b9, b10, b11, b12, b13, b14, b15) \in Word16
   /\ Low(Word(b0, b1, b2, b3, b4, b5, b6, b7, b8, b9, b10, b11, b12, b13, b14, b15))
         = Digit(b0)
   /\ Half(Word(b0, b1, b2, b3, b4, b5, b6, b7, b8, b9, b10, b11, b12, b13, b14, b15))
        = Word(b1, b2, b3, b4, b5, b6, b7, b8, b9, b10, b11, b12, b13, b14, b15, 0)
   /\ Bottom(Word(b0, b1, b2, b3, b4, b5, b6, b7, b8, b9, b10, b11, b12, b13, b14, b15))
         = Oct(b0, b1, b2, b3, b4, b5, b6, b7)
   /\ Top(Word(b0, b1, b2, b3, b4, b5, b6, b7, b8, b9, b10, b11, b12, b13, b14, b15))
         = Oct(b8, b9, b10, b11, b12, b13, b14, b15)
   /\ Raised(Word(b0, b1, b2, b3, b4, b5, b6, b7, b8, b9, b10, b11, b12, b13, b14, b15))
        = Word(0, 0, 0, 0, 0, 0, 0, 0, b0, b1, b2, b3, b4, b5, b6, b7)
<1> TAKE b0, b1, b2, b3, b4, b5, b6, b7, b8, b9, b10, b11, b12, b13, b14, b15
<1> DEFINE w == Word(b0, b1, b2, b3, b4, b5, b6, b7, b8, b9, b10, b11, b12, b13, b14, b15)
<1>1. w \in Nat /\ w <= 65535
  BY DEF Word, Oct, Nib, Digit
<1>2. w \in Word16
  <2> HIDE DEF w
  <2> QED BY <1>1, WordRange
<1>3. Low(w) = Digit(b0)
  BY DEF Word, Oct, Nib, Digit, Low
<1>4. Half(w) = Word(b1, b2, b3, b4, b5, b6, b7, b8, b9, b10, b11, b12, b13, b14, b15, 0)
  BY DEF Word, Oct, Nib, Digit, Half
<1>5. Bottom(w) = Oct(b0, b1, b2, b3, b4, b5, b6, b7)
  BY DEF Word, Oct, Nib, Digit, Bottom
<1>6. Top(w) = Oct(b8, b9, b10, b11, b12, b13, b14, b15)
  BY DEF Word, Oct, Nib, Digit, Top
<1>7. Raised(w) = Word(0, 0, 0, 0, 0, 0, 0, 0, b0, b1, b2, b3, b4, b5, b6, b7)
  BY DEF Word, Oct, Nib, Digit, Raised
<1> QED BY <1>2, <1>3, <1>4, <1>5, <1>6, <1>7

(* A byte by its bits, and its two halves.                                    *)
LEMMA ByteOfBits ==
  \A a, b, c, d, e, f, g, h :
   /\ Oct(a, b, c, d, e, f, g, h) \in Byte
   /\ Left(Oct(a, b, c, d, e, f, g, h)) = Nib(e, f, g, h)
   /\ Right(Oct(a, b, c, d, e, f, g, h)) = Nib(a, b, c, d)
BY DEF Oct, Nib, Digit, Left, Right, Byte

(* The bits of a byte are the digits it is made of.                           *)
LEMMA BitOfByte ==
  \A a, b, c, d, e, f, g, h :
   /\ Bit(Oct(a, b, c, d, e, f, g, h), 0) = Digit(a)
   /\ Bit(Oct(a, b, c, d, e, f, g, h), 1) = Digit(b)
   /\ Bit(Oct(a, b, c, d, e, f, g, h), 2) = Digit(c)
   /\ Bit(Oct(a, b, c, d, e, f, g, h), 3) = Digit(d)
   /\ Bit(Oct(a, b, c, d, e, f, g, h), 4) = Digit(e)
   /\ Bit(Oct(a, b, c, d, e, f, g, h), 5) = Digit(f)
   /\ Bit(Oct(a, b, c, d, e, f, g, h), 6) = Digit(g)
   /\ Bit(Oct(a, b, c, d, e, f, g, h), 7) = Digit(h)
BY DEF Oct, Nib, Digit, Bit

(* A number below 16 by its bits.                                             *)
LEMMA FourBits == \A a, b, c, d :
  /\ Nib(a, b, c, d) \in Nibble
  /\ Bit(Nib(a, b, c, d), 0) = Digit(a) /\ Bit(Nib(a, b, c, d), 1) = Digit(b)
  /\ Bit(Nib(a, b, c, d), 2) = Digit(c) /\ Bit(Nib(a, b, c, d), 3) = Digit(d)
BY DEF Nib, Bit, Digit, Nibble

(* The exclusive or of two numbers is that of their digits.                   *)
LEMMA XorFour == \A a, b, c, d, e, f, g, h :
  XorNibble[Nib(a, b, c, d)][Nib(e, f, g, h)]
        = Nib(Plus(a, e), Plus(b, f), Plus(c, g), Plus(d, h))
<1> TAKE a, b, c, d, e, f, g, h
<1> DEFINE m == Nib(a, b, c, d)
           n == Nib(e, f, g, h)
<1>1. /\ m \in Nibble
      /\ Bit(m, 0) = Digit(a) /\ Bit(m, 1) = Digit(b) /\ Bit(m, 2) = Digit(c)
            /\ Bit(m, 3) = Digit(d)
      /\ n \in Nibble
      /\ Bit(n, 0) = Digit(e) /\ Bit(n, 1) = Digit(f) /\ Bit(n, 2) = Digit(g)
            /\ Bit(n, 3) = Digit(h)
  BY FourBits
<1> HIDE DEF m, n
<1>2. XorNibble[m][n] = ((Bit(m, 0) + Bit(n, 0)) % 2) * 2^0
      + ((Bit(m, 1) + Bit(n, 1)) % 2) * 2^1
         + ((Bit(m, 2) + Bit(n, 2)) % 2) * 2^2 + ((Bit(m, 3) + Bit(n, 3)) % 2) * 2^3
  BY <1>1 DEF XorNibble
<1>3. \A x, y : (Digit(x) + Digit(y)) % 2 = Digit(Plus(x, y))
  BY DEF Digit, Plus
<1>4. XorNibble[m][n] = Digit(Plus(a, e)) * 2^0 + Digit(Plus(b, f)) * 2^1
      + Digit(Plus(c, g)) * 2^2 + Digit(Plus(d, h)) * 2^3
  BY <1>1, <1>2, <1>3
<1>5. \A p, q, r, s : Digit(p) * 2^0 + Digit(q) * 2^1 + Digit(r) * 2^2 + Digit(s) * 2^3
      = Nib(p, q, r, s)
  BY DEF Digit, Nib
<1> QED BY <1>4, <1>5 DEF m, n

(* The exclusive or of two bytes, bit by bit.                                 *)
LEMMA XorEight == \A a, b, c, d, e, f, g, h, i, j, k, l, m, n, o, p :
  Xor8(Oct(a, b, c, d, e, f, g, h), Oct(i, j, k, l, m, n, o, p))
    = Oct(Plus(a, i), Plus(b, j), Plus(c, k), Plus(d, l),
         Plus(e, m), Plus(f, n), Plus(g, o), Plus(h, p))
<1>1. \A x, y : Xor8(x, y) = 16 * XorNibble[Left(x)][Left(y)] + XorNibble[Right(x)][Right(y)]
  BY DEF Xor8, Left, Right
<1>2. \A a, b, c, d, e, f, g, h :
        16 * Nib(e, f, g, h) + Nib(a, b, c, d) = Oct(a, b, c, d, e, f, g, h)
  BY DEF Oct, Nib, Digit
<1> QED BY <1>1, <1>2, ByteOfBits, XorFour

(* The exclusive or of two registers, bit by bit.                             *)
LEMMA XorSixteen == \A a0, a1, a2, a3, a4, a5, a6, a7, a8, a9, a10, a11, a12, a13, a14, a15,
                       b0, b1, b2, b3, b4, b5, b6, b7, b8, b9, b10, b11, b12, b13, b14, b15 :
  Xor16(Word(a0, a1, a2, a3, a4, a5, a6, a7, a8, a9, a10, a11, a12, a13, a14, a15),
        Word(b0, b1, b2, b3, b4, b5, b6, b7, b8, b9, b10, b11, b12, b13, b14, b15))
    = Word(Plus(a0, b0), Plus(a1, b1), Plus(a2, b2), Plus(a3, b3), Plus(a4, b4), Plus(a5, b5),
          Plus(a6, b6), Plus(a7, b7), Plus(a8, b8), Plus(a9, b9), Plus(a10, b10),
          Plus(a11, b11), Plus(a12, b12), Plus(a13, b13), Plus(a14, b14), Plus(a15, b15))
<1>1. \A x, y : Xor16(x, y) = 256 * Xor8(Top(x), Top(y)) + Xor8(Bottom(x), Bottom(y))
  BY DEF Xor16, Top, Bottom
<1>2. \A b0, b1, b2, b3, b4, b5, b6, b7, b8, b9, b10, b11, b12, b13, b14, b15 :
        256 * Oct(b8, b9, b10, b11, b12, b13, b14, b15) + Oct(b0, b1, b2, b3, b4, b5, b6, b7)
          = Word(b0, b1, b2, b3, b4, b5, b6, b7, b8, b9, b10, b11, b12, b13, b14, b15)
  BY DEF Word, Oct, Nib, Digit
<1> QED BY <1>1, <1>2, WordOfBits, XorEight

(* All bits of a byte in reverse order.                                       *)
LEMMA FlipEight == \A a, b, c, d, e, f, g, h :
  Flip8[Oct(a, b, c, d, e, f, g, h)] = Oct(h, g, f, e, d, c, b, a)
BY DEF Flip8, Bit, Byte, Digit, Oct, Nib

(* All bits of a register in reverse order.                                   *)
LEMMA FlipSixteen == \A b0, b1, b2, b3, b4, b5, b6, b7, b8, b9, b10, b11, b12, b13, b14, b15 :
  Flip16(Word(b0, b1, b2, b3, b4, b5, b6, b7, b8, b9, b10, b11, b12, b13, b14, b15))
    = Word(b15, b14, b13, b12, b11, b10, b9, b8, b7, b6, b5, b4, b3, b2, b1, b0)
<1>1. \A x : Flip16(x) = 256 * Flip8[Bottom(x)] + Flip8[Top(x)]
  BY DEF Flip16, Top, Bottom
<1>2. \A b0, b1, b2, b3, b4, b5, b6, b7, b8, b9, b10, b11, b12, b13, b14, b15 :
        256 * Oct(b8, b9, b10, b11, b12, b13, b14, b15) + Oct(b0, b1, b2, b3, b4, b5, b6, b7)
          = Word(b0, b1, b2, b3, b4, b5, b6, b7, b8, b9, b10, b11, b12, b13, b14, b15)
  BY DEF Word, Oct, Nib, Digit
<1> QED BY <1>1, <1>2, WordOfBits, FlipEight

(* The FPGA's table is linear in the bits of the index (zluudg_crc16ccitt.vhd). *)
LEMMA LutEight == \A i0, i1, i2, i3, i4, i5, i6, i7 :
  Lut[1 + Oct(i0, i1, i2, i3, i4, i5, i6, i7)] =
    Word(Plus(i0, i4), Plus(i1, i5), Plus(i2, i6), Plus(i3, i7),
      i4, Plus(Plus(i0, i4), i5), Plus(Plus(i1, i5), i6), Plus(Plus(i2, i6), i7),
      Plus(i3, i7), i4, i5, i6, Plus(Plus(i0, i4), i7), Plus(i1, i5), Plus(i2, i6),
            Plus(i3, i7))
BY SMTT(120) DEF Lut, Digit, Oct, Nib, Word, Plus

(* The bits that the loop of crc16 feeds back.                                *)
LEMMA FeedbackBits == Feedback = Word(0, 0, 0, 1, 0, 0, 0, 0, 0, 0, 1, 0, 0, 0, 0, 1)
BY DEF Feedback, Word, Oct, Nib, Digit

-------------------------------------------------------------------------------
(* One step of the FPGA's register, and one of the software's.                *)

(* A step of the FPGA's register, bit by bit; i is the index into the table.  *)
LEMMA HardStep ==
  ASSUME NEW m0, NEW m1, NEW m2, NEW m3, NEW m4, NEW m5, NEW m6, NEW m7,
         NEW c0, NEW c1, NEW c2, NEW c3, NEW c4, NEW c5, NEW c6, NEW c7,
         NEW c8, NEW c9, NEW c10, NEW c11, NEW c12, NEW c13, NEW c14, NEW c15,
         NEW i0, NEW i1, NEW i2, NEW i3, NEW i4, NEW i5, NEW i6, NEW i7,
         i0 = Plus(m7, c8),
         i1 = Plus(m6, c9),
         i2 = Plus(m5, c10),
         i3 = Plus(m4, c11),
         i4 = Plus(m3, c12),
         i5 = Plus(m2, c13),
         i6 = Plus(m1, c14),
         i7 = Plus(m0, c15)
  PROVE  NextCrc(Word(c0, c1, c2, c3, c4, c5, c6, c7, c8, c9, c10, c11, c12, c13, c14, c15),
                 Oct(m0, m1, m2, m3, m4, m5, m6, m7))
           = Word(Plus(i0, i4), Plus(i1, i5), Plus(i2, i6), Plus(i3, i7), i4,
                 Plus(Plus(i0, i4), i5), Plus(Plus(i1, i5), i6), Plus(Plus(i2, i6), i7),
                 Plus(Plus(i3, i7), c0), Plus(i4, c1), Plus(i5, c2), Plus(i6, c3),
                 Plus(Plus(Plus(i0, i4), i7), c4), Plus(Plus(i1, i5), c5),
                 Plus(Plus(i2, i6), c6), Plus(Plus(i3, i7), c7))
<1> DEFINE c == Word(c0, c1, c2, c3, c4, c5, c6, c7, c8, c9, c10, c11, c12, c13, c14, c15)
           m == Oct(m0, m1, m2, m3, m4, m5, m6, m7)
           i == Oct(i0, i1, i2, i3, i4, i5, i6, i7)
<1>1. NextCrc(c, m) = Xor16(Lut[1 + Xor8(Flip8[m], Top(c))], Raised(c))
  BY DEF NextCrc, Top, Raised
<1>2. Xor8(Flip8[m], Top(c)) = i
  <2>1. /\ Flip8[m] = Oct(m7, m6, m5, m4, m3, m2, m1, m0)
        /\ Top(c) = Oct(c8, c9, c10, c11, c12, c13, c14, c15)
    BY FlipEight, WordOfBits
  <2>2. Xor8(Flip8[m], Top(c))
        = Oct(Plus(m7, c8), Plus(m6, c9), Plus(m5, c10), Plus(m4, c11), Plus(m3, c12),
        Plus(m2, c13), Plus(m1, c14), Plus(m0, c15))
    BY <2>1, XorEight
  <2> QED BY <2>2
<1>3. Lut[1 + i] = Word(Plus(i0, i4), Plus(i1, i5), Plus(i2, i6), Plus(i3, i7), i4,
      Plus(Plus(i0, i4), i5), Plus(Plus(i1, i5), i6), Plus(Plus(i2, i6), i7), Plus(i3, i7), i4,
      i5, i6, Plus(Plus(i0, i4), i7), Plus(i1, i5), Plus(i2, i6), Plus(i3, i7))
  BY LutEight
<1>4. Raised(c) = Word(0, 0, 0, 0, 0, 0, 0, 0, c0, c1, c2, c3, c4, c5, c6, c7)
  BY WordOfBits
<1>5. Xor16(Lut[1 + i], Raised(c))
      = Word(Plus(Plus(i0, i4), 0), Plus(Plus(i1, i5), 0), Plus(Plus(i2, i6), 0),
      Plus(Plus(i3, i7), 0), Plus(i4, 0), Plus(Plus(Plus(i0, i4), i5), 0),
      Plus(Plus(Plus(i1, i5), i6), 0), Plus(Plus(Plus(i2, i6), i7), 0), Plus(Plus(i3, i7), c0),
      Plus(i4, c1), Plus(i5, c2), Plus(i6, c3), Plus(Plus(Plus(i0, i4), i7), c4),
      Plus(Plus(i1, i5), c5), Plus(Plus(i2, i6), c6), Plus(Plus(i3, i7), c7))
  BY <1>3, <1>4, XorSixteen
<1>6. \A b0, b1, b2, b3, b4, b5, b6, b7, b8, b9, b10, b11, b12, b13, b14, b15 :
        Word(Plus(b0, 0), Plus(b1, 0), Plus(b2, 0), Plus(b3, 0), Plus(b4, 0), Plus(b5, 0),
              Plus(b6, 0), Plus(b7, 0), b8, b9, b10, b11, b12, b13, b14, b15) =
          Word(b0, b1, b2, b3, b4, b5, b6, b7, b8, b9, b10, b11, b12, b13, b14, b15)
  BY DEF Word, Oct, Nib, Digit, Plus
<1> QED BY <1>1, <1>2, <1>5, <1>6

(* One turn of the loop of crc16. *)
Shifted(c, bit) == IF bit # Low(c) THEN Xor16(Half(c), Feedback) ELSE Half(c)

(* A turn of the loop of crc16, bit by bit.                                   *)
LEMMA ShiftBits == \A b0, b1, b2, b3, b4, b5, b6, b7, b8, b9, b10, b11, b12, b13, b14, b15, m :
  Shifted(Word(b0, b1, b2, b3, b4, b5, b6, b7, b8, b9, b10, b11, b12, b13, b14, b15),
        Digit(m)) =
    Word(b1, b2, b3, Plus(b4, Plus(m, b0)), b5, b6, b7, b8, b9, b10, Plus(b11, Plus(m, b0)),
          b12, b13, b14, b15, Plus(m, b0))
<1> TAKE b0, b1, b2, b3, b4, b5, b6, b7, b8, b9, b10, b11, b12, b13, b14, b15, m
<1> DEFINE c == Word(b0, b1, b2, b3, b4, b5, b6, b7, b8, b9, b10, b11, b12, b13, b14, b15)
           h == Word(b1, b2, b3, b4, b5, b6, b7, b8, b9, b10, b11, b12, b13, b14, b15, 0)
<1>1. Low(c) = Digit(b0) /\ Half(c) = h
  BY WordOfBits
<1>2. Xor16(h, Feedback)
      = Word(Plus(b1, 0), Plus(b2, 0), Plus(b3, 0), Plus(b4, 1), Plus(b5, 0), Plus(b6, 0),
      Plus(b7, 0), Plus(b8, 0), Plus(b9, 0), Plus(b10, 0), Plus(b11, 1), Plus(b12, 0),
      Plus(b13, 0), Plus(b14, 0), Plus(b15, 0), Plus(0, 1))
  BY FeedbackBits, XorSixteen
<1>3. CASE Digit(m) = Digit(b0)
  <2>1. Shifted(c, Digit(m)) = h
    BY <1>1, <1>3 DEF Shifted
  <2>2. h = Word(b1, b2, b3, Plus(b4, Plus(m, b0)), b5, b6, b7, b8, b9, b10,
        Plus(b11, Plus(m, b0)), b12, b13, b14, b15, Plus(m, b0))
    BY <1>3 DEF Word, Oct, Nib, Digit, Plus
  <2> QED BY <2>1, <2>2
<1>4. CASE Digit(m) # Digit(b0)
  <2>1. Shifted(c, Digit(m)) = Xor16(h, Feedback)
    BY <1>1, <1>4 DEF Shifted
  <2>2. Word(Plus(b1, 0), Plus(b2, 0), Plus(b3, 0), Plus(b4, 1), Plus(b5, 0), Plus(b6, 0),
        Plus(b7, 0), Plus(b8, 0), Plus(b9, 0), Plus(b10, 0), Plus(b11, 1), Plus(b12, 0),
        Plus(b13, 0), Plus(b14, 0), Plus(b15, 0), Plus(0, 1))
          = Word(b1, b2, b3, Plus(b4, Plus(m, b0)), b5, b6, b7, b8, b9, b10,
                Plus(b11, Plus(m, b0)), b12, b13, b14, b15, Plus(m, b0))
    BY <1>4 DEF Word, Oct, Nib, Digit, Plus
  <2> QED BY <1>2, <2>1, <2>2
<1> QED BY <1>3, <1>4

(* The software's step is eight turns.                                        *)
LEMMA EightTurns ==
  ASSUME NEW byte, \A k \in 0..7 : Bit(byte, k) \in 0..1,
         NEW t0 \in Word16, NEW t1 \in Word16, NEW t2 \in Word16, NEW t3 \in Word16,
         NEW t4 \in Word16, NEW t5 \in Word16, NEW t6 \in Word16, NEW t7 \in Word16, NEW t8,
         t1 = Shifted(t0, Bit(byte, 0)),
         t2 = Shifted(t1, Bit(byte, 1)),
         t3 = Shifted(t2, Bit(byte, 2)),
         t4 = Shifted(t3, Bit(byte, 3)),
         t5 = Shifted(t4, Bit(byte, 4)),
         t6 = Shifted(t5, Bit(byte, 5)),
         t7 = Shifted(t6, Bit(byte, 6)),
         t8 = Shifted(t7, Bit(byte, 7))
  PROVE  SoftNextCrc(t0, byte) = t8
<1> DEFINE shift == [c \in Word16 |-> [bit \in 0..1 |->
                       IF bit # c % 2 THEN Xor16(c \div 2, Feedback) ELSE c \div 2]]
           Turn(g, k) == IF k = 0 THEN t0 ELSE shift[g[k - 1]][Bit(byte, k - 1)]
           after == CHOOSE g : g = [k \in 0..8 |-> Turn(g, k)]
           turns == <<t0, t1, t2, t3, t4, t5, t6, t7, t8>>
           r == [k \in 0..8 |-> turns[k + 1]]
<1>1. SoftNextCrc(t0, byte) = after[8]
  BY DEF SoftNextCrc, SoftShift
<1>2. \A c \in Word16, bit \in 0..1 : shift[c][bit] = Shifted(c, bit)
  BY DEF Shifted, Low, Half
<1> HIDE DEF shift
<1>3. shift[t0][Bit(byte, 0)] = t1
  BY <1>2
<1>4. shift[t1][Bit(byte, 1)] = t2
  BY <1>2
<1>5. shift[t2][Bit(byte, 2)] = t3
  BY <1>2
<1>6. shift[t3][Bit(byte, 3)] = t4
  BY <1>2
<1>7. shift[t4][Bit(byte, 4)] = t5
  BY <1>2
<1>8. shift[t5][Bit(byte, 5)] = t6
  BY <1>2
<1>9. shift[t6][Bit(byte, 6)] = t7
  BY <1>2
<1>10. shift[t7][Bit(byte, 7)] = t8
  BY <1>2
<1>11. r = [k \in 0..8 |-> Turn(r, k)]
  BY <1>3, <1>4, <1>5, <1>6, <1>7, <1>8, <1>9, <1>10
<1>12. after = [k \in 0..8 |-> Turn(after, k)]
  BY <1>11
<1> HIDE DEF after
<1>13. after[0] = t0
  BY <1>12
<1>14. after[1] = t1
  BY <1>12, <1>13, <1>3
<1>15. after[2] = t2
  BY <1>12, <1>14, <1>4
<1>16. after[3] = t3
  BY <1>12, <1>15, <1>5
<1>17. after[4] = t4
  BY <1>12, <1>16, <1>6
<1>18. after[5] = t5
  BY <1>12, <1>17, <1>7
<1>19. after[6] = t6
  BY <1>12, <1>18, <1>8
<1>20. after[7] = t7
  BY <1>12, <1>19, <1>9
<1>21. after[8] = t8
  BY <1>12, <1>20, <1>10
<1> QED BY <1>1, <1>21

(* A step of the software's register, bit by bit; s are the bits fed back.    *)
LEMMA SoftStep ==
  ASSUME NEW c0, NEW c1, NEW c2, NEW c3, NEW c4, NEW c5, NEW c6, NEW c7,
         NEW c8, NEW c9, NEW c10, NEW c11, NEW c12, NEW c13, NEW c14, NEW c15,
         NEW m0, NEW m1, NEW m2, NEW m3, NEW m4, NEW m5, NEW m6, NEW m7,
         NEW s0, NEW s1, NEW s2, NEW s3, NEW s4, NEW s5, NEW s6, NEW s7,
         s0 = Plus(m0, c0),
         s1 = Plus(m1, c1),
         s2 = Plus(m2, c2),
         s3 = Plus(m3, c3),
         s4 = Plus(m4, Plus(c4, s0)),
         s5 = Plus(m5, Plus(c5, s1)),
         s6 = Plus(m6, Plus(c6, s2)),
         s7 = Plus(m7, Plus(c7, s3))
  PROVE  SoftNextCrc(Word(c0, c1, c2, c3, c4, c5, c6, c7, c8, c9, c10, c11, c12, c13, c14, c15),
                     Oct(m0, m1, m2, m3, m4, m5, m6, m7))
           = Word(Plus(c8, s4), Plus(c9, s5), Plus(c10, s6), Plus(Plus(c11, s0), s7),
                 Plus(c12, s1), Plus(c13, s2), Plus(c14, s3), Plus(c15, s4), Plus(s0, s5),
                 Plus(s1, s6), Plus(s2, s7), s3, s4, s5, s6, s7)
<1> DEFINE m == Oct(m0, m1, m2, m3, m4, m5, m6, m7)
           t0 == Word(c0, c1, c2, c3, c4, c5, c6, c7, c8, c9, c10, c11, c12, c13, c14, c15)
           t1 == Word(c1, c2, c3, Plus(c4, s0), c5, c6, c7, c8, c9, c10, Plus(c11, s0), c12,
                 c13, c14, c15, s0)
           t2 == Word(c2, c3, Plus(c4, s0), Plus(c5, s1), c6, c7, c8, c9, c10, Plus(c11, s0),
                 Plus(c12, s1), c13, c14, c15, s0, s1)
           t3 == Word(c3, Plus(c4, s0), Plus(c5, s1), Plus(c6, s2), c7, c8, c9, c10,
                 Plus(c11, s0), Plus(c12, s1), Plus(c13, s2), c14, c15, s0, s1, s2)
           t4 == Word(Plus(c4, s0), Plus(c5, s1), Plus(c6, s2), Plus(c7, s3), c8, c9, c10,
                 Plus(c11, s0), Plus(c12, s1), Plus(c13, s2), Plus(c14, s3), c15, s0, s1, s2,
                 s3)
           t5 == Word(Plus(c5, s1), Plus(c6, s2), Plus(c7, s3), Plus(c8, s4), c9, c10,
                 Plus(c11, s0), Plus(c12, s1), Plus(c13, s2), Plus(c14, s3), Plus(c15, s4), s0,
                 s1, s2, s3, s4)
           t6 == Word(Plus(c6, s2), Plus(c7, s3), Plus(c8, s4), Plus(c9, s5), c10,
                 Plus(c11, s0), Plus(c12, s1), Plus(c13, s2), Plus(c14, s3), Plus(c15, s4),
                 Plus(s0, s5), s1, s2, s3, s4, s5)
           t7 == Word(Plus(c7, s3), Plus(c8, s4), Plus(c9, s5), Plus(c10, s6), Plus(c11, s0),
                 Plus(c12, s1), Plus(c13, s2), Plus(c14, s3), Plus(c15, s4), Plus(s0, s5),
                 Plus(s1, s6), s2, s3, s4, s5, s6)
           t8 == Word(Plus(c8, s4), Plus(c9, s5), Plus(c10, s6), Plus(Plus(c11, s0), s7),
                 Plus(c12, s1), Plus(c13, s2), Plus(c14, s3), Plus(c15, s4), Plus(s0, s5),
                 Plus(s1, s6), Plus(s2, s7), s3, s4, s5, s6, s7)
<1>1. t1 = Shifted(t0, Bit(m, 0))
  BY ShiftBits, BitOfByte
<1>2. t2 = Shifted(t1, Bit(m, 1))
  BY ShiftBits, BitOfByte
<1>3. t3 = Shifted(t2, Bit(m, 2))
  BY ShiftBits, BitOfByte
<1>4. t4 = Shifted(t3, Bit(m, 3))
  BY ShiftBits, BitOfByte
<1>5. t5 = Shifted(t4, Bit(m, 4))
  BY ShiftBits, BitOfByte
<1>6. t6 = Shifted(t5, Bit(m, 5))
  BY ShiftBits, BitOfByte
<1>7. t7 = Shifted(t6, Bit(m, 6))
  BY ShiftBits, BitOfByte
<1>8. t8 = Shifted(t7, Bit(m, 7))
  BY ShiftBits, BitOfByte
<1>9. \A k \in 0..7 : Bit(m, k) \in 0..1
  BY BitOfByte DEF Digit
<1>10. /\ t0 \in Word16 /\ t1 \in Word16 /\ t2 \in Word16 /\ t3 \in Word16
       /\ t4 \in Word16 /\ t5 \in Word16 /\ t6 \in Word16 /\ t7 \in Word16
  BY WordOfBits
<1> HIDE DEF m, t0, t1, t2, t3, t4, t5, t6, t7, t8
<1>11. SoftNextCrc(t0, m) = t8
  BY <1>1, <1>2, <1>3, <1>4, <1>5, <1>6, <1>7, <1>8, <1>9, <1>10, EightTurns
<1> QED BY <1>11 DEF t0, t8, m

(* Every byte is made of bits.                                                *)
LEMMA BitsOfByte ==
  ASSUME NEW n \in Byte
  PROVE  \E a, b, c, d, e, f, g, h \in 0..1 : n = Oct(a, b, c, d, e, f, g, h)
<1>1. ASSUME NEW k \in 0..15
      PROVE  \E a, b, c, d \in 0..1 : k = Nib(a, b, c, d)
  <2> DEFINE a == k % 2
             b == (k \div 2) % 2
             c == (k \div 4) % 2
             d == k \div 8
  <2>1. a \in 0..1 /\ b \in 0..1 /\ c \in 0..1 /\ d \in 0..1
    BY <1>1
  <2>2. k = a + 2 * b + 4 * c + 8 * d
    BY <1>1
  <2> HIDE DEF a, b, c, d
  <2>3. k = Nib(a, b, c, d)
    BY <2>1, <2>2 DEF Nib, Digit
  <2> QED BY <2>1, <2>3
<1> DEFINE lo == n % 16
           hi == n \div 16
<1>2. lo \in 0..15 /\ hi \in 0..15 /\ n = lo + 16 * hi
  BY DEF Byte
<1> HIDE DEF lo, hi
<1>3. PICK a, b, c, d \in 0..1 : lo = Nib(a, b, c, d)
  BY <1>1, <1>2
<1>4. PICK e, f, g, h \in 0..1 : hi = Nib(e, f, g, h)
  BY <1>1, <1>2
<1>5. n = Oct(a, b, c, d, e, f, g, h)
  BY <1>2, <1>3, <1>4 DEF Oct
<1> QED BY <1>5, <1>3, <1>4

(* A register is made of bits, as its bytes are.                              *)
LEMMA BitsOfWord ==
  ASSUME NEW n \in Word16
  PROVE  \E b0, b1, b2, b3, b4, b5, b6, b7, b8, b9, b10, b11, b12, b13, b14, b15 \in 0..1 :
           n = Word(b0, b1, b2, b3, b4, b5, b6, b7, b8, b9, b10, b11, b12, b13, b14, b15)
<1> DEFINE lo == n % 256
           hi == n \div 256
<1>1. lo \in Byte /\ hi \in Byte /\ n = lo + 256 * hi
  BY ByteRange, WordRange
<1> HIDE DEF lo, hi
<1>2. PICK b0, b1, b2, b3, b4, b5, b6, b7 \in 0..1 : lo = Oct(b0, b1, b2, b3, b4, b5, b6, b7)
  BY <1>1, BitsOfByte
<1>3. PICK b8, b9, b10, b11, b12, b13, b14, b15 \in 0..1 :
        hi = Oct(b8, b9, b10, b11, b12, b13, b14, b15)
  BY <1>1, BitsOfByte
<1>4. n = Word(b0, b1, b2, b3, b4, b5, b6, b7, b8, b9, b10, b11, b12, b13, b14, b15)
  BY <1>1, <1>2, <1>3 DEF Word
<1> QED BY <1>2, <1>3, <1>4

(* On the reflected register, the software's step is the FPGA's.              *)
LEMMA SameStep ==
  ASSUME NEW c \in Word16, NEW m \in Byte
  PROVE  NextCrc(c, m) \in Word16 /\ SoftNextCrc(Flip16(c), m) = Flip16(NextCrc(c, m))
<1>1. PICK c0, c1, c2, c3, c4, c5, c6, c7, c8, c9, c10, c11, c12, c13, c14, c15 \in 0..1 :
        c = Word(c0, c1, c2, c3, c4, c5, c6, c7, c8, c9, c10, c11, c12, c13, c14, c15)
  BY BitsOfWord
<1>2. PICK m0, m1, m2, m3, m4, m5, m6, m7 \in 0..1 : m = Oct(m0, m1, m2, m3, m4, m5, m6, m7)
  BY BitsOfByte
<1> DEFINE i0 == Plus(m7, c8)
           i1 == Plus(m6, c9)
           i2 == Plus(m5, c10)
           i3 == Plus(m4, c11)
           i4 == Plus(m3, c12)
           i5 == Plus(m2, c13)
           i6 == Plus(m1, c14)
           i7 == Plus(m0, c15)
           s0 == Plus(m0, c15)
           s1 == Plus(m1, c14)
           s2 == Plus(m2, c13)
           s3 == Plus(m3, c12)
           s4 == Plus(m4, Plus(c11, s0))
           s5 == Plus(m5, Plus(c10, s1))
           s6 == Plus(m6, Plus(c9, s2))
           s7 == Plus(m7, Plus(c8, s3))
<1>3. NextCrc(c, m) = Word(Plus(i0, i4), Plus(i1, i5), Plus(i2, i6), Plus(i3, i7), i4,
      Plus(Plus(i0, i4), i5), Plus(Plus(i1, i5), i6), Plus(Plus(i2, i6), i7),
      Plus(Plus(i3, i7), c0), Plus(i4, c1), Plus(i5, c2), Plus(i6, c3),
      Plus(Plus(Plus(i0, i4), i7), c4), Plus(Plus(i1, i5), c5), Plus(Plus(i2, i6), c6),
      Plus(Plus(i3, i7), c7))
  <2> HIDE DEF i0, i1, i2, i3, i4, i5, i6, i7, s0, s1, s2, s3, s4, s5, s6, s7
  <2>1. i0 = Plus(m7, c8) /\ i1 = Plus(m6, c9) /\ i2 = Plus(m5, c10) /\ i3 = Plus(m4, c11)
        /\ i4 = Plus(m3, c12) /\ i5 = Plus(m2, c13) /\ i6 = Plus(m1, c14) /\ i7 = Plus(m0, c15)
    BY DEF i0, i1, i2, i3, i4, i5, i6, i7
  <2> QED BY <1>1, <1>2, <2>1, HardStep
<1>4. SoftNextCrc(Flip16(c), m)
      = Word(Plus(c7, s4), Plus(c6, s5), Plus(c5, s6), Plus(Plus(c4, s0), s7), Plus(c3, s1),
      Plus(c2, s2), Plus(c1, s3), Plus(c0, s4), Plus(s0, s5), Plus(s1, s6), Plus(s2, s7), s3,
      s4, s5, s6, s7)
  <2> HIDE DEF i0, i1, i2, i3, i4, i5, i6, i7, s0, s1, s2, s3, s4, s5, s6, s7
  <2>1. s0 = Plus(m0, c15) /\ s1 = Plus(m1, c14) /\ s2 = Plus(m2, c13) /\ s3 = Plus(m3, c12)
        /\ s4 = Plus(m4, Plus(c11, s0)) /\ s5 = Plus(m5, Plus(c10, s1))
        /\ s6 = Plus(m6, Plus(c9, s2)) /\ s7 = Plus(m7, Plus(c8, s3))
    BY DEF s0, s1, s2, s3, s4, s5, s6, s7
  <2>2. Flip16(c) = Word(c15, c14, c13, c12, c11, c10, c9, c8, c7, c6, c5, c4, c3, c2, c1, c0)
    BY <1>1, FlipSixteen
  <2> QED BY <1>2, <2>1, <2>2, SoftStep
<1>5. /\ Plus(c7, s4) = Plus(Plus(i3, i7), c7)
      /\ Plus(c6, s5) = Plus(Plus(i2, i6), c6)
      /\ Plus(c5, s6) = Plus(Plus(i1, i5), c5)
      /\ Plus(Plus(c4, s0), s7) = Plus(Plus(Plus(i0, i4), i7), c4)
      /\ Plus(c3, s1) = Plus(i6, c3)
      /\ Plus(c2, s2) = Plus(i5, c2)
      /\ Plus(c1, s3) = Plus(i4, c1)
      /\ Plus(c0, s4) = Plus(Plus(i3, i7), c0)
      /\ Plus(s0, s5) = Plus(Plus(i2, i6), i7)
      /\ Plus(s1, s6) = Plus(Plus(i1, i5), i6)
      /\ Plus(s2, s7) = Plus(Plus(i0, i4), i5)
      /\ s3 = i4
      /\ s4 = Plus(i3, i7)
      /\ s5 = Plus(i2, i6)
      /\ s6 = Plus(i1, i5)
      /\ s7 = Plus(i0, i4)
  BY DEF Plus, Digit
<1> HIDE DEF i0, i1, i2, i3, i4, i5, i6, i7, s0, s1, s2, s3, s4, s5, s6, s7
<1>6. Flip16(NextCrc(c, m))
      = Word(Plus(Plus(i3, i7), c7), Plus(Plus(i2, i6), c6), Plus(Plus(i1, i5), c5),
      Plus(Plus(Plus(i0, i4), i7), c4), Plus(i6, c3), Plus(i5, c2), Plus(i4, c1),
      Plus(Plus(i3, i7), c0), Plus(Plus(i2, i6), i7), Plus(Plus(i1, i5), i6),
      Plus(Plus(i0, i4), i5), i4, Plus(i3, i7), Plus(i2, i6), Plus(i1, i5), Plus(i0, i4))
  BY <1>3, FlipSixteen
<1>7. NextCrc(c, m) \in Word16
  BY <1>3, WordOfBits
<1> QED BY <1>4, <1>5, <1>6, <1>7

(* A byte equal to the lower half of the register shifts it out, and no other *)
(* byte leaves the upper half of the register empty.                          *)
LEMMA ShiftedOut ==
  ASSUME NEW c \in Word16, NEW m \in Byte
  PROVE  /\ SoftNextCrc(c, m) \in Word16
         /\ m = c % 256 => SoftNextCrc(c, m) = c \div 256
         /\ SoftNextCrc(c, m) \in Byte => m = c % 256
<1>1. PICK c0, c1, c2, c3, c4, c5, c6, c7, c8, c9, c10, c11, c12, c13, c14, c15 \in 0..1 :
        c = Word(c0, c1, c2, c3, c4, c5, c6, c7, c8, c9, c10, c11, c12, c13, c14, c15)
  BY BitsOfWord
<1>2. PICK m0, m1, m2, m3, m4, m5, m6, m7 \in 0..1 : m = Oct(m0, m1, m2, m3, m4, m5, m6, m7)
  BY BitsOfByte
<1> DEFINE s0 == Plus(m0, c0)
           s1 == Plus(m1, c1)
           s2 == Plus(m2, c2)
           s3 == Plus(m3, c3)
           s4 == Plus(m4, Plus(c4, s0))
           s5 == Plus(m5, Plus(c5, s1))
           s6 == Plus(m6, Plus(c6, s2))
           s7 == Plus(m7, Plus(c7, s3))
           next == Word(Plus(c8, s4), Plus(c9, s5), Plus(c10, s6), Plus(Plus(c11, s0), s7),
                 Plus(c12, s1), Plus(c13, s2), Plus(c14, s3), Plus(c15, s4), Plus(s0, s5),
                 Plus(s1, s6), Plus(s2, s7), s3, s4, s5, s6, s7)
<1>3. SoftNextCrc(c, m) = next
  <2> HIDE DEF s0, s1, s2, s3, s4, s5, s6, s7
  <2>1. s0 = Plus(m0, c0) /\ s1 = Plus(m1, c1) /\ s2 = Plus(m2, c2) /\ s3 = Plus(m3, c3)
        /\ s4 = Plus(m4, Plus(c4, s0)) /\ s5 = Plus(m5, Plus(c5, s1))
        /\ s6 = Plus(m6, Plus(c6, s2)) /\ s7 = Plus(m7, Plus(c7, s3))
    BY DEF s0, s1, s2, s3, s4, s5, s6, s7
  <2> QED BY <1>1, <1>2, <2>1, SoftStep
<1>4. next \in Word16
  BY WordOfBits
<1>5. c % 256 = Oct(c0, c1, c2, c3, c4, c5, c6, c7)
      /\ c \div 256 = Oct(c8, c9, c10, c11, c12, c13, c14, c15)
  BY <1>1, WordOfBits DEF Bottom, Top
<1> DEFINE Same == m0 = c0 /\ m1 = c1 /\ m2 = c2 /\ m3 = c3 /\ m4 = c4 /\ m5 = c5 /\ m6 = c6
      /\ m7 = c7
<1>6. m = c % 256 <=> Same
  BY <1>2, <1>5 DEF Oct, Nib, Digit
<1>7. ASSUME Same PROVE next = c \div 256
  <2>1. s0 = 0 /\ s1 = 0 /\ s2 = 0 /\ s3 = 0 /\ s4 = 0 /\ s5 = 0 /\ s6 = 0 /\ s7 = 0
    BY <1>7 DEF Plus, Digit
  <2> HIDE DEF s0, s1, s2, s3, s4, s5, s6, s7
  <2>2. next = Oct(c8, c9, c10, c11, c12, c13, c14, c15)
    BY <2>1 DEF Word, Oct, Nib, Digit, Plus
  <2> QED BY <1>5, <2>2
<1>8. ASSUME next \in Byte PROVE Same
  <2>1. Top(next) = Oct(Plus(s0, s5), Plus(s1, s6), Plus(s2, s7), s3, s4, s5, s6, s7)
    BY WordOfBits
  <2>2. Top(next) = 0
    <3> HIDE DEF next
    <3> QED BY <1>8, ByteRange DEF Top
  <2>3. Digit(Plus(s0, s5)) = 0 /\ Digit(Plus(s1, s6)) = 0 /\ Digit(Plus(s2, s7)) = 0
        /\ Digit(s3) = 0 /\ Digit(s4) = 0 /\ Digit(s5) = 0 /\ Digit(s6) = 0 /\ Digit(s7) = 0
    <3> HIDE DEF s0, s1, s2, s3, s4, s5, s6, s7
    <3>1. \A i, j, k, l, n, o, p, r : Oct(i, j, k, l, n, o, p, r) = 0 =>
            /\ Digit(i) = 0 /\ Digit(j) = 0 /\ Digit(k) = 0 /\ Digit(l) = 0
            /\ Digit(n) = 0 /\ Digit(o) = 0 /\ Digit(p) = 0 /\ Digit(r) = 0
      BY DEF Oct, Nib, Digit
    <3> QED BY <2>1, <2>2, <3>1
  <2> QED BY <2>3 DEF Digit, Plus
<1> HIDE DEF next, Same
<1> QED BY <1>3, <1>4, <1>6, <1>7, <1>8

(* A zero byte leaves an empty register empty.                                *)
LEMMA ZeroStep == SoftNextCrc(0, 0) = 0 /\ Flip16(0) = 0 /\ 0 \in Word16 /\ 0 \in Byte
<1>1. 0 \in Word16 /\ 0 \in Byte /\ 0 = 0 % 256 /\ 0 = 0 \div 256
  BY WordRange, ByteRange
<1>2. SoftNextCrc(0, 0) = 0
  BY <1>1, ShiftedOut
<1>3. Flip16(0) = 0
  BY <1>1 DEF Flip16, Flip8, Bit
<1> QED BY <1>1, <1>2, <1>3

(* Only an empty register is empty with its bits in reverse order.            *)
LEMMA FlippedZero == ASSUME NEW h \in Word16 PROVE Flip16(h) = 0 => h = 0
<1>1. PICK b0, b1, b2, b3, b4, b5, b6, b7, b8, b9, b10, b11, b12, b13, b14, b15 \in 0..1 :
        h = Word(b0, b1, b2, b3, b4, b5, b6, b7, b8, b9, b10, b11, b12, b13, b14, b15)
  BY BitsOfWord
<1> SUFFICES ASSUME Flip16(h) = 0 PROVE h = 0
  OBVIOUS
<1>2. Word(b15, b14, b13, b12, b11, b10, b9, b8, b7, b6, b5, b4, b3, b2, b1, b0) = 0
  BY <1>1, FlipSixteen
<1>3. \A a, b, c, d, e, f, g, i : Oct(a, b, c, d, e, f, g, i) \in Nat
        /\ (Oct(a, b, c, d, e, f, g, i) = 0 <=> Oct(i, g, f, e, d, c, b, a) = 0)
  BY DEF Oct, Nib, Digit
<1>4. Oct(b15, b14, b13, b12, b11, b10, b9, b8) = 0 /\ Oct(b7, b6, b5, b4, b3, b2, b1, b0) = 0
  <2> DEFINE lo == Oct(b15, b14, b13, b12, b11, b10, b9, b8)
             hi == Oct(b7, b6, b5, b4, b3, b2, b1, b0)
  <2>1. lo \in Nat /\ hi \in Nat
    BY <1>3
  <2>2. lo + 256 * hi = 0
    BY <1>2 DEF Word
  <2> HIDE DEF lo, hi
  <2>3. lo = 0 /\ hi = 0
    BY <2>1, <2>2
  <2> QED BY <2>3 DEF lo, hi
<1>5. Oct(b0, b1, b2, b3, b4, b5, b6, b7) = 0 /\ Oct(b8, b9, b10, b11, b12, b13, b14, b15) = 0
  BY <1>3, <1>4
<1> QED BY <1>1, <1>5 DEF Word

-------------------------------------------------------------------------------
(* Checksums of whole frames: folds over their bytes.                         *)

(* Induction over a set of numbers: were n the first left out of S, the map    *)
(* k |-> k + 1 would fit the members of S up to n into one place less.         *)
LEMMA SetInduction ==
  ASSUME NEW S, 0 \in S, \A k \in Nat : k \in S => k + 1 \in S, NEW n \in Nat
  PROVE  n \in S
<1> SUFFICES ASSUME n \notin S PROVE FALSE
  OBVIOUS
<1> DEFINE A == S \cap (0..n)
           f == [k \in A |-> k + 1]
<1>1. IsFiniteSet(A)
  <2>1. IsFiniteSet(0..n)
    BY FS_Interval
  <2>2. A \in SUBSET (0..n)
    OBVIOUS
  <2> HIDE DEF A
  <2> QED BY <2>1, <2>2, FS_Subset
<1>2. f \in [A -> A \ {0}]
  OBVIOUS
<1>3. 0 \in A
  OBVIOUS
<1>4. \A x, y \in A : x # y => f[x] # f[y]
  OBVIOUS
<1> HIDE DEF A, f
<1>5. IsFiniteSet(A \ {0}) /\ Cardinality(A \ {0}) = Cardinality(A) - 1
  BY <1>1, <1>3, FS_RemoveElement
<1>6. Cardinality(A) \in Nat
  BY <1>1, FS_CardinalityType
<1>7. Cardinality(A \ {0}) < Cardinality(A)
  BY <1>5, <1>6
<1>8. \E x, y \in A : x # y /\ f[x] = f[y]
  BY <1>1, <1>2, <1>5, <1>7, FS_PigeonHole
<1> QED BY <1>4, <1>8

(* A fold over n elements: its value after each of them.                       *)
IsFold(g, step, s, n) ==
  /\ g \in [0..n -> Word16] /\ g[0] = 0
  /\ \A k \in 1..n : g[k] = step[g[k - 1]][s[k]]

(* There is a fold over every sequence of bytes.                              *)
LEMMA FoldExists ==
  ASSUME NEW step \in [Word16 -> [Byte -> Word16]], NEW s \in Seq(Byte),
         NEW n \in Nat, n <= Len(s)
  PROVE  \E g : IsFold(g, step, s, n)
<1> DEFINE S == {m \in Nat : m <= Len(s) => \E g : IsFold(g, step, s, m)}
<1>1. 0 \in S
  <2> DEFINE g == [k \in 0..0 |-> 0]
  <2>1. 0 \in Word16
    BY WordRange
  <2>2. g \in [0..0 -> Word16] /\ g[0] = 0
    BY <2>1
  <2>3. 1..0 = {}
    OBVIOUS
  <2> HIDE DEF g
  <2>4. IsFold(g, step, s, 0)
    BY <2>2, <2>3 DEF IsFold
  <2> QED BY <2>4
<1>2. ASSUME NEW k \in Nat, k \in S PROVE k + 1 \in S
  <2> SUFFICES ASSUME k + 1 <= Len(s) PROVE \E g : IsFold(g, step, s, k + 1)
    OBVIOUS
  <2>1. PICK g : IsFold(g, step, s, k)
    BY <1>2
  <2> DEFINE v == step[g[k]][s[k + 1]]
             h == [i \in 0..(k + 1) |-> IF i = k + 1 THEN v ELSE g[i]]
  <2>2. v \in Word16
    <3>1. g[k] \in Word16
      BY <2>1 DEF IsFold
    <3>2. s[k + 1] \in Byte
      OBVIOUS
    <3> QED BY <3>1, <3>2
  <2> HIDE DEF v
  <2>3. h \in [0..(k + 1) -> Word16] /\ h[0] = 0
    BY <2>1, <2>2 DEF IsFold
  <2>4. ASSUME NEW i \in 1..(k + 1) PROVE h[i] = step[h[i - 1]][s[i]]
    <3>1. h[i - 1] = g[i - 1]
      OBVIOUS
    <3>2. CASE i = k + 1
      BY <3>1, <3>2 DEF v
    <3>3. CASE i # k + 1
      <4>1. i \in 1..k /\ h[i] = g[i]
        BY <3>3
      <4> QED BY <2>1, <3>1, <4>1 DEF IsFold
    <3> QED BY <3>2, <3>3
  <2> HIDE DEF h
  <2> QED BY <2>3, <2>4 DEF IsFold
<1>3. n \in S
  <2> HIDE DEF S
  <2> QED BY <1>1, <1>2, SetInduction
<1> QED BY <1>3

(* Functions that agree at 0, and at each number if at the one before it.      *)
LEMMA Agreement ==
  ASSUME NEW g, NEW h, NEW m \in Nat, g[0] = h[0],
         \A k \in Nat : k < m /\ g[k] = h[k] => g[k + 1] = h[k + 1]
  PROVE  g[m] = h[m]
<1> DEFINE S == {k \in Nat : k <= m => g[k] = h[k]}
<1>1. 0 \in S
  OBVIOUS
<1>2. ASSUME NEW k \in Nat, k \in S PROVE k + 1 \in S
  BY <1>2
<1>3. m \in S
  <2> HIDE DEF S
  <2> QED BY <1>1, <1>2, SetInduction
<1> QED BY <1>3

SameUpTo(s, t, n) == \A k \in 1..n : s[k] = t[k]

(* A fold does not depend on the elements after those it is over.              *)
LEMMA FoldsAgree ==
  ASSUME NEW step, NEW s, NEW t, NEW g, NEW h, NEW m \in Nat, NEW n \in Nat,
         IsFold(g, step, s, m), IsFold(h, step, t, n), m <= n,
         SameUpTo(s, t, m)
  PROVE  g[m] = h[m]
<1>1. g[0] = h[0]
  BY DEF IsFold
<1>2. ASSUME NEW k \in Nat, k < m, g[k] = h[k] PROVE g[k + 1] = h[k + 1]
  <2> DEFINE j == k + 1
  <2>1. j \in 1..m /\ j \in 1..n /\ j - 1 = k
    BY <1>2
  <2> HIDE DEF j
  <2>2. g[j] = step[g[k]][s[j]] /\ h[j] = step[h[k]][t[j]] /\ s[j] = t[j]
    BY <2>1 DEF IsFold, SameUpTo
  <2> QED BY <1>2, <2>2 DEF j
<1> QED BY <1>1, <1>2, Agreement

SoftTable == [c \in Word16 |-> [b \in Byte |-> SoftNextCrc(c, b)]]
HardTable == [c \in Word16 |-> [b \in Byte |-> NextCrc(c, b)]]

(* The software's step as a function.                                         *)
LEMMA SoftIsStep ==
  /\ SoftTable \in [Word16 -> [Byte -> Word16]]
  /\ \A c \in Word16, b \in Byte : SoftTable[c][b] = SoftNextCrc(c, b)
BY ShiftedOut DEF SoftTable

(* The FPGA's step as a function.                                             *)
LEMMA HardIsStep ==
  /\ HardTable \in [Word16 -> [Byte -> Word16]]
  /\ \A c \in Word16, b \in Byte : HardTable[c][b] = NextCrc(c, b)
BY SameStep DEF HardTable

(* The checksum of a frame is the fold of the steps over it.                  *)
LEMMA SoftFold ==
  ASSUME NEW s \in Seq(Byte)
  PROVE  \E g : IsFold(g, SoftTable, s, Len(s)) /\ g[Len(s)] = SoftCrc16(s)
<1> DEFINE Turn(g, i) == IF i = 0 THEN 0 ELSE SoftNextCrc(g[i - 1], s[i])
           after == CHOOSE g : g = [i \in 0..Len(s) |-> Turn(g, i)]
<1>1. SoftCrc16(s) = after[Len(s)]
  BY DEF SoftCrc16
<1>2. PICK g : IsFold(g, SoftTable, s, Len(s))
  <2>1. Len(s) \in Nat /\ Len(s) <= Len(s)
    OBVIOUS
  <2>2. \A n \in Nat : n <= Len(s) => \E g : IsFold(g, SoftTable, s, n)
    BY SoftIsStep, FoldExists
  <2> QED BY <2>1, <2>2, Zenon
<1>3. ASSUME NEW i \in 1..Len(s) PROVE g[i] = SoftNextCrc(g[i - 1], s[i])
  <2>1. g[i - 1] \in Word16 /\ s[i] \in Byte
    BY <1>2 DEF IsFold
  <2>2. g[i] = SoftTable[g[i - 1]][s[i]]
    BY <1>2 DEF IsFold
  <2> QED BY <2>1, <2>2, SoftIsStep
<1>4. g = [i \in 0..Len(s) |-> Turn(g, i)]
  <2>1. g = [i \in 0..Len(s) |-> g[i]]
    BY <1>2 DEF IsFold
  <2>2. \A i \in 0..Len(s) : g[i] = Turn(g, i)
    BY <1>2, <1>3 DEF IsFold
  <2> QED BY <2>1, <2>2
<1>5. after = [i \in 0..Len(s) |-> Turn(after, i)]
  BY <1>4
<1> HIDE DEF after
<1>6. Len(s) \in Nat
  OBVIOUS
<1>7. g[0] = after[0]
  BY <1>2, <1>5, <1>6 DEF IsFold
<1>8. ASSUME NEW k \in Nat, k < Len(s), g[k] = after[k] PROVE g[k + 1] = after[k + 1]
  <2> DEFINE j == k + 1
  <2>1. j \in 1..Len(s) /\ j - 1 = k /\ j # 0 /\ j \in 0..Len(s)
    BY <1>8
  <2> HIDE DEF j
  <2>2. g[j] = SoftNextCrc(g[k], s[j])
    BY <2>1, <1>3
  <2>3. after[j] = SoftNextCrc(after[k], s[j])
    BY <2>1, <1>5
  <2> QED BY <2>2, <2>3, <1>8 DEF j
<1>9. g[Len(s)] = after[Len(s)]
  BY <1>6, <1>7, <1>8, Agreement
<1> QED BY <1>1, <1>2, <1>9

(* The same for the FPGA's checksum.                                          *)
LEMMA HardFold ==
  ASSUME NEW s \in Seq(Byte)
  PROVE  \E g : IsFold(g, HardTable, s, Len(s)) /\ g[Len(s)] = HardCrc16(s)
<1> DEFINE Turn(g, i) == IF i = 0 THEN 0 ELSE [c \in Word16 |-> NextCrc(c, s[i])][g[i - 1]]
           after == CHOOSE g : g = [i \in 0..Len(s) |-> Turn(g, i)]
<1>1. HardCrc16(s) = after[Len(s)]
  BY DEF HardCrc16
<1>2. PICK g : IsFold(g, HardTable, s, Len(s))
  <2>1. Len(s) \in Nat /\ Len(s) <= Len(s)
    OBVIOUS
  <2>2. \A n \in Nat : n <= Len(s) => \E g : IsFold(g, HardTable, s, n)
    BY HardIsStep, FoldExists
  <2> QED BY <2>1, <2>2, Zenon
<1>3. ASSUME NEW i \in 1..Len(s)
      PROVE  g[i] = NextCrc(g[i - 1], s[i]) /\ g[i - 1] \in Word16
  <2>1. g[i - 1] \in Word16 /\ s[i] \in Byte
    BY <1>2 DEF IsFold
  <2>2. g[i] = HardTable[g[i - 1]][s[i]]
    BY <1>2 DEF IsFold
  <2> QED BY <2>1, <2>2, HardIsStep
<1>4. g = [i \in 0..Len(s) |-> Turn(g, i)]
  <2>1. g = [i \in 0..Len(s) |-> g[i]]
    BY <1>2 DEF IsFold
  <2>2. \A i \in 0..Len(s) : g[i] = Turn(g, i)
    BY <1>2, <1>3 DEF IsFold
  <2> QED BY <2>1, <2>2
<1>5. after = [i \in 0..Len(s) |-> Turn(after, i)]
  BY <1>4
<1> HIDE DEF after
<1>6. Len(s) \in Nat
  OBVIOUS
<1>7. g[0] = after[0]
  BY <1>2, <1>5, <1>6 DEF IsFold
<1>8. ASSUME NEW k \in Nat, k < Len(s), g[k] = after[k] PROVE g[k + 1] = after[k + 1]
  <2> DEFINE j == k + 1
  <2>1. j \in 1..Len(s) /\ j - 1 = k /\ j # 0 /\ j \in 0..Len(s)
    BY <1>8
  <2> HIDE DEF j
  <2>2. g[j] = NextCrc(g[k], s[j]) /\ after[k] \in Word16
    BY <2>1, <1>3, <1>8
  <2>3. after[j] = NextCrc(after[k], s[j])
    BY <2>1, <2>2, <1>5
  <2> QED BY <2>2, <2>3, <1>8 DEF j
<1>9. g[Len(s)] = after[Len(s)]
  BY <1>6, <1>7, <1>8, Agreement
<1> QED BY <1>1, <1>2, <1>9

(* A checksum has 16 bits.                                                    *)
LEMMA SoftIsWord ==
  ASSUME NEW s \in Seq(Byte)
  PROVE  SoftCrc16(s) \in Word16
<1>1. PICK g : IsFold(g, SoftTable, s, Len(s)) /\ g[Len(s)] = SoftCrc16(s)
  BY SoftFold
<1>2. Len(s) \in Nat
  OBVIOUS
<1> QED BY <1>1, <1>2 DEF IsFold

(* One more byte is one more step.                                            *)
LEMMA SoftAppend ==
  ASSUME NEW s \in Seq(Byte), NEW b \in Byte
  PROVE  SoftCrc16(Append(s, b)) = SoftNextCrc(SoftCrc16(s), b)
<1> DEFINE t == Append(s, b)
           n == Len(s)
           m == Len(t)
<1>1. n \in Nat /\ m \in Nat
  OBVIOUS
<1>2. t \in Seq(Byte) /\ m = n + 1 /\ t[m] = b /\ SameUpTo(s, t, n)
  BY DEF SameUpTo
<1> HIDE DEF t
<1>3. PICK g : IsFold(g, SoftTable, s, n) /\ g[n] = SoftCrc16(s)
  BY <1>1, SoftFold
<1>4. PICK h : IsFold(h, SoftTable, t, m) /\ h[m] = SoftCrc16(t)
  BY <1>1, <1>2, SoftFold
<1> HIDE DEF n, m
<1>5. g[n] = h[n]
  <2>1. n <= m
    BY <1>1, <1>2
  <2>2. IsFold(g, SoftTable, s, n) /\ IsFold(h, SoftTable, t, m) /\ SameUpTo(s, t, n)
    BY <1>2, <1>3, <1>4
  <2>3. n \in Nat /\ m \in Nat
    BY <1>1
  <2>4. \A i, j \in Nat : IsFold(g, SoftTable, s, i) /\ IsFold(h, SoftTable, t, j)
        /\ SameUpTo(s, t, i) /\ i <= j => g[i] = h[i]
    BY FoldsAgree
  <2> QED BY <2>1, <2>2, <2>3, <2>4
<1>6. g[n] \in Word16
  BY <1>1, <1>3 DEF IsFold
<1>7. m \in 1..m /\ m - 1 = n
  BY <1>1, <1>2
<1>8. h[m] = SoftTable[h[n]][t[m]]
  BY <1>4, <1>7 DEF IsFold
<1>9. h[m] = SoftNextCrc(h[n], b)
  BY <1>2, <1>5, <1>6, <1>8, SoftIsStep
<1> QED BY <1>1, <1>3, <1>4, <1>5, <1>6, <1>9 DEF t

(* The two checksums of any frame are the same but for the order of the bits: the *)
(* table of the FPGA (zluudg_crc16ccitt.vhd) computes what the loop of the software *)
(* blocks does (dummycoord_impl.cc).                                          *)
THEOREM SameCrc ==
  ASSUME NEW s \in Seq(Byte)
  PROVE  HardCrc16(s) \in Word16 /\ SoftCrc16(s) = Flip16(HardCrc16(s))
<1>1. PICK g : IsFold(g, SoftTable, s, Len(s)) /\ g[Len(s)] = SoftCrc16(s)
  BY SoftFold
<1>2. PICK h : IsFold(h, HardTable, s, Len(s)) /\ h[Len(s)] = HardCrc16(s)
  BY HardFold
<1> DEFINE n == Len(s)
           f == [k \in 0..n |-> Flip16(h[k])]
<1>3. n \in Nat
  OBVIOUS
<1> HIDE DEF n
<1>4. g[0] = f[0]
  BY <1>1, <1>2, <1>3, ZeroStep DEF IsFold, n
<1>5. ASSUME NEW k \in Nat, k < n, g[k] = f[k] PROVE g[k + 1] = f[k + 1]
  <2> DEFINE j == k + 1
  <2>1. j \in 1..n /\ j - 1 = k /\ j \in 0..n /\ k \in 0..n
    BY <1>3, <1>5
  <2> HIDE DEF j
  <2>2. s[j] \in Byte
    BY <2>1 DEF n
  <2>3. g[k] = Flip16(h[k]) /\ g[k] \in Word16 /\ h[k] \in Word16
    BY <1>1, <1>2, <1>5, <2>1 DEF IsFold, n
  <2>4. g[j] = SoftNextCrc(g[k], s[j]) /\ h[j] = NextCrc(h[k], s[j])
    BY <1>1, <1>2, <2>1, <2>2, <2>3, SoftIsStep, HardIsStep DEF IsFold, n
  <2>5. g[j] = Flip16(h[j])
    BY <2>2, <2>3, <2>4, SameStep
  <2> QED BY <2>1, <2>5 DEF j
<1>6. g[n] = f[n]
  <2> HIDE DEF f
  <2> QED BY <1>3, <1>4, <1>5, Agreement
<1>7. h[n] \in Word16
  BY <1>2, <1>3 DEF IsFold, n
<1> QED BY <1>1, <1>2, <1>3, <1>6, <1>7 DEF n

-------------------------------------------------------------------------------
(* Invariants of the host's frames.                                           *)

(* An empty frame leaves the register empty.                                  *)
LEMMA SoftEmpty == SoftCrc16(<<>>) = 0
<1>1. <<>> \in Seq(Byte) /\ Len(<<>>) = 0
  OBVIOUS
<1>2. PICK g : IsFold(g, SoftTable, <<>>, 0) /\ g[0] = SoftCrc16(<<>>)
  BY <1>1, SoftFold
<1> QED BY <1>2 DEF IsFold

(* What is appended to a frame is shifted into the register byte by byte.      *)
LEMMA SoftTwoMore ==
  ASSUME NEW s \in Seq(Byte), NEW a \in Byte, NEW b \in Byte
  PROVE  SoftCrc16(s \o <<a, b>>) = SoftNextCrc(SoftNextCrc(SoftCrc16(s), a), b)
<1>1. s \o <<a, b>> = Append(Append(s, a), b) /\ Append(s, a) \in Seq(Byte)
  OBVIOUS
<1>2. SoftCrc16(Append(s, a)) = SoftNextCrc(SoftCrc16(s), a)
  BY SoftAppend
<1>3. SoftCrc16(Append(Append(s, a), b)) = SoftNextCrc(SoftCrc16(Append(s, a)), b)
  BY <1>1, SoftAppend
<1> QED BY <1>1, <1>2, <1>3, Zenon

(* The bytes of a checksum.                                                   *)
LEMMA HalvesOfWord ==
  ASSUME NEW c \in Word16
  PROVE  /\ c % 256 \in Byte /\ c \div 256 \in Byte /\ (c \div 2) % 256 \in Byte
         /\ c \div 256 \in Word16
         /\ (c \div 256) % 256 = c \div 256 /\ (c \div 256) \div 256 = 0
         /\ c \div 256 = 0 => c \in Byte /\ c % 256 = c
BY WordRange, ByteRange

(* Two bytes after a frame leave an empty register if and only if they are its *)
(* checksum, low byte first.                                                   *)
LEMMA GoodChecksum ==
  ASSUME NEW s \in Seq(Byte), NEW b \in Byte
  PROVE  LET crc == SoftCrc16(s)
         IN  SoftCrc16(s \o <<crc % 256, b>>) = 0 <=> b = crc \div 256
<1> DEFINE crc == SoftCrc16(s)
           lo == crc % 256
           hi == crc \div 256
<1>1. crc \in Word16
  BY SoftIsWord
<1>2. lo \in Byte /\ hi \in Word16 /\ hi % 256 = hi /\ hi \div 256 = 0
  BY <1>1, HalvesOfWord
<1>3. SoftNextCrc(crc, lo) = hi
  BY <1>1, <1>2, ShiftedOut
<1>4. SoftCrc16(s \o <<lo, b>>) = SoftNextCrc(hi, b)
  BY <1>2, <1>3, SoftTwoMore
<1> HIDE DEF crc, lo, hi
<1>5. SoftNextCrc(hi, b) = 0 <=> b = hi
  BY <1>2, ShiftedOut, ZeroStep
<1> QED BY <1>4, <1>5 DEF crc, lo, hi

(* What the receive mode of softcrc takes away.                               *)
LEMMA FrontOfFrame ==
  ASSUME NEW s \in Seq(Byte), NEW a \in Byte, NEW b \in Byte
  PROVE  SubSeq(s \o <<a, b>>, 1, Len(s \o <<a, b>>) - 2) = s
OBVIOUS

(* Frames of at most two bytes, byte by byte.                                 *)
LEMMA ShortFrame ==
  ASSUME NEW s \in Seq(Byte)
  PROVE  /\ <<>> \in Seq(Byte) /\ DOMAIN s = 1..Len(s)
         /\ Len(s) <= 2 => Len(s) = 0 \/ Len(s) = 1 \/ Len(s) = 2
         /\ Len(s) = 1 => s[1] \in Byte /\ s = Append(<<>>, s[1])
         /\ Len(s) = 2 => s[1] \in Byte /\ s[2] \in Byte /\ s = Append(Append(<<>>, s[1]), s[2])
<1>1. <<>> \in Seq(Byte) /\ DOMAIN s = 1..Len(s)
  OBVIOUS
<1>2. Len(s) = 1 => s[1] \in Byte /\ s = Append(<<>>, s[1])
  OBVIOUS
<1>3. Len(s) = 2 => s[1] \in Byte /\ s[2] \in Byte /\ s = Append(Append(<<>>, s[1]), s[2])
  OBVIOUS
<1>4. Len(s) <= 2 => Len(s) = 0 \/ Len(s) = 1 \/ Len(s) = 2
  <2>1. Len(s) \in Nat
    OBVIOUS
  <2>2. \A n \in Nat : n <= 2 => n = 0 \/ n = 1 \/ n = 2
    OBVIOUS
  <2> QED BY <2>1, <2>2, Zenon
<1> QED BY <1>1, <1>2, <1>3, <1>4

(* The FPGA and softcrc find the same frames undamaged.                        *)
LEMMA SameVerdict ==
  ASSUME NEW s \in Seq(Byte)
  PROVE  HardCrc16(s) = 0 <=> SoftCrc16(s) = 0
<1> QED BY SameCrc, FlippedZero, ZeroStep

(* Bytes are only added to short frames, and only a beacon is sent. The number *)
(* of the next beacon, as a byte, is one more than that of the commands heard. *)
Numbered ==
    /\ requests \in Nat /\ _macBsn \in Char
    /\ ToByte(_macBsn) = (requests + 1) % 256
    /\ Sent <=> requests > 0
    /\ Sent => \E bsn \in Char : bytes = Beacon(bsn) /\ ToByte(bsn) = requests % 256

BeaconInv == bytes \in Seq(Byte) /\ Numbered

LEMMA BuildStep ==
    ASSUME HostAssumption, BeaconInv, Build
    PROVE  BeaconInv'
<1>1. /\ \E b \in Byte : bytes' = Append(bytes, b)
      /\ Len(bytes) <= 2 /\ _macBsn' = _macBsn /\ requests' = requests
  <2>1. CASE FirstTwo
    BY <2>1 DEF Build, FirstTwo, Feed, BeaconInv
  <2>2. CASE Third
    BY <2>2 DEF Build, Third, Feed, Byte, BeaconInv
  <2> QED BY <2>1, <2>2 DEF Build, Next
<1>2. bytes' \in Seq(Byte) /\ Len(bytes') <= 3
  BY <1>1 DEF BeaconInv
<1>3. ~Sent /\ ~Sent'
  BY <1>1, <1>2 DEF Sent, BeaconInv
<1>4. ToByte(_macBsn') = ToByte(_macBsn)
  BY <1>1
<1> QED BY <1>1, <1>2, <1>3, <1>4 DEF BeaconInv, Numbered

(* dummycoord answers the frames that the history counts.                      *)
LEMMA AnswersCounted ==
    ASSUME FramesAssumption, NEW pdu \in Received
    PROVE  (\E i \in DOMAIN SoftcrcRx(pdu) : IsAnswered(SoftcrcRx(pdu)[i])) <=> IsRequest(pdu)
<1>1. pdu \in Seq(Byte) /\ Len(pdu) >= 3
  BY DEF FramesAssumption
<1>2. HardCrc16(pdu) = 0 <=> SoftCrc16(pdu) = 0
  BY <1>1, SameVerdict
<1> DEFINE front == SubSeq(pdu, 1, Len(pdu) - 2)
<1>3. front[1] = pdu[1]
  BY <1>1
<1>4. IsAnswered(front) <=> pdu[1] % 8 = 3
  BY <1>3 DEF IsAnswered, frame_type, FRAME_TYPE_MASK, COMMAND_FRAME
<1> HIDE DEF front
<1>5. CASE SoftCrc16(pdu) = 0
  <2>1. SoftcrcRx(pdu) = <<front>>
    BY <1>5 DEF SoftcrcRx, front
  <2>2. DOMAIN SoftcrcRx(pdu) = {1} /\ SoftcrcRx(pdu)[1] = front
    BY <2>1
  <2> QED BY <1>2, <1>4, <1>5, <2>2, Zenon DEF IsRequest
<1>6. CASE SoftCrc16(pdu) # 0
  <2>1. DOMAIN SoftcrcRx(pdu) = {}
    BY <1>6 DEF SoftcrcRx
  <2> QED BY <1>2, <1>6, <2>1, Zenon DEF IsRequest
<1> QED BY <1>5, <1>6

LEMMA ReceiveStep ==
    ASSUME HostAssumption, FramesAssumption, BeaconInv, Receive
    PROVE  BeaconInv'
<1>1. PICK pdu \in Received :
        /\ Handle(pdu)
        /\ requests' = requests + (IF IsRequest(pdu) THEN 1 ELSE 0)
  BY DEF Receive
<1>2. CASE IsRequest(pdu)
  <2>1. bytes' = Beacon(_macBsn) /\ _macBsn' = NextBsn(_macBsn) /\ requests' = requests + 1
    BY <1>1, <1>2, AnswersCounted DEF Handle
  <2>2. requests \in Nat /\ _macBsn \in Char /\ ToByte(_macBsn) = (requests + 1) % 256
    BY DEF BeaconInv, Numbered
  <2>3. bytes' \in Seq(Byte) /\ Sent'
    BY <2>1, <2>2, NumberOfBeacon DEF Sent
  <2>4. _macBsn' \in Char /\ ToByte(_macBsn') = (((requests + 1) % 256) + 1) % 256
    BY <2>1, <2>2, NextChar
  <2>5. /\ (((requests + 1) % 256) + 1) % 256 = (requests' + 1) % 256
        /\ requests' \in Nat /\ requests' > 0
    BY <2>1, <2>2
  <2>6. \E bsn \in Char : bytes' = Beacon(bsn) /\ ToByte(bsn) = requests' % 256
    BY <2>1, <2>2
  <2> QED BY <2>3, <2>4, <2>5, <2>6 DEF BeaconInv, Numbered
<1>3. CASE ~IsRequest(pdu)
  <2>1. bytes' = bytes /\ _macBsn' = _macBsn
    BY <1>1, <1>3, AnswersCounted DEF Handle, vars
  <2>2. requests' = requests
    BY <1>1, <1>3 DEF BeaconInv, Numbered
  <2> QED BY <2>1, <2>2 DEF BeaconInv, Numbered, Sent
<1> QED BY <1>2, <1>3

LEMMA Invariance == HostAssumption /\ FramesAssumption => (HostSpec => []BeaconInv)
<1> SUFFICES ASSUME HostAssumption, FramesAssumption PROVE HostSpec => []BeaconInv
  OBVIOUS
<1>1. HostInit => BeaconInv
  <2> SUFFICES ASSUME HostInit PROVE BeaconInv
    OBVIOUS
  <2>1. bytes = <<>> /\ _macBsn = 1 /\ requests = 0
    BY DEF HostInit, Init
  <2>2. 1 \in Char
    BY DEF HostAssumption, Char
  <2> QED BY <2>1, <2>2 DEF BeaconInv, Numbered, Sent, ToByte
<1>2. BeaconInv /\ [HostNext]_hostVars => BeaconInv'
  <2> SUFFICES ASSUME BeaconInv, [HostNext]_hostVars PROVE BeaconInv'
    OBVIOUS
  <2>1. CASE Build
    BY <2>1, BuildStep
  <2>2. CASE Receive
    BY <2>2, ReceiveStep
  <2>3. CASE UNCHANGED hostVars
    BY <2>3 DEF hostVars, vars, BeaconInv, Numbered, Sent
  <2> QED BY <2>1, <2>2, <2>3 DEF HostNext
<1> QED BY <1>1, <1>2, PTL DEF HostSpec

(* The beacon of a coordinator carries the number of undamaged commands heard  *)
(* so far, modulo 256: for a char with or without a sign, any arguments of the *)
(* block and any frames of at least three bytes, however many                  *)
(* (dummycoord_impl.cc:130-131, softcrc_impl.cc:68).                           *)
THEOREM NoNumberSkipped ==
  HostAssumption /\ FramesAssumption => (HostSpec => []BeaconsNumbered)
<1> SUFFICES ASSUME HostAssumption, FramesAssumption PROVE HostSpec => []BeaconsNumbered
  OBVIOUS
<1>1. BeaconInv => BeaconsNumbered
  BY NumberOfBeacon DEF BeaconInv, Numbered, BeaconsNumbered
<1> QED BY <1>1, Invariance, PTL

(* The registers hold the checksums of the frame.                              *)
ChecksumInv ==
    /\ bytes \in Seq(Byte) /\ soft = SoftCrc16(bytes)
    /\ hard \in Word16 /\ soft = Flip16(hard)

(* Built byte by byte or sent as a beacon, a frame has the checksums.         *)
LEMMA ChecksumInvariance ==
  HostAssumption /\ FramesAssumption => (HostSpec => []ChecksumInv)
<1> SUFFICES ASSUME HostAssumption, FramesAssumption PROVE HostSpec => []ChecksumInv
  OBVIOUS
<1>1. HostInit => ChecksumInv
  BY SoftEmpty, ZeroStep DEF HostInit, Init, ChecksumInv
<1>2. ChecksumInv /\ BeaconInv /\ [HostNext]_hostVars => ChecksumInv'
  <2> SUFFICES ASSUME ChecksumInv, BeaconInv, [HostNext]_hostVars PROVE ChecksumInv'
    OBVIOUS
  <2>1. ASSUME NEW b \in Byte, Feed(b) PROVE ChecksumInv'
    <3>1. bytes' = Append(bytes, b) /\ hard' = NextCrc(hard, b) /\ soft' = SoftNextCrc(soft, b)
      BY <2>1 DEF Feed
    <3>2. bytes' \in Seq(Byte)
      BY <3>1 DEF ChecksumInv
    <3>3. soft' = SoftCrc16(bytes')
      BY <3>1, SoftAppend DEF ChecksumInv
    <3>4. hard' \in Word16 /\ soft' = Flip16(hard')
      BY <3>1, SameStep DEF ChecksumInv
    <3> QED BY <3>2, <3>3, <3>4 DEF ChecksumInv
  <2>2. CASE Build
    <3>1. \E b \in Byte : Feed(b)
      BY <2>2, ZeroStep DEF Build, Next, FirstTwo, Third
    <3> QED BY <3>1, <2>1
  <2>3. ASSUME NEW pdu, Handle(pdu), ~UNCHANGED vars PROVE ChecksumInv'
    <3>1. Beacon(_macBsn) \in Seq(Byte)
      BY NumberOfBeacon DEF BeaconInv, Numbered
    <3> DEFINE s == Beacon(_macBsn)
    <3>2. bytes' = s /\ hard' = HardCrc16(s) /\ soft' = SoftCrc16(s)
      BY <2>3 DEF Handle
    <3> HIDE DEF s
    <3>3. HardCrc16(s) \in Word16 /\ SoftCrc16(s) = Flip16(HardCrc16(s))
      BY <3>1, SameCrc DEF s
    <3> QED BY <3>1, <3>2, <3>3 DEF ChecksumInv, s
  <2>4. CASE UNCHANGED vars
    BY <2>4 DEF vars, ChecksumInv
  <2> QED BY <2>2, <2>3, <2>4 DEF HostNext, Receive, hostVars
<1> QED BY <1>1, <1>2, Invariance, PTL DEF HostSpec

(* The FPGA and the software agree on each frame of the host, beacons with any *)
(* arguments of dummycoord included (zluudg_crc16ccitt.vhd,                    *)
(* dummycoord_impl.cc).                                                        *)
THEOREM SameChecksumEverywhere ==
  HostAssumption /\ FramesAssumption => (HostSpec => []SameChecksum)
<1> SUFFICES ASSUME HostAssumption, FramesAssumption PROVE HostSpec => []SameChecksum
  OBVIOUS
<1>1. ChecksumInv => SameChecksum
  BY SoftIsWord DEF ChecksumInv, SameChecksum
<1> QED BY <1>1, ChecksumInvariance, PTL

(* Two neighbouring bytes that are not both 0 never have the checksum 0.       *)
THEOREM NoShortErrorMissed ==
  HostAssumption /\ FramesAssumption => (HostSpec => []ShortErrorsSeen)
<1> SUFFICES ASSUME HostAssumption, FramesAssumption PROVE HostSpec => []ShortErrorsSeen
  OBVIOUS
<1>1. ASSUME NEW b \in Byte, SoftNextCrc(0, b) \in Byte PROVE b = 0
  BY <1>1, ShiftedOut, ZeroStep
<1>2. ASSUME NEW a \in Byte, NEW b \in Byte, SoftNextCrc(SoftNextCrc(0, a), b) = 0
      PROVE  a = 0 /\ b = 0
  <2> DEFINE c == SoftNextCrc(0, a)
  <2>1. c \in Word16
    BY ShiftedOut, ZeroStep
  <2> HIDE DEF c
  <2>2. b = c % 256 /\ c \div 256 = 0
    BY <1>2, <2>1, ShiftedOut, ZeroStep DEF c
  <2>3. c \in Byte /\ b = c
    BY <2>1, <2>2, HalvesOfWord
  <2>4. a = 0
    BY <1>1, <2>3 DEF c
  <2> QED BY <2>3, <2>4, ZeroStep DEF c
<1>3. ChecksumInv => ShortErrorsSeen
  <2> SUFFICES ASSUME ChecksumInv, Len(bytes) <= 2, soft = 0
               PROVE  \A i \in DOMAIN bytes : bytes[i] = 0
    BY DEF ShortErrorsSeen
  <2>1. bytes \in Seq(Byte) /\ SoftCrc16(bytes) = 0
    BY DEF ChecksumInv
  <2>2. CASE Len(bytes) = 0
    BY <2>1, <2>2, ShortFrame
  <2>3. CASE Len(bytes) = 1
    <3>1. bytes[1] \in Byte /\ bytes = Append(<<>>, bytes[1]) /\ <<>> \in Seq(Byte)
      BY <2>1, <2>3, ShortFrame
    <3>2. SoftNextCrc(0, bytes[1]) = 0
      BY <2>1, <3>1, SoftAppend, SoftEmpty
    <3>3. bytes[1] = 0 /\ DOMAIN bytes = 1..1
      BY <1>1, <2>1, <2>3, <3>1, <3>2, ShortFrame, ZeroStep
    <3> QED BY <3>3
  <2>4. CASE Len(bytes) = 2
    <3>1. bytes[1] \in Byte /\ bytes[2] \in Byte
          /\ bytes = Append(Append(<<>>, bytes[1]), bytes[2])
          /\ <<>> \in Seq(Byte)
      BY <2>1, <2>4, ShortFrame
    <3>2. SoftNextCrc(SoftNextCrc(0, bytes[1]), bytes[2]) = 0
      <4>1. Append(<<>>, bytes[1]) \in Seq(Byte)
        BY <3>1
      <4> QED BY <2>1, <3>1, <4>1, SoftAppend, SoftEmpty
    <3>3. bytes[1] = 0 /\ bytes[2] = 0
      BY <1>2, <3>1, <3>2
    <3>4. DOMAIN bytes = 1..2
      BY <2>1, <2>4, ShortFrame
    <3> QED BY <3>3, <3>4
  <2>5. Len(bytes) = 0 \/ Len(bytes) = 1 \/ Len(bytes) = 2
    BY <2>1, ShortFrame
  <2> QED BY <2>2, <2>3, <2>4, <2>5
<1> QED BY <1>3, ChecksumInvariance, PTL

(* What a block of the host sends, softcrc receives, without the checksum.     *)
THEOREM SentFramesReceived ==
  HostAssumption /\ FramesAssumption => (HostSpec => []SentIsReceived)
<1> SUFFICES ASSUME HostAssumption, FramesAssumption PROVE HostSpec => []SentIsReceived
  OBVIOUS
<1>1. ChecksumInv => SentIsReceived
  <2> SUFFICES ASSUME ChecksumInv PROVE SentIsReceived
    OBVIOUS
  <2> DEFINE crc == SoftCrc16(bytes)
             lo == crc % 256
             hi == crc \div 256
             frame == bytes \o <<lo, hi>>
  <2>1. bytes \in Seq(Byte)
    BY DEF ChecksumInv
  <2>2. crc \in Word16
    BY <2>1, SoftIsWord
  <2>3. lo \in Byte /\ hi \in Byte
    BY <2>2, HalvesOfWord
  <2>4. SoftCrc16(frame) = 0
    BY <2>1, <2>3, GoodChecksum
  <2>5. SubSeq(frame, 1, Len(frame) - 2) = bytes
    <3> HIDE DEF lo, hi
    <3> QED BY <2>1, <2>3, FrontOfFrame
  <2>6. pub_output(bytes) = frame
    BY DEF pub_output, CrcBytes
  <2> HIDE DEF frame
  <2> QED BY <2>4, <2>5, <2>6 DEF SentIsReceived, SoftcrcRx
<1> QED BY <1>1, ChecksumInvariance, PTL

(* The transmit mode of softcrc shifts the second byte of the checksum by one  *)
(* bit (softcrc_impl.cc:79): the receive mode passes what it sends exactly if  *)
(* that makes no difference.                                                   *)
THEOREM OwnModeRejected ==
  HostAssumption /\ FramesAssumption => (HostSpec => []OwnModeRejects)
<1> SUFFICES ASSUME HostAssumption, FramesAssumption PROVE HostSpec => []OwnModeRejects
  OBVIOUS
<1>1. ChecksumInv => OwnModeRejects
  <2> SUFFICES ASSUME ChecksumInv PROVE OwnModeRejects
    OBVIOUS
  <2> DEFINE lo == soft % 256
             middle == (soft \div 2) % 256
             hi == soft \div 256
             frame == bytes \o <<lo, middle>>
  <2>1. bytes \in Seq(Byte) /\ soft = SoftCrc16(bytes)
    BY DEF ChecksumInv
  <2>2. soft \in Word16
    BY <2>1, SoftIsWord
  <2>3. lo \in Byte /\ middle \in Byte
    BY <2>2, HalvesOfWord
  <2>4. SoftCrc16(frame) = 0 <=> middle = hi
    BY <2>1, <2>3, GoodChecksum
  <2>5. SubSeq(frame, 1, Len(frame) - 2) = bytes
    <3> HIDE DEF lo, middle
    <3> QED BY <2>1, <2>3, FrontOfFrame
  <2>6. SoftcrcTx(bytes) = frame
    BY <2>1 DEF SoftcrcTx
  <2>7. OwnModeRejects <=> SoftcrcRx(frame) = IF middle = hi THEN <<bytes>> ELSE <<>>
    BY <2>6 DEF OwnModeRejects
  <2> HIDE DEF frame, middle, hi
  <2> QED BY <2>4, <2>5, <2>7 DEF SoftcrcRx
<1> QED BY <1>1, ChecksumInvariance, PTL
===============================================================================
