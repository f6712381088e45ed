-------------------------- MODULE Crc16ccittProofs --------------------------
(***************************************************************************)
(* The CRC checker outputs what its comments promise, in both modes, for   *)
(* every set of frames and every depth of the buffer, if frames arrive as  *)
(* the run has it: the consumer keeps up, the last three words of a frame  *)
(* come together, and a frame does not end before the one before is read.  *)
(***************************************************************************)
EXTENDS Crc16ccitt, SequenceTheorems, TLAPS

\* The buffer as PPFifoImplProofs sees it: filling, owed and beat are the words
\* of the burst being written, the beats to be read, and the beat on the bus.
F == INSTANCE PPFifoImplProofs WITH
  Data <- Byte, Ready <- {TRUE}, Overtake <- {1, 2}, Pausing <- FALSE, taken <- <<>>

\* The regular stream.  A frame fits the buffer, and one that is transmitted has
\* a payload in front of the two words the checksum replaces.
Streaming ==
  /\ Liberties = {}
  /\ DEPTH \in Nat /\ WATERMARK \in Nat /\ WATERMARK < DEPTH
  /\ \A mode \in TxModes : \A f \in Frames[mode] : Len(f) <= DEPTH
  /\ TRUE \in TxModes => \A f \in Frames[TRUE] : Len(f) >= 3

-----------------------------------------------------------------------------
(* The delay line.                                                         *)

\* No last word is under way.
Clear == ~tlast[1] /\ ~tlast[2] /\ ~tlast[3]

\* The words that belong to the frame the source has not finished.
live1 == tvalid[1] /\ ~tlast[1]
live2 == tvalid[2] /\ ~tlast[1] /\ ~tlast[2]
live3 == tvalid[3] /\ Clear

\* The part of the unfinished frame that has left the delay line, or has come
\* as far as tdata_ddd, tdata_dd or tdata_d.
out      == IF Clear THEN F!filling ELSE <<>>
reached3 == IF live3 THEN Append(out, tdata[3]) ELSE out
reached2 == IF live2 THEN Append(reached3, tdata[2]) ELSE reached3
reached1 == IF live1 THEN Append(reached2, tdata[1]) ELSE reached2

PipeInv ==
  /\ frame = reached1 /\ Len(frame) < DEPTH
  /\ \A i \in 1..3 : tlast[i] => tvalid[i]
  /\ tx_mode => /\ tlast[1] => tvalid[2] /\ tvalid[3] /\ ~tlast[2] /\ ~tlast[3]
                /\ tlast[2] => tvalid[3] /\ ~tlast[3]

\* The register after the first k words of the unfinished frame.
SumAt(k) == IF k = 0 THEN 0 ELSE sums[k]

SumInv ==
  /\ Len(sums) = Len(frame)
  /\ \A k \in 1..Len(frame) : sums[k] = NextCrc(SumAt(k - 1), frame[k])
  /\ Clear => crc_reg = SumAt(Len(F!filling))

\* A finished frame that has not left the delay line.
PendingRx ==
  IF tlast[1] /\ en_fifo /\ ~bad_crc THEN F!Burst(Append(F!filling, tdata[3])) ELSE <<>>

PendingTx ==
  LET mac == Append(F!filling, tdata[3]) IN
  IF tlast[1] THEN F!Burst(Append(Append(mac, flipped_crc % 256), flipped_crc \div 256))
  ELSE IF tlast[2] THEN F!Burst(Append(mac, tdata[2]))
  ELSE IF tlast[3] THEN F!Burst(mac) ELSE <<>>

Pending == IF tx_mode THEN PendingTx ELSE PendingRx

\* Where the last word of a frame is when the burst in the buffer ends.
lag == IF tx_mode THEN 3 ELSE 1

BufferInv ==
  /\ F!ImplInv /\ ~F!Waiting /\ ~F!dirty
  /\ ~tx_mode /\ (tlast[2] \/ tlast[3] \/ (tlast[1] /\ ~en_fifo)) => F!filling = <<>>
  /\ tx_mode => \A i \in 1..3 : tlast[i] => Len(F!filling) + 4 - i <= DEPTH

\* What is left to be read when the next frame ends.
PaceInv ==
  /\ Len(F!owed) <= pace + lag
  /\ \A i \in 1..lag : tlast[i] => Len(F!owed) + i <= lag + 1 /\ Len(Pending) < pace + i

OwedInv == owed = F!beat \o F!owed \o Pending

IInv ==
  /\ TypeOK /\ tx_mode \in TxModes
  /\ PipeInv /\ SumInv /\ BufferInv /\ PaceInv /\ OwedInv

-----------------------------------------------------------------------------
(* Bytes and checksums.                                                    *)

\* Members of an interval (the provers enumerate one whose bounds are numerals).
LEMMA Interval ==
  ASSUME NEW m \in Nat
  PROVE  \A n : n \in 0..m <=> n \in Nat /\ n <= m
OBVIOUS

LEMMA Words ==
  ASSUME NEW n
  PROVE  n \in Word16 <=> n \in Nat /\ n <= 65535
<1> DEFINE top == 65535
<1>1. top \in Nat
  OBVIOUS
<1>2. Word16 = 0..top
  BY DEF Word16
<1>3. top = 65535
  OBVIOUS
<1> HIDE DEF top
<1>4. n \in Word16 <=> n \in Nat /\ n <= top
  BY <1>1, <1>2, Interval, Zenon
<1> QED BY <1>3, <1>4

LEMMA Bytes ==
  /\ \A n : n \in Byte <=> n \in Nat /\ n <= 255
  /\ \A n : n \in Nibble <=> n \in Nat /\ n <= 15
BY DEF Byte, Nibble

LEMMA TableWords ==
  ASSUME NEW i \in 1..256
  PROVE  Lut[i] \in Word16
<1>1. Lut[i] \in Nat
  BY DEF Lut
<1>2. Lut[i] <= 65535
  BY DEF Lut
<1> QED BY <1>1, <1>2, Words

LEMMA XorByte == ASSUME NEW a \in Byte, NEW b \in Byte PROVE Xor8(a, b) \in Byte
<1>1. \A x, y \in Nibble : XorNibble[x][y] \in Nibble
  BY DEF XorNibble, Nibble, Bit
<1>2. /\ a \div 16 \in Nibble /\ b \div 16 \in Nibble
      /\ a % 16 \in Nibble /\ b % 16 \in Nibble
  BY Bytes, Words
<1>3. \A x, y \in Nibble : 16 * x + y \in Byte
  BY Bytes, Words
<1> QED BY <1>1, <1>2, <1>3, Zenon DEF Xor8

LEMMA BytesOfWord ==
  ASSUME NEW c \in Word16
  PROVE  c \div 256 \in Byte /\ c % 256 \in Byte
BY Bytes, Words

LEMMA WordOfBytes ==
  ASSUME NEW a \in Byte, NEW b \in Byte
  PROVE  256 * a + b \in Word16
BY Bytes, Words

LEMMA XorWord == ASSUME NEW a \in Word16, NEW b \in Word16 PROVE Xor16(a, b) \in Word16
BY BytesOfWord, WordOfBytes, XorByte, Zenon DEF Xor16

LEMMA FlipByte == \A n \in Byte : Flip8[n] \in Byte
BY DEF Flip8, Byte, Bit

LEMMA FlipWord == ASSUME NEW c \in Word16 PROVE Flip16(c) \in Word16
BY BytesOfWord, WordOfBytes, FlipByte, Zenon DEF Flip16

LEMMA NextWord ==
  ASSUME NEW crc \in Word16, NEW byte \in Byte
  PROVE  NextCrc(crc, byte) \in Word16
<1> DEFINE i == Xor8(Flip8[byte], crc \div 256)
           shifted == (crc * 256) % 65536
<1>1. i \in Byte
  BY BytesOfWord, FlipByte, XorByte, Zenon
<1>2. NextCrc(crc, byte) = Xor16(Lut[1 + i], shifted)
  BY DEF NextCrc
<1>3. shifted \in Word16
  BY Bytes, Words
<1> HIDE DEF i, shifted
<1>4. 1 + i \in 1..256
  BY <1>1, Bytes
<1>5. Lut[1 + i] \in Word16
  BY <1>4, TableWords
<1> QED BY <1>2, <1>3, <1>5, XorWord, Zenon

\* The two words of a checksum name it.
LEMMA SameBytes ==
  ASSUME NEW c \in Word16, NEW a \in Byte, NEW b \in Byte
  PROVE  c = 256 * a + b <=> c % 256 = b /\ c \div 256 = a
BY Bytes, Words

-----------------------------------------------------------------------------
(* The buffer.                                                             *)

LEMMA SizesOfBuffer == ASSUME Streaming PROVE F!DepthAssumption /\ F!EnvAssumption
<1>1. F!DepthAssumption
  <2>1. 0 \in Byte
    BY Bytes
  <2>2. Byte # {}
    BY <2>1
  <2>3. DEPTH \in Nat \ {0} /\ WATERMARK \in 0..(DEPTH - 1)
    BY DEF Streaming
  <2> QED BY <2>2, <2>3 DEF F!DepthAssumption
<1>2. F!EnvAssumption
  BY DEF F!EnvAssumption, F!Fifo
<1> QED BY <1>1, <1>2

\* Both instances of the buffer speak of the same registers.
LEMMA Pairs == ASSUME NEW x PROVE <<x, x>> = [f \in {1, 2} |-> x]
<1>1. <<x, x>> = [f \in 1..2 |-> <<x, x>>[f]]
  OBVIOUS
<1>2. 1..2 = {1, 2}
  OBVIOUS
<1>3. \A f \in 1..2 : <<x, x>>[f] = x
  OBVIOUS
<1> QED BY <1>1, <1>2, <1>3, Zenon

LEMMA SameStart == ASSUME FifoInit PROVE F!Init
<1>1. 0 \in Byte
  BY Bytes
<1>2. /\ w_ptr = [f \in F!Fifo |-> 0] /\ r_ptr = [f \in F!Fifo |-> 0]
      /\ skip_fifo = [f \in F!Fifo |-> FALSE] /\ dob = [f \in F!Fifo |-> 0]
  BY Pairs, Zenon DEF FifoInit, F!Fifo
<1>3. ram = [f \in F!Fifo |-> [a \in F!Addr |-> 0]]
  <2>1. 1..2 = {1, 2}
    OBVIOUS
  <2> QED BY <2>1, Zenon DEF FifoInit, F!Fifo, F!Addr, F!END
<1> QED BY <1>1, <1>2, <1>3 DEF FifoInit, F!Init

LEMMA SameClock ==
  ASSUME NEW valid, NEW last, NEW skip, NEW d, Fifo!Clock(TRUE, valid, last, skip, d)
  PROVE  F!Clock(TRUE, valid, last, skip, d)
BY Zenon
DEF F!Clock, F!Both, F!WriteOnly, F!ReadOnly, F!Decode, F!Memory, F!Fifo, F!Other, F!AtEnd,
    F!EndsBurst, F!ChangeMode, F!LatchSkip, F!END, F!Concurrent, F!ReadDone, F!WriteDone,
    F!WriteEnable, F!BeingRead, F!AlmostFull, F!Writing, F!Reading, F!control,
    Fifo!Clock, Fifo!Both, Fifo!WriteOnly, Fifo!ReadOnly, Fifo!Decode, Fifo!Memory, Fifo!Fifo,
    Fifo!Other, Fifo!AtEnd, Fifo!EndsBurst, Fifo!ChangeMode, Fifo!LatchSkip, Fifo!END,
    Fifo!Concurrent, Fifo!ReadDone, Fifo!WriteDone, Fifo!WriteEnable, Fifo!BeingRead,
    Fifo!AlmostFull, Fifo!Writing, Fifo!Reading, Fifo!control

LEMMA SameReset ==
  ASSUME NEW valid, NEW d, Fifo!Reset(valid, d)
  PROVE  F!Reset(valid, d)
BY Zenon
DEF F!Reset, F!Memory, F!Fifo, F!Concurrent, F!ReadDone, F!WriteEnable,
    Fifo!Reset, Fifo!Memory, Fifo!Fifo, Fifo!Concurrent, Fifo!ReadDone, Fifo!WriteEnable

LEMMA SameTypes == F!TypeOK <=> Fifo!TypeOK
BY Zenon DEF F!TypeOK, F!Fifo, F!Addr, F!END, F!State,
             Fifo!TypeOK, Fifo!Fifo, Fifo!Addr, Fifo!END, Fifo!State

\* What the queue of the buffer holds.
LEMMA Queue ==
  ASSUME Streaming, BufferInv
  PROVE  /\ F!filling \in Seq(Byte) /\ F!owed \in Seq(Beat) /\ F!left \in Seq(Beat)
         /\ Len(F!filling) \in Nat /\ Len(F!owed) \in Nat /\ Len(F!left) \in Nat
         /\ Len(F!left) = IF Len(F!owed) = 0 THEN 0 ELSE Len(F!owed) - 1
         /\ Len(F!owed) <= 1 => F!left = <<>>
<1>1. F!DepthAssumption /\ F!EnvAssumption /\ F!ImplInv /\ ~F!Waiting
  BY SizesOfBuffer DEF BufferInv
<1>2. F!filling \in Seq(Byte) /\ F!owed \in Seq([data : Byte, last : BOOLEAN])
  BY <1>1, F!StreamTypes, Zenon
<1> DEFINE o == F!owed
<1>3. o \in Seq(Beat)
  BY <1>2 DEF Beat
<1>4. F!left = IF o = <<>> THEN <<>> ELSE Tail(o)
  BY DEF F!left
<1>5. Len(F!filling) \in Nat
  BY <1>2
<1> HIDE DEF o
<1>6. o = <<>> => Len(o) = 0 /\ Len(F!left) = 0 /\ F!left = <<>> /\ F!left \in Seq(Beat)
  BY <1>4
<1>7. o # <<>> => /\ F!left \in Seq(Beat) /\ Len(F!left) = Len(o) - 1
                  /\ Len(o) \in Nat /\ Len(F!left) \in Nat /\ Len(o) # 0
  BY <1>3, <1>4, HeadTailProperties, LenProperties, EmptySeq
<1>8. Len(o) <= 1 => F!left = <<>>
  BY <1>6, <1>7, EmptySeq
<1> QED BY <1>2, <1>3, <1>5, <1>6, <1>7, <1>8 DEF o

-----------------------------------------------------------------------------
(* A clock of the regular stream.                                          *)

Regularly(valid, last, d) ==
  /\ valid \in BOOLEAN /\ last \in BOOLEAN /\ d \in Byte
  /\ last => valid
  /\ valid /\ ~last => Len(frame) + 1 < DEPTH
  /\ last => /\ Len(frame) + 1 <= DEPTH
             /\ tx_mode => Len(frame) >= 2
             /\ Len(frame) >= 1 => tvalid[1]
             /\ Len(frame) >= 2 => tvalid[2]
             /\ pace <= 1
  /\ valid => s_tready
  /\ Edge(TRUE, valid, last, d)
  /\ History(TRUE, valid, last, d)

LEMMA TickRegular ==
  ASSUME Streaming, TypeOK, tx_mode \in TxModes, Tick
  PROVE  \E valid, last \in BOOLEAN, d \in Byte : Regularly(valid, last, d)
<1>1. frame \in Seq(Byte) /\ Len(frame) \in Nat /\ DEPTH \in Nat
  BY DEF TypeOK, Streaming
<1>2. ASSUME NEW rdy \in BOOLEAN, NEW valid, NEW last, NEW d, Regular(rdy, valid, last)
      PROVE  /\ rdy = TRUE /\ (valid => s_tready)
             /\ valid /\ last => /\ Len(frame) >= 1 => tvalid[1]
                                 /\ Len(frame) >= 2 => tvalid[2]
                                 /\ pace <= 1
  <2>1. "stall" \notin Liberties /\ "bubble" \notin Liberties /\ "overtake" \notin Liberties
    BY DEF Streaming
  <2> QED BY <1>2, <2>1 DEF Regular
<1>3. ASSUME NEW rdy \in BOOLEAN, NEW w \in Offered, Step(rdy, TRUE, w[2], w[1])
      PROVE  Regularly(TRUE, w[2], w[1])
  <2>1. PICK f \in Frames[tx_mode] : /\ Len(frame) + 1 <= Len(f)
                                     /\ w = <<f[Len(frame) + 1], Len(frame) + 1 = Len(f)>>
    BY DEF Offered
  <2>2. f \in Seq(Byte) /\ Len(f) \in Nat /\ Len(f) <= DEPTH /\ (tx_mode => Len(f) >= 3)
    <3>1. f \in Seq(Byte)
      BY LibertiesAssumption
    <3>2. Len(f) <= DEPTH
      BY DEF Streaming
    <3>3. tx_mode => Len(f) >= 3
      BY DEF Streaming, TypeOK
    <3> QED BY <3>1, <3>2, <3>3
  <2>3. w[1] = f[Len(frame) + 1] /\ (w[2] <=> Len(frame) + 1 = Len(f))
    BY <2>1
  <2>4. w[1] \in Byte /\ w[2] \in BOOLEAN
    BY <1>1, <2>1, <2>2, <2>3
  <2>5. rdy = TRUE
    BY <1>2, <1>3 DEF Step
  <2>6. w[2] => Len(frame) + 1 <= DEPTH /\ (tx_mode => Len(frame) >= 2)
    BY <1>1, <2>1, <2>2, <2>3
  <2>7. ~w[2] => Len(frame) + 1 < DEPTH
    BY <1>1, <2>1, <2>2, <2>3
  <2> QED BY <1>2, <1>3, <2>4, <2>5, <2>6, <2>7 DEF Step, Regularly
<1>4. ASSUME NEW rdy \in BOOLEAN, Step(rdy, FALSE, FALSE, 0)
      PROVE  Regularly(FALSE, FALSE, 0)
  <2>1. 0 \in Byte
    BY Bytes
  <2>2. rdy = TRUE
    BY <1>2, <1>4 DEF Step
  <2> QED BY <1>4, <2>1, <2>2 DEF Step, Regularly
<1>5. PICK rdy \in BOOLEAN : \/ \E w \in Offered : Step(rdy, TRUE, w[2], w[1])
                             \/ Step(rdy, FALSE, FALSE, 0)
  BY DEF Tick
<1>6. CASE Step(rdy, FALSE, FALSE, 0)
  BY <1>4, <1>6, Zenon DEF Regularly
<1>7. CASE \E w \in Offered : Step(rdy, TRUE, w[2], w[1])
  BY <1>3, <1>7, Zenon DEF Regularly
<1> QED BY <1>5, <1>6, <1>7

LEMMA Signals ==
  ASSUME TypeOK
  PROVE  /\ flipped_crc \in Word16 /\ flipped_crc % 256 \in Byte /\ flipped_crc \div 256 \in Byte
         /\ en_fifo \in BOOLEAN /\ fifo_tlast \in BOOLEAN /\ bad_crc \in BOOLEAN
         /\ \A i \in {1, 2, 3} : tdata[i] \in Byte /\ tvalid[i] \in BOOLEAN /\ tlast[i] \in BOOLEAN
<1>1. /\ \A i \in {1, 2, 3} : tdata[i] \in Byte /\ tvalid[i] \in BOOLEAN /\ tlast[i] \in BOOLEAN
      /\ crc_reg \in Word16 /\ tx_mode \in BOOLEAN
  BY DEF TypeOK
<1>2. flipped_crc \in Word16
  BY <1>1, NextWord, FlipWord, Zenon DEF flipped_crc
<1>3. flipped_crc % 256 \in Byte /\ flipped_crc \div 256 \in Byte
  BY <1>2, BytesOfWord, Zenon
<1>4. en_fifo \in BOOLEAN /\ fifo_tlast \in BOOLEAN /\ bad_crc \in BOOLEAN
  BY <1>1, Zenon DEF en_fifo, skip_crc, fifo_tlast, bad_crc
<1> QED BY <1>1, <1>2, <1>3, <1>4

LEMMA Registers ==
  ASSUME TypeOK, NEW valid \in BOOLEAN, NEW last \in BOOLEAN, NEW d \in Byte,
         Edge(TRUE, valid, last, d)
  PROVE  /\ tvalid'[1] = valid /\ tvalid'[2] = tvalid[1] /\ tvalid'[3] = tvalid[2]
         /\ tlast'[1] = last /\ tlast'[2] = tlast[1] /\ tlast'[3] = tlast[2]
         /\ valid => tdata'[1] = d
         /\ tlast[1] => tdata'[2] = flipped_crc \div 256 /\ tdata'[3] = flipped_crc % 256
         /\ ~tlast[1] => tdata'[2] = tdata[1] /\ tdata'[3] = tdata[2]
         /\ crc_reg' = IF tlast[3] THEN 0
                       ELSE IF tvalid[3] THEN NextCrc(crc_reg, tdata[3]) ELSE crc_reg
         /\ tx_mode' = tx_mode
         /\ Fifo!Clock(TRUE, en_fifo, fifo_tlast, bad_crc, tdata[3])
BY DEF Edge, P_TVALID, P_TLAST, P_INPUT, P_CRC_REG

LEMMA OneMore ==
  ASSUME NEW s \in Seq(Byte), NEW b \in Byte
  PROVE  /\ Append(s, b) \in Seq(Byte) /\ Len(Append(s, b)) = Len(s) + 1 /\ Len(s) \in Nat
         /\ Append(s, b)[Len(s) + 1] = b
         /\ \A i \in 1..Len(s) : Append(s, b)[i] = s[i]
BY AppendProperties, LenProperties

\* How far the frame has come, and which of its words are under way.
LEMMA Reached ==
  ASSUME Streaming, TypeOK, BufferInv
  PROVE  /\ out \in Seq(Byte) /\ Len(out) \in Nat
         /\ reached3 \in Seq(Byte) /\ Len(reached3) \in Nat
         /\ reached2 \in Seq(Byte) /\ Len(reached2) \in Nat
         /\ reached1 \in Seq(Byte) /\ Len(reached1) \in Nat
         /\ Len(reached3) = IF live3 THEN Len(out) + 1 ELSE Len(out)
         /\ Len(reached2) = IF live2 THEN Len(reached3) + 1 ELSE Len(reached3)
         /\ Len(reached1) = IF live1 THEN Len(reached2) + 1 ELSE Len(reached2)
         /\ live3 => reached1[Len(out) + 1] = tdata[3]
<1>1. tdata[1] \in Byte /\ tdata[2] \in Byte /\ tdata[3] \in Byte
  BY DEF TypeOK
<1>2. out \in Seq(Byte)
  BY Queue DEF out
<1>3. /\ reached3 \in Seq(Byte)
      /\ Len(reached3) = IF live3 THEN Len(out) + 1 ELSE Len(out)
      /\ live3 => reached3[Len(out) + 1] = tdata[3]
  BY <1>1, <1>2, OneMore, Zenon DEF reached3
<1>4. /\ reached2 \in Seq(Byte)
      /\ Len(reached2) = IF live2 THEN Len(reached3) + 1 ELSE Len(reached3)
      /\ \A i \in 1..Len(reached3) : reached2[i] = reached3[i]
  BY <1>1, <1>3, OneMore, Zenon DEF reached2
<1>5. /\ reached1 \in Seq(Byte)
      /\ Len(reached1) = IF live1 THEN Len(reached2) + 1 ELSE Len(reached2)
      /\ \A i \in 1..Len(reached2) : reached1[i] = reached2[i]
  BY <1>1, <1>4, OneMore, Zenon DEF reached1
<1>6. /\ Len(out) \in Nat /\ Len(reached3) \in Nat /\ Len(reached2) \in Nat /\ Len(reached1) \in Nat
  BY <1>2, <1>3, <1>4, <1>5, LenProperties
<1>7. ASSUME live3
      PROVE  reached1[Len(out) + 1] = tdata[3]
  <2>1. Len(out) + 1 \in 1..Len(reached3) /\ Len(out) + 1 \in 1..Len(reached2)
    BY <1>3, <1>4, <1>6, <1>7
  <2> QED BY <1>3, <1>4, <1>5, <1>7, <2>1, Zenon
<1> QED BY <1>2, <1>3, <1>4, <1>5, <1>6, <1>7

\* What the edge does to the buffer.
LEMMA BufferStep ==
  ASSUME Streaming, IInv, Fifo!Clock(TRUE, en_fifo, fifo_tlast, bad_crc, tdata[3])
  PROVE  /\ F!ImplInv' /\ ~F!Waiting' /\ ~F!dirty'
         /\ F!beat' = IF F!owed = <<>> THEN <<>> ELSE <<Head(F!owed)>>
         /\ en_fifo /\ fifo_tlast =>
              /\ F!filling' = <<>> /\ Len(F!owed) <= 1
              /\ F!owed' = IF bad_crc THEN F!left ELSE F!left \o F!Burst(Append(F!filling, tdata[3]))
         /\ en_fifo /\ ~fifo_tlast =>
              F!filling' = Append(F!filling, tdata[3]) /\ F!owed' = F!left
         /\ ~en_fifo => F!filling' = F!filling /\ F!owed' = F!left
<1>1. TypeOK /\ PipeInv /\ BufferInv /\ PaceInv
  BY DEF IInv
<1>2. /\ en_fifo \in BOOLEAN /\ fifo_tlast \in BOOLEAN /\ bad_crc \in BOOLEAN /\ tdata[3] \in Byte
      /\ tx_mode \in BOOLEAN
      /\ \A i \in {1, 2, 3} : tvalid[i] \in BOOLEAN /\ tlast[i] \in BOOLEAN
  BY <1>1, Signals DEF TypeOK
<1>3. F!Clock(TRUE, en_fifo, fifo_tlast, bad_crc, tdata[3])
  BY SameClock
<1>4. F!ImplInv /\ ~F!Waiting /\ ~F!dirty /\ F!DepthAssumption /\ F!EnvAssumption
  BY <1>1, SizesOfBuffer DEF BufferInv
<1>5. /\ F!filling \in Seq(Byte) /\ Len(F!filling) \in Nat /\ Len(F!owed) \in Nat
  BY <1>1, Queue
<1>6. bad_crc => fifo_tlast
  BY <1>2, Zenon DEF bad_crc, fifo_tlast
<1>7. ASSUME en_fifo, ~fifo_tlast
      PROVE  Len(F!filling) + 1 # DEPTH
  <2>1. CASE Clear
    <3>1. live3 /\ out = F!filling
      BY <1>7, <2>1 DEF en_fifo, live3, out
    <3>2. /\ Len(reached1) \in Nat /\ Len(reached2) \in Nat /\ Len(reached3) = Len(F!filling) + 1
          /\ Len(reached1) >= Len(reached2) /\ Len(reached2) >= Len(reached3)
      BY <1>1, <3>1, Reached
    <3>3. Len(reached1) < DEPTH
      BY <1>1, Zenon DEF PipeInv
    <3> QED BY <1>5, <3>2, <3>3 DEF Streaming
  <2>2. CASE ~Clear /\ tx_mode
    <3>1. tlast[1] \/ tlast[2]
      BY <1>7, <2>2 DEF Clear, fifo_tlast
    <3>2. \A i \in 1..3 : tlast[i] => Len(F!filling) + 4 - i <= DEPTH
      BY <1>1, <2>2 DEF BufferInv
    <3>3. /\ tlast[1] => Len(F!filling) + 4 - 1 <= DEPTH
          /\ tlast[2] => Len(F!filling) + 4 - 2 <= DEPTH
      BY <3>2
    <3> QED BY <1>5, <3>1, <3>3 DEF Streaming
  <2>3. CASE ~Clear /\ ~tx_mode
    BY <1>7, <2>3, Zenon DEF Clear, en_fifo, skip_crc, fifo_tlast
  <2> QED BY <2>1, <2>2, <2>3
<1>8. en_fifo => (F!Ends(fifo_tlast) <=> fifo_tlast)
  BY <1>7, Zenon DEF F!Ends
<1>9. ASSUME en_fifo, fifo_tlast
      PROVE  Len(F!owed) <= 1
  <2>1. \A i \in 1..lag : tlast[i] => Len(F!owed) + i <= lag + 1
    BY <1>1, Zenon DEF PaceInv
  <2>2. CASE tx_mode
    <3>1. tlast[3] /\ lag = 3 /\ 3 \in 1..3
      BY <1>9, <2>2 DEF fifo_tlast, lag
    <3>2. Len(F!owed) + 3 <= 3 + 1
      BY <2>1, <3>1
    <3> QED BY <1>5, <3>2
  <2>3. CASE ~tx_mode
    <3>1. tlast[1] /\ lag = 1 /\ 1 \in 1..1
      BY <1>9, <2>3 DEF fifo_tlast, lag
    <3>2. Len(F!owed) + 1 <= 1 + 1
      BY <2>1, <3>1
    <3> QED BY <1>5, <3>2
  <2> QED BY <1>2, <2>2, <2>3
<1>10. en_fifo /\ F!Ends(fifo_tlast) => Len(F!owed) <= 1
  BY <1>8, <1>9, Zenon
<1>11. /\ F!ImplInv' /\ ~F!Waiting'
       /\ F!beat' = IF F!owed = <<>> THEN <<>> ELSE <<Head(F!owed)>>
       /\ en_fifo /\ F!Ends(fifo_tlast) =>
            /\ F!filling' = <<>> /\ F!dirty' = FALSE
            /\ F!owed' = IF F!dirty \/ bad_crc THEN F!left
                         ELSE F!left \o F!Burst(Append(F!filling, tdata[3]))
       /\ en_fifo /\ ~F!Ends(fifo_tlast) =>
            /\ F!filling' = Append(F!filling, tdata[3]) /\ F!dirty' = (F!dirty \/ bad_crc)
            /\ F!owed' = F!left
       /\ ~en_fifo => F!filling' = F!filling /\ F!dirty' = F!dirty /\ F!owed' = F!left
  BY <1>2, <1>3, <1>4, <1>10, F!StreamStep, Zenon
<1>12. ~F!dirty'
  BY <1>4, <1>6, <1>8, <1>11, Zenon
<1> QED BY <1>4, <1>8, <1>9, <1>11, <1>12, Zenon

\* The words that have left the delay line are those in the buffer.
LEMMA FillingStep ==
  ASSUME Streaming, IInv, Fifo!Clock(TRUE, en_fifo, fifo_tlast, bad_crc, tdata[3])
  PROVE  /\ ~(tx_mode /\ (tlast[1] \/ tlast[2])) => F!filling' = reached3
         /\ tx_mode /\ (tlast[1] \/ tlast[2]) =>
              F!filling' = Append(F!filling, tdata[3]) /\ F!owed' = F!left
<1>1. TypeOK /\ PipeInv /\ BufferInv
  BY DEF IInv
<1>2. /\ en_fifo \in BOOLEAN /\ fifo_tlast \in BOOLEAN /\ tx_mode \in BOOLEAN
      /\ \A i \in {1, 2, 3} : tvalid[i] \in BOOLEAN /\ tlast[i] \in BOOLEAN
  BY <1>1, Signals DEF TypeOK
<1>3. /\ en_fifo /\ fifo_tlast => F!filling' = <<>>
      /\ en_fifo /\ ~fifo_tlast =>
           F!filling' = Append(F!filling, tdata[3]) /\ F!owed' = F!left
      /\ ~en_fifo => F!filling' = F!filling
  BY BufferStep
<1>4. (tlast[1] => tvalid[1]) /\ (tlast[2] => tvalid[2]) /\ (tlast[3] => tvalid[3])
  BY <1>1 DEF PipeInv
<1>5. CASE Clear
  <2>1. (en_fifo <=> live3) /\ ~fifo_tlast /\ out = F!filling
    BY <1>5, Zenon DEF Clear, en_fifo, skip_crc, fifo_tlast, live3, out
  <2>2. ~(tlast[1] \/ tlast[2])
    BY <1>5 DEF Clear
  <2> QED BY <1>3, <2>1, <2>2, Zenon DEF reached3
<1>6. CASE ~Clear /\ tx_mode
  <2>1. reached3 = <<>>
    BY <1>6, Zenon DEF reached3, out, live3
  <2>2. ASSUME tlast[1] \/ tlast[2]
        PROVE  en_fifo /\ ~fifo_tlast
    BY <1>1, <1>6, <2>2 DEF PipeInv, en_fifo, skip_crc, fifo_tlast
  <2>3. ASSUME ~(tlast[1] \/ tlast[2])
        PROVE  en_fifo /\ fifo_tlast
    BY <1>4, <1>6, <2>3 DEF Clear, en_fifo, skip_crc, fifo_tlast
  <2> QED BY <1>3, <1>6, <2>1, <2>2, <2>3, Zenon
<1>7. CASE ~Clear /\ ~tx_mode
  <2>1. reached3 = <<>>
    BY <1>7, Zenon DEF reached3, out, live3
  <2>2. tlast[2] \/ tlast[3] \/ (tlast[1] /\ ~en_fifo) => F!filling = <<>>
    BY <1>1, <1>7 DEF BufferInv
  <2>3. tlast[2] \/ tlast[3] => ~en_fifo
    BY <1>7 DEF en_fifo, skip_crc
  <2>4. tlast[1] => fifo_tlast
    BY <1>7 DEF fifo_tlast
  <2> QED BY <1>3, <1>7, <2>1, <2>2, <2>3, <2>4, Zenon DEF Clear
<1> QED BY <1>5, <1>6, <1>7

-----------------------------------------------------------------------------
(* The delay line and the register.                                        *)

LEMMA Clocked ==
  ASSUME NEW valid \in BOOLEAN, NEW last \in BOOLEAN, NEW d \in Byte,
         Regularly(valid, last, d)
  PROVE  Edge(TRUE, valid, last, d) /\ (last => valid)
BY Zenon DEF Regularly

LEMMA HistoryStep ==
  ASSUME TypeOK, NEW valid \in BOOLEAN, NEW last \in BOOLEAN, NEW d \in Byte,
         Regularly(valid, last, d)
  PROVE  /\ frame' = IF ~valid THEN frame ELSE IF last THEN <<>> ELSE Append(frame, d)
         /\ sums' = IF ~valid THEN sums ELSE IF last THEN <<>>
                    ELSE Append(sums, NextCrc(SumAt(Len(frame)), d))
         /\ owed' = IF last THEN Unseen(TRUE) \o Promise(Append(frame, d)) ELSE Unseen(TRUE)
         /\ pace' = IF last THEN Len(Promise(Append(frame, d)))
                    ELSE IF pace > 0 THEN pace - 1 ELSE 0
<1>1. frame = <<>> <=> Len(frame) = 0
  <2>1. frame \in Seq(Byte)
    BY DEF TypeOK
  <2> QED BY <2>1, EmptySeq
<1>2. (IF frame = <<>> THEN 0 ELSE sums[Len(frame)]) = SumAt(Len(frame))
  BY <1>1, Zenon DEF SumAt
<1>3. (valid /\ s_tready <=> valid) /\ (valid /\ s_tready /\ last <=> last)
  BY Zenon DEF Regularly
<1>4. History(TRUE, valid, last, d)
  BY Zenon DEF Regularly
<1> QED BY <1>2, <1>3, <1>4, Zenon DEF History

\* When the last word comes, the two words before it are right behind it.
LEMMA LastComes ==
  ASSUME Streaming, IInv, NEW valid \in BOOLEAN, NEW last \in BOOLEAN, NEW d \in Byte,
         Regularly(valid, last, d), last
  PROVE  /\ Len(frame) >= 1 => live1
         /\ Len(frame) >= 2 => live2 /\ Len(frame) = Len(reached3) + 2
         /\ Len(frame) < 2 => reached3 = <<>> /\ ~live2
         /\ tx_mode => Len(frame) >= 2
<1>1. TypeOK /\ BufferInv /\ frame = reached1
  BY DEF IInv, PipeInv
<1>2. /\ Len(frame) >= 1 => tvalid[1]
      /\ Len(frame) >= 2 => tvalid[2]
      /\ tx_mode => Len(frame) >= 2
  BY DEF Regularly
<1>3. \A i \in {1, 2, 3} : tvalid[i] \in BOOLEAN /\ tlast[i] \in BOOLEAN
  BY <1>1, Signals
<1>4. /\ Len(out) \in Nat /\ Len(reached3) \in Nat /\ Len(reached2) \in Nat /\ Len(frame) \in Nat
      /\ reached3 \in Seq(Byte)
      /\ Len(reached3) = IF live3 THEN Len(out) + 1 ELSE Len(out)
      /\ Len(reached2) = IF live2 THEN Len(reached3) + 1 ELSE Len(reached3)
      /\ Len(frame) = IF live1 THEN Len(reached2) + 1 ELSE Len(reached2)
  BY <1>1, Reached
<1>5. ~Clear => Len(out) = 0 /\ ~live3
  BY DEF out, live3
<1>6. ASSUME Len(frame) >= 1
      PROVE  live1
  <2>1. ASSUME tlast[1] PROVE FALSE
    <3>1. ~live1 /\ ~live2 /\ ~Clear
      BY <2>1 DEF live1, live2, Clear
    <3> QED BY <1>4, <1>5, <1>6, <3>1
  <2> QED BY <1>2, <1>6, <2>1 DEF live1
<1>7. ASSUME Len(frame) >= 2
      PROVE  live2 /\ Len(frame) = Len(reached3) + 2
  <2>1. live1
    BY <1>4, <1>6, <1>7
  <2>2. ASSUME tlast[2] PROVE FALSE
    <3>1. ~live2 /\ ~Clear
      BY <2>2 DEF live2, Clear
    <3> QED BY <1>4, <1>5, <1>7, <2>1, <3>1
  <2>3. live2
    BY <1>2, <1>7, <2>1, <2>2 DEF live1, live2
  <2> QED BY <1>4, <2>1, <2>3
<1>8. ASSUME Len(frame) < 2
      PROVE  reached3 = <<>> /\ ~live2
  <2> DEFINE n  == Len(frame)
             n2 == Len(reached2)
             n3 == Len(reached3)
  <2>1. /\ n \in Nat /\ n2 \in Nat /\ n3 \in Nat /\ n < 2
        /\ live1 => n = n2 + 1
        /\ ~live1 => n = n2
        /\ live2 => n2 = n3 + 1
        /\ ~live2 => n2 = n3
        /\ n >= 1 => live1
    BY <1>4, <1>6, <1>8, Zenon
  <2> HIDE DEF n, n2, n3
  <2>2. n2 = 0
    BY <2>1
  <2>3. n3 = 0 /\ ~live2
    BY <2>1, <2>2
  <2> QED BY <1>4, <2>3, EmptySeq DEF n3
<1> QED BY <1>2, <1>6, <1>7, <1>8

\* A clock moves every word of the frame one register on.
LEMMA Shift ==
  ASSUME Streaming, IInv, NEW valid \in BOOLEAN, NEW last \in BOOLEAN, NEW d \in Byte,
         Regularly(valid, last, d)
  PROVE  /\ ~last => /\ out' = reached3 /\ reached3' = reached2 /\ reached2' = reached1
                     /\ reached1' = IF valid THEN Append(frame, d) ELSE frame
         /\ last => reached1' = <<>> /\ F!filling' = reached3
         /\ Clear' => ~last /\ F!filling' = reached3 /\ ~tlast[1] /\ ~tlast[2]
<1>1. TypeOK /\ BufferInv /\ frame = reached1
  BY DEF IInv, PipeInv
<1>2. /\ tvalid'[1] = valid /\ tvalid'[2] = tvalid[1] /\ tvalid'[3] = tvalid[2]
      /\ tlast'[1] = last /\ tlast'[2] = tlast[1] /\ tlast'[3] = tlast[2]
      /\ valid => tdata'[1] = d
      /\ ~tlast[1] => tdata'[2] = tdata[1] /\ tdata'[3] = tdata[2]
      /\ Fifo!Clock(TRUE, en_fifo, fifo_tlast, bad_crc, tdata[3])
  BY <1>1, Clocked, Registers
<1>3. ~(tx_mode /\ (tlast[1] \/ tlast[2])) => F!filling' = reached3
  BY <1>2, FillingStep
<1>4. Clear' <=> ~last /\ ~tlast[1] /\ ~tlast[2]
  BY <1>2, Zenon DEF Clear
<1>5. tlast[1] \/ tlast[2] => reached3 = <<>>
  BY Zenon DEF reached3, out, live3, Clear
<1>6. ASSUME ~last
      PROVE  /\ out' = reached3 /\ reached3' = reached2 /\ reached2' = reached1
             /\ reached1' = IF valid THEN Append(frame, d) ELSE frame
  <2>1. out' = reached3
    BY <1>3, <1>4, <1>5, <1>6, Zenon DEF out
  <2>2. (live3' <=> live2) /\ (live2' <=> live1) /\ (live1' <=> valid)
    BY <1>2, <1>4, <1>6, Zenon DEF live3, live2, live1
  <2>3. reached3' = reached2
    <3>1. live2 => tdata'[3] = tdata[2]
      BY <1>2, Zenon DEF live2
    <3>2. reached3' = IF live3' THEN Append(out', tdata'[3]) ELSE out'
      BY Zenon DEF reached3
    <3>3. reached2 = IF live2 THEN Append(reached3, tdata[2]) ELSE reached3
      BY Zenon DEF reached2
    <3> QED BY <2>1, <2>2, <3>1, <3>2, <3>3, Zenon
  <2>4. reached2' = reached1
    <3>1. live1 => tdata'[2] = tdata[1]
      BY <1>2, Zenon DEF live1
    <3>2. reached2' = IF live2' THEN Append(reached3', tdata'[2]) ELSE reached3'
      BY Zenon DEF reached2
    <3>3. reached1 = IF live1 THEN Append(reached2, tdata[1]) ELSE reached2
      BY Zenon DEF reached1
    <3> QED BY <2>2, <2>3, <3>1, <3>2, <3>3, Zenon
  <2>5. reached1' = IF valid THEN Append(frame, d) ELSE frame
    <3>1. reached1' = IF live1' THEN Append(reached2', tdata'[1]) ELSE reached2'
      BY Zenon DEF reached1
    <3> QED BY <1>1, <1>2, <2>2, <2>4, <3>1, Zenon
  <2> QED BY <2>1, <2>3, <2>4, <2>5
<1>7. ASSUME last
      PROVE  reached1' = <<>> /\ F!filling' = reached3
  <2>1. ~live1' /\ ~live2' /\ ~live3' /\ ~Clear'
    BY <1>2, <1>4, <1>7, Zenon DEF live1, live2, live3
  <2>2. out' = <<>>
    BY <2>1, Zenon DEF out
  <2>3. reached1' = <<>>
    BY <2>1, <2>2, Zenon DEF reached1, reached2, reached3
  <2>4. tx_mode => ~tlast[1] /\ ~tlast[2]
    BY <1>7, LastComes, Zenon DEF live2
  <2> QED BY <1>3, <2>3, <2>4, Zenon
<1> QED BY <1>3, <1>4, <1>6, <1>7, Zenon

LEMMA PipeStep ==
  ASSUME Streaming, IInv, NEW valid \in BOOLEAN, NEW last \in BOOLEAN, NEW d \in Byte,
         Regularly(valid, last, d)
  PROVE  PipeInv'
<1>1. TypeOK /\ BufferInv /\ PipeInv
  BY DEF IInv
<1>2. /\ tvalid'[1] = valid /\ tvalid'[2] = tvalid[1] /\ tvalid'[3] = tvalid[2]
      /\ tlast'[1] = last /\ tlast'[2] = tlast[1] /\ tlast'[3] = tlast[2]
      /\ tx_mode' = tx_mode
  BY <1>1, Clocked, Registers
<1>3. frame' = reached1'
  <2>1. frame' = IF ~valid THEN frame ELSE IF last THEN <<>> ELSE Append(frame, d)
    BY <1>1, HistoryStep
  <2>2. last => valid
    BY Clocked
  <2> QED BY <2>1, <2>2, Shift, Zenon
<1>4. Len(frame') < DEPTH
  <2>1. /\ frame \in Seq(Byte) /\ d \in Byte /\ Len(frame) < DEPTH /\ DEPTH \in Nat
        /\ valid /\ ~last => Len(frame) + 1 < DEPTH
        /\ last => Len(frame) + 1 <= DEPTH
    BY <1>1 DEF TypeOK, PipeInv, Regularly, Streaming
  <2>2. frame' = IF ~valid THEN frame ELSE IF last THEN <<>> ELSE Append(frame, d)
    BY <1>1, HistoryStep
  <2> QED BY <2>1, <2>2
<1>5. ASSUME NEW i \in 1..3
      PROVE  (tlast[i] => tvalid[i])'
  <2>1. /\ tlast[1] => tvalid[1]
        /\ tlast[2] => tvalid[2]
    BY <1>1 DEF PipeInv
  <2>2. last => valid
    BY Clocked
  <2>3. i = 1 \/ i = 2 \/ i = 3
    OBVIOUS
  <2> QED BY <1>2, <2>1, <2>2, <2>3, Zenon
<1>6. ASSUME tx_mode
      PROVE  (/\ tlast[1] => tvalid[2] /\ tvalid[3] /\ ~tlast[2] /\ ~tlast[3]
              /\ tlast[2] => tvalid[3] /\ ~tlast[3])'
  <2>1. tlast[1] => tvalid[2] /\ ~tlast[2]
    BY <1>1, <1>6, Zenon DEF PipeInv
  <2>2. ASSUME last
        PROVE  tvalid[1] /\ tvalid[2] /\ ~tlast[1] /\ ~tlast[2]
    <3>1. Len(frame) >= 1
      <4>1. Len(frame) \in Nat /\ Len(frame) >= 2
        BY <1>1, <1>6, <2>2, LastComes, OneMore DEF TypeOK
      <4> QED BY <4>1
    <3> QED BY <1>6, <2>2, <3>1, LastComes, Zenon DEF live1, live2
  <2> QED BY <1>2, <2>1, <2>2, Zenon
<1> QED BY <1>2, <1>3, <1>4, <1>5, <1>6, Zenon DEF PipeInv

\* The register is that of the words that have left the delay line.
LEMMA RegisterStep ==
  ASSUME Streaming, IInv, NEW valid \in BOOLEAN, NEW last \in BOOLEAN, NEW d \in Byte,
         Regularly(valid, last, d),
         ~tlast[1], ~tlast[2]
  PROVE  crc_reg' = SumAt(Len(reached3))
<1>1. TypeOK /\ BufferInv /\ frame = reached1 /\ SumInv
  BY DEF IInv, PipeInv
<1>2. crc_reg' = IF tlast[3] THEN 0
                 ELSE IF tvalid[3] THEN NextCrc(crc_reg, tdata[3]) ELSE crc_reg
  BY <1>1, Clocked, Registers
<1>3. CASE tlast[3]
  <2>1. reached3 = <<>>
    BY <1>3, Zenon DEF reached3, out, live3, Clear
  <2> QED BY <1>2, <1>3, <2>1 DEF SumAt
<1>4. CASE ~tlast[3]
  <2>1. Clear /\ (live3 <=> tvalid[3]) /\ out = F!filling
    BY <1>4, Zenon DEF Clear, live3, out
  <2>2. crc_reg = SumAt(Len(out))
    BY <1>1, <2>1, Zenon DEF SumInv
  <2>3. CASE ~tvalid[3]
    BY <1>2, <1>4, <2>1, <2>2, <2>3, Zenon DEF reached3
  <2>4. CASE tvalid[3]
    <3>1. /\ Len(reached3) = Len(out) + 1 /\ Len(out) \in Nat
          /\ Len(reached3) <= Len(frame) /\ Len(frame) \in Nat
          /\ frame[Len(out) + 1] = tdata[3]
      <4>1. /\ Len(out) \in Nat /\ Len(reached3) \in Nat /\ Len(reached2) \in Nat
            /\ Len(frame) \in Nat
            /\ Len(reached3) = IF live3 THEN Len(out) + 1 ELSE Len(out)
            /\ Len(reached2) = IF live2 THEN Len(reached3) + 1 ELSE Len(reached3)
            /\ Len(frame) = IF live1 THEN Len(reached2) + 1 ELSE Len(reached2)
            /\ live3 => frame[Len(out) + 1] = tdata[3]
        BY <1>1, Reached
      <4> QED BY <2>1, <2>4, <4>1
    <3> DEFINE k == Len(out) + 1
    <3>2. k \in 1..Len(frame) /\ k - 1 = Len(out) /\ k # 0
      BY <3>1
    <3>3. sums[k] = NextCrc(SumAt(k - 1), frame[k])
      BY <1>1, <3>2, Zenon DEF SumInv
    <3>4. SumAt(Len(reached3)) = sums[k]
      BY <3>1, <3>2, Zenon DEF SumAt
    <3> QED BY <1>2, <1>4, <2>2, <2>4, <3>1, <3>2, <3>3, <3>4, Zenon
  <2> QED BY <2>3, <2>4
<1> QED BY <1>3, <1>4

LEMMA SumStep ==
  ASSUME Streaming, IInv, NEW valid \in BOOLEAN, NEW last \in BOOLEAN, NEW d \in Byte,
         Regularly(valid, last, d)
  PROVE  SumInv' /\ sums' \in Seq(Word16)
<1>1. TypeOK /\ BufferInv /\ frame = reached1 /\ SumInv
  BY DEF IInv, PipeInv
<1> DEFINE n == Len(frame)
           next == NextCrc(SumAt(n), d)
<1>2. frame \in Seq(Byte) /\ sums \in Seq(Word16) /\ Len(sums) = n /\ n \in Nat /\ d \in Byte
  BY <1>1 DEF TypeOK, SumInv, Regularly
<1>3. /\ frame' = IF ~valid THEN frame ELSE IF last THEN <<>> ELSE Append(frame, d)
      /\ sums' = IF ~valid THEN sums ELSE IF last THEN <<>> ELSE Append(sums, next)
  BY <1>1, HistoryStep
<1>4. next \in Word16
  <2>1. 0 \in Word16
    BY Words
  <2>2. n # 0 => sums[n] \in Word16
    BY <1>2
  <2>3. SumAt(n) \in Word16
    BY <2>1, <2>2, Zenon DEF SumAt
  <2> QED BY <1>2, <2>3, NextWord, Zenon
<1>5. \A k \in 1..n : sums[k] = NextCrc(SumAt(k - 1), frame[k])
  BY <1>1 DEF SumInv
<1>6. ASSUME ~last
      PROVE  /\ \A k \in 0..n : SumAt(k)' = SumAt(k)
             /\ Len(sums') = Len(frame') /\ sums' \in Seq(Word16)
             /\ \A k \in 1..Len(frame') : sums'[k] = NextCrc(SumAt(k - 1)', frame'[k])
  <2>1. CASE ~valid
    <3>1. frame' = frame /\ sums' = sums
      BY <1>3, <2>1
    <3>2. \A k \in 0..n : SumAt(k)' = SumAt(k)
      BY <3>1, Zenon DEF SumAt
    <3>3. \A k \in 1..n : k - 1 \in 0..n
      BY <1>2
    <3> QED BY <1>2, <1>5, <3>1, <3>2, <3>3, Zenon
  <2>2. CASE valid
    <3>1. frame' = Append(frame, d) /\ sums' = Append(sums, next)
      BY <1>3, <1>6, <2>2
    <3> HIDE DEF next
    <3>2. /\ Len(frame') = n + 1 /\ frame'[n + 1] = d
          /\ \A k \in 1..n : frame'[k] = frame[k]
      BY <1>2, <3>1, AppendProperties
    <3>3. /\ sums' \in Seq(Word16) /\ Len(sums') = n + 1 /\ sums'[n + 1] = next
          /\ \A k \in 1..n : sums'[k] = sums[k]
      BY <1>2, <1>4, <3>1, AppendProperties
    <3>4. ASSUME NEW k \in 0..n
          PROVE  SumAt(k)' = SumAt(k)
      <4>1. k # 0 => k \in 1..n
        BY <1>2
      <4> QED BY <3>3, <4>1, Zenon DEF SumAt
    <3>5. ASSUME NEW k \in 1..(n + 1)
          PROVE  sums'[k] = NextCrc(SumAt(k - 1)', frame'[k])
      <4>1. k - 1 \in 0..n
        BY <1>2
      <4>2. CASE k \in 1..n
        BY <1>5, <3>2, <3>3, <3>4, <4>1, <4>2, Zenon
      <4>3. CASE k = n + 1
        <5>1. k - 1 = n
          BY <1>2, <4>3
        <5>2. SumAt(k - 1)' = SumAt(n)
          BY <3>4, <4>1, <5>1, Zenon
        <5> QED BY <3>2, <3>3, <4>3, <5>2, Zenon DEF next
      <4>4. k \in 1..n \/ k = n + 1
        BY <1>2
      <4> QED BY <4>2, <4>3, <4>4, Zenon
    <3> QED BY <3>2, <3>3, <3>4, <3>5, Zenon
  <2> QED BY <2>1, <2>2
<1>7. ASSUME last
      PROVE  /\ Len(sums') = Len(frame') /\ sums' \in Seq(Word16)
             /\ \A k \in 1..Len(frame') : sums'[k] = NextCrc(SumAt(k - 1)', frame'[k])
  <2>1. frame' = <<>> /\ sums' = <<>>
    BY <1>3, <1>7, Clocked
  <2> QED BY <2>1
<1>8. ASSUME Clear'
      PROVE  (crc_reg = SumAt(Len(F!filling)))'
  <2>1. ~last /\ F!filling' = reached3 /\ ~tlast[1] /\ ~tlast[2]
    BY <1>8, Shift, Zenon
  <2>2. crc_reg' = SumAt(Len(reached3))
    BY <2>1, RegisterStep, Zenon
  <2>3. Len(reached3) \in 0..n
    <3>1. /\ Len(reached3) \in Nat /\ Len(reached2) \in Nat
          /\ Len(reached2) = IF live2 THEN Len(reached3) + 1 ELSE Len(reached3)
          /\ n = IF live1 THEN Len(reached2) + 1 ELSE Len(reached2)
      BY <1>1, Reached
    <3> QED BY <1>2, <3>1
  <2> QED BY <1>6, <2>1, <2>2, <2>3, Zenon DEF SumAt
<1>9. last \/ ~last
  OBVIOUS
<1> QED BY <1>6, <1>7, <1>8, <1>9, Zenon DEF SumInv

-----------------------------------------------------------------------------
(* What is promised, and what is on its way to the buffer.                 *)

LEMMA BurstBeats ==
  ASSUME NEW b \in Seq(Byte)
  PROVE  F!Burst(b) \in Seq(Beat) /\ Len(F!Burst(b)) = Len(b) /\ Beats(b) = F!Burst(b)
<1>1. Len(b) \in Nat /\ \A i \in 1..Len(b) : b[i] \in Byte
  OBVIOUS
<1>2. \A i \in 1..Len(b) : [data |-> b[i], last |-> (i = Len(b))] \in Beat
  BY <1>1, Zenon DEF Beat
<1>3. F!Burst(b) \in [1..Len(b) -> Beat]
  BY <1>2, Zenon DEF F!Burst
<1>4. F!Burst(b) \in Seq(Beat) /\ Len(F!Burst(b)) = Len(b)
  BY <1>1, <1>3
<1> QED BY <1>4, Zenon DEF Beats, F!Burst

LEMMA NoBeats == Beats(<<>>) = <<>>
BY DEF Beats

LEMMA TwoMore ==
  ASSUME NEW s \in Seq(Byte), NEW a \in Byte, NEW b \in Byte
  PROVE  s \o <<a, b>> = Append(Append(s, a), b)
<1>1. <<a, b>> \in Seq(Byte) /\ Len(<<a, b>>) = 2 /\ <<a, b>>[1] = a /\ <<a, b>>[2] = b
  OBVIOUS
<1> DEFINE t == <<a, b>>
<1> HIDE DEF t
<1>2. /\ s \o t \in Seq(Byte) /\ Len(s \o t) = Len(s) + 2
      /\ \A i \in 1..(Len(s) + 2) : (s \o t)[i] = IF i <= Len(s) THEN s[i] ELSE t[i - Len(s)]
  BY <1>1, ConcatProperties DEF t
<1>3. /\ Append(s, a) \in Seq(Byte) /\ Len(Append(s, a)) = Len(s) + 1 /\ Len(s) \in Nat
      /\ Append(s, a)[Len(s) + 1] = a /\ \A i \in 1..Len(s) : Append(s, a)[i] = s[i]
  BY OneMore
<1> DEFINE u == Append(s, a)
<1> HIDE DEF u
<1>4. /\ Append(u, b) \in Seq(Byte) /\ Len(Append(u, b)) = Len(s) + 2
      /\ Append(u, b)[Len(s) + 2] = b /\ \A i \in 1..(Len(s) + 1) : Append(u, b)[i] = u[i]
  BY <1>3, OneMore DEF u
<1>5. ASSUME NEW i \in 1..(Len(s) + 2)
      PROVE  (s \o t)[i] = Append(u, b)[i]
  <2>1. CASE i \in 1..Len(s)
    BY <1>2, <1>3, <1>4, <2>1 DEF u
  <2>2. CASE i = Len(s) + 1
    <3>1. i - Len(s) = 1 /\ ~(i <= Len(s)) /\ i \in 1..(Len(s) + 1)
      BY <1>3, <2>2
    <3> QED BY <1>1, <1>2, <1>3, <1>4, <2>2, <3>1 DEF t, u
  <2>3. CASE i = Len(s) + 2
    <3>1. i - Len(s) = 2 /\ ~(i <= Len(s))
      BY <1>3, <2>3
    <3> QED BY <1>1, <1>2, <1>4, <2>3, <3>1 DEF t
  <2>4. i \in 1..Len(s) \/ i = Len(s) + 1 \/ i = Len(s) + 2
    BY <1>3
  <2> QED BY <2>1, <2>2, <2>3, <2>4, Zenon
<1>6. s \o t = Append(u, b)
  BY <1>2, <1>4, <1>5, SeqEqual
<1> QED BY <1>6 DEF t, u

\* The words before the last two, and the last two.
LEMMA LastTwo ==
  ASSUME NEW s \in Seq(Byte), NEW a \in Byte, NEW b \in Byte, NEW c \in Byte
  PROVE  /\ Len(Append(Append(Append(s, a), b), c)) = Len(s) + 3
         /\ SubSeq(Append(Append(Append(s, a), b), c), 1, Len(s) + 1) = Append(s, a)
         /\ SubSeq(Append(Append(Append(s, a), b), c), Len(s) + 2, Len(s) + 3) = <<b, c>>
<1> DEFINE u == Append(s, a)
           v == Append(u, b)
           w == Append(v, c)
           m == Len(s)
<1>1. u \in Seq(Byte) /\ Len(u) = m + 1 /\ m \in Nat
  BY OneMore
<1> HIDE DEF u
<1>3. v \in Seq(Byte) /\ Len(v) = m + 2 /\ v[m + 2] = b /\ \A i \in 1..(m + 1) : v[i] = u[i]
  BY <1>1, OneMore
<1> HIDE DEF v
<1>4. w \in Seq(Byte) /\ Len(w) = m + 3 /\ w[m + 3] = c /\ \A i \in 1..(m + 2) : w[i] = v[i]
  BY <1>1, <1>3, OneMore
<1> HIDE DEF m, w
<1>5. SubSeq(w, 1, m + 1) = u
  <2>1. /\ SubSeq(w, 1, m + 1) \in Seq(Byte) /\ Len(SubSeq(w, 1, m + 1)) = m + 1
        /\ \A i \in 1..(m + 1) : SubSeq(w, 1, m + 1)[i] = w[i]
    BY <1>1, <1>4
  <2>2. \A i \in 1..(m + 1) : i \in 1..(m + 2)
    BY <1>1
  <2> QED BY <1>1, <1>3, <1>4, <2>1, <2>2, SeqEqual
<1>6. SubSeq(w, m + 2, m + 3) = <<b, c>>
  <2> DEFINE q == SubSeq(w, m + 2, m + 3)
             t == <<b, c>>
  <2>1. w[m + 2] = b /\ w[m + 3] = c
    <3>1. m + 2 \in 1..(m + 2)
      BY <1>1
    <3> QED BY <1>3, <1>4, <3>1
  <2>2. q \in Seq(Byte) /\ Len(q) = 2 /\ q[1] = w[m + 2] /\ q[2] = w[m + 3]
    BY <1>1, <1>4
  <2>3. t \in Seq(Byte) /\ Len(t) = 2 /\ t[1] = b /\ t[2] = c
    OBVIOUS
  <2> HIDE DEF q, t
  <2>4. \A i \in 1..2 : q[i] = t[i]
    <3>1. \A i \in 1..2 : i = 1 \/ i = 2
      OBVIOUS
    <3> QED BY <2>1, <2>2, <2>3, <3>1, Zenon
  <2>5. q = t
    BY <2>2, <2>3, <2>4, SeqEqual
  <2> QED BY <2>5 DEF q, t
<1> QED BY <1>4, <1>5, <1>6 DEF u, v, w, m

LEMMA PendingTypes ==
  ASSUME Streaming, TypeOK, BufferInv
  PROVE  Pending \in Seq(Beat) /\ Len(Pending) \in Nat
<1>1. /\ F!filling \in Seq(Byte) /\ tdata[2] \in Byte /\ tdata[3] \in Byte
      /\ flipped_crc % 256 \in Byte /\ flipped_crc \div 256 \in Byte
  BY Queue, Signals
<1>2. <<>> \in Seq(Beat)
  OBVIOUS
<1> DEFINE mac == Append(F!filling, tdata[3])
           lo  == flipped_crc % 256
           hi  == flipped_crc \div 256
<1>3. Pending \in {<<>>, F!Burst(mac), F!Burst(Append(mac, tdata[2])),
                  F!Burst(Append(Append(mac, lo), hi))}
  BY Zenon DEF Pending, PendingRx, PendingTx
<1>4. lo \in Byte /\ hi \in Byte
  BY <1>1
<1>5. mac \in Seq(Byte)
  BY <1>1, OneMore
<1> HIDE DEF mac, lo, hi
<1>6. Append(mac, tdata[2]) \in Seq(Byte) /\ Append(Append(mac, lo), hi) \in Seq(Byte)
  BY <1>1, <1>4, <1>5, OneMore
<1>7. Pending \in Seq(Beat)
  BY <1>2, <1>3, <1>5, <1>6, BurstBeats, Zenon
<1> QED BY <1>7

\* The promise for the frame that ends is what the delay line is about to deliver.
LEMMA PromiseStep ==
  ASSUME Streaming, IInv, NEW valid \in BOOLEAN, NEW last \in BOOLEAN, NEW d \in Byte,
         Regularly(valid, last, d), last
  PROVE  Promise(Append(frame, d)) = Pending' /\ Pending' \in Seq(Beat)
<1>1. TypeOK /\ BufferInv /\ frame = reached1 /\ SumInv
  BY DEF IInv, PipeInv
<1>2. /\ tvalid'[1] = valid /\ tvalid'[2] = tvalid[1] /\ tvalid'[3] = tvalid[2]
      /\ tlast'[1] = last /\ tlast'[2] = tlast[1] /\ tlast'[3] = tlast[2]
      /\ valid => tdata'[1] = d
      /\ ~tlast[1] => tdata'[2] = tdata[1] /\ tdata'[3] = tdata[2]
      /\ tx_mode' = tx_mode
  BY <1>1, Clocked, Registers
<1>3. valid
  BY Clocked
<1>4. frame \in Seq(Byte) /\ Len(frame) \in Nat /\ tdata[1] \in Byte /\ tdata[2] \in Byte
      /\ tx_mode \in BOOLEAN
  BY <1>1 DEF TypeOK
<1>5. F!filling' = reached3
  BY Shift, Zenon
<1>6. en_fifo' <=> tvalid[2] /\ ~((tlast[1] \/ tlast[2]) /\ ~tx_mode)
  BY <1>2, Zenon DEF en_fifo, skip_crc
<1>7. CASE Len(frame) < 2
  <2>1. ~live2 /\ ~tx_mode
    <3>1. ~(Len(frame) >= 2)
      BY <1>4, <1>7
    <3> QED BY <1>7, <3>1, LastComes, Zenon
  <2>2. ~en_fifo'
    BY <1>6, <2>1, Zenon DEF live2
  <2>3. Pending' = <<>>
    BY <1>2, <2>1, <2>2, Zenon DEF Pending, PendingRx
  <2> DEFINE w == Append(frame, d)
  <2>4. Len(w) \in Nat /\ Len(w) <= 2
    BY <1>4, <1>7
  <2>5. Len(w) = 2 => SubSeq(w, 1, Len(w) - 2) = <<>>
    <3>1. w \in Seq(Byte)
      BY <1>4
    <3> HIDE DEF w
    <3>2. SubSeq(w, 1, 0) = <<>>
      BY <3>1
    <3>3. 2 - 2 = 0
      OBVIOUS
    <3> QED BY <3>2, <3>3
  <2>6. Len(w) < 2 \/ Len(w) = 2
    <3> DEFINE n == Len(w)
    <3> HIDE DEF n
    <3>1. n \in Nat /\ n <= 2
      BY <2>4 DEF n
    <3>2. n < 2 \/ n = 2
      BY <3>1
    <3> QED BY <3>2 DEF n
  <2> HIDE DEF w
  <2>7. Promise(w) = <<>>
    BY <2>1, <2>5, <2>6, NoBeats, Zenon DEF Promise
  <2>8. <<>> \in Seq(Beat)
    OBVIOUS
  <2> QED BY <2>3, <2>7, <2>8, Zenon DEF w
<1>8. CASE ~(Len(frame) < 2)
  <2>1. Len(frame) >= 1 /\ Len(frame) >= 2
    BY <1>4, <1>8
  <2>2. live1 /\ live2 /\ Len(frame) = Len(reached3) + 2
    BY <2>1, LastComes, Zenon
  <2>3. ~tlast[1] /\ ~tlast[2] /\ tvalid[2]
    BY <2>2, Zenon DEF live2
  <2>4. frame = Append(Append(reached3, tdata[2]), tdata[1])
    BY <1>1, <2>2, Zenon DEF reached1, reached2
  <2>5. reached3 \in Seq(Byte) /\ Len(reached3) \in Nat
    BY <1>1, Reached
  <2> DEFINE w   == Append(frame, d)
             mac == Append(reached3, tdata[2])
             k   == Len(reached3) + 1
             c   == flipped_crc'
             lo  == c % 256
             hi  == c \div 256
  <2>6. /\ Len(w) = Len(reached3) + 3
        /\ SubSeq(w, 1, Len(w) - 2) = mac
        /\ SubSeq(w, Len(w) - 1, Len(w)) = <<tdata[1], d>>
    <3> DEFINE words == Append(Append(Append(reached3, tdata[2]), tdata[1]), d)
               n == Len(reached3)
    <3>1. /\ Len(words) = n + 3
          /\ SubSeq(words, 1, n + 1) = mac
          /\ SubSeq(words, n + 2, n + 3) = <<tdata[1], d>>
      BY <1>4, <2>5, LastTwo, Zenon
    <3>2. w = words
      BY <2>4, Zenon
    <3>3. \A l : l = n + 3 => l - 2 = n + 1 /\ l - 1 = n + 2
      BY <2>5
    <3>4. n = Len(reached3)
      OBVIOUS
    <3> HIDE DEF w, words, mac, n
    <3>5. Len(w) = n + 3
      BY <3>1, <3>2, Zenon
    <3>6. Len(w) - 2 = n + 1 /\ Len(w) - 1 = n + 2
      BY <3>3, <3>5, Zenon
    <3> QED BY <3>1, <3>2, <3>4, <3>5, <3>6, Zenon
  <2>7. frame[k] = tdata[2]
    <3>1. mac \in Seq(Byte) /\ Len(mac) = k /\ mac[k] = tdata[2]
      BY <1>4, <2>5, OneMore
    <3>2. k \in 1..k
      BY <2>5
    <3> HIDE DEF mac, k
    <3>3. Append(mac, tdata[1])[k] = mac[k]
      BY <1>4, <3>1, <3>2, OneMore
    <3> QED BY <2>4, <3>1, <3>3 DEF mac
  <2>8. Flip16(sums[k]) = c
    <3>1. k \in 1..Len(frame) /\ k - 1 = Len(reached3)
      BY <1>4, <2>2, <2>5
    <3>2. sums[k] = NextCrc(SumAt(k - 1), frame[k])
      BY <1>1, <3>1, Zenon DEF SumInv
    <3>3. crc_reg' = SumAt(Len(reached3))
      BY <2>3, RegisterStep, Zenon
    <3>4. sums[k] = NextCrc(crc_reg', tdata'[3])
      BY <1>2, <2>3, <2>7, <3>1, <3>2, <3>3, Zenon
    <3> QED BY <3>4, Zenon DEF flipped_crc
  <2>9. Len(w) - 2 = k /\ k # 0 /\ ~(Len(w) < 2)
    BY <2>5, <2>6
  <2>10. Sum(Len(w) - 2) = <<lo, hi>>
    BY <2>8, <2>9, Zenon DEF Sum, CrcBytes
  <2>11. c \in Word16
    <3>1. crc_reg' \in Word16 /\ tdata'[3] \in Byte
      <4>1. SumAt(Len(reached3)) \in Word16
        <5>1. 0 \in Word16
          BY Words
        <5>2. sums \in Seq(Word16) /\ Len(sums) = Len(frame)
          BY <1>1 DEF TypeOK, SumInv
        <5>3. Len(reached3) # 0 => Len(reached3) \in 1..Len(sums)
          BY <2>2, <2>5, <5>2
        <5>4. Len(reached3) # 0 => sums[Len(reached3)] \in Word16
          BY <5>2, <5>3
        <5> QED BY <5>1, <5>4, Zenon DEF SumAt
      <4>2. crc_reg' = SumAt(Len(reached3))
        BY <2>3, RegisterStep, Zenon
      <4> QED BY <1>2, <1>4, <2>3, <4>1, <4>2, Zenon
    <3> QED BY <3>1, NextWord, FlipWord, Zenon DEF flipped_crc
  <2>12. lo \in Byte /\ hi \in Byte /\ mac \in Seq(Byte)
    <3>1. mac \in Seq(Byte)
      BY <1>4, <2>5, OneMore
    <3> QED BY <2>11, <3>1, BytesOfWord, Zenon
  <2>13. Append(F!filling', tdata'[3]) = mac
    BY <1>2, <1>5, <2>3, Zenon
  <2>14. lo = tdata[1] /\ hi = d <=> c = 256 * d + tdata[1]
    <3> HIDE DEF c
    <3> QED BY <1>4, <2>11, SameBytes
  <2>15. bad_crc' <=> ~tx_mode /\ c # 256 * d + tdata[1]
    BY <1>2, <1>3, <2>3, Zenon DEF bad_crc
  <2>16. Pending' = IF tx_mode THEN F!Burst(Append(Append(mac, lo), hi))
                    ELSE IF bad_crc' THEN <<>> ELSE F!Burst(mac)
    BY <1>2, <1>6, <2>3, <2>13, Zenon DEF Pending, PendingTx, PendingRx
  <2> HIDE DEF mac, lo, hi, c, w
  <2>17. ASSUME tx_mode
         PROVE  Promise(w) = Pending'
    <3>1. Promise(w) = Beats(mac \o <<lo, hi>>)
      BY <2>6, <2>9, <2>10, <2>17, Zenon DEF Promise
    <3>2. mac \o <<lo, hi>> = Append(Append(mac, lo), hi)
      BY <2>12, TwoMore, Zenon
    <3>3. Append(Append(mac, lo), hi) \in Seq(Byte)
      BY <2>12, OneMore
    <3>4. Beats(Append(Append(mac, lo), hi)) = F!Burst(Append(Append(mac, lo), hi))
      BY <3>3, BurstBeats, Zenon
    <3> QED BY <2>16, <2>17, <3>1, <3>2, <3>4, Zenon
  <2>18. ASSUME ~tx_mode
         PROVE  Promise(w) = Pending'
    <3>1. Promise(w) = IF <<lo, hi>> = <<tdata[1], d>> THEN Beats(mac) ELSE <<>>
      BY <2>6, <2>9, <2>10, <2>18, Zenon DEF Promise
    <3>2. <<lo, hi>> = <<tdata[1], d>> <=> lo = tdata[1] /\ hi = d
      OBVIOUS
    <3>3. Beats(mac) = F!Burst(mac)
      BY <2>12, BurstBeats, Zenon
    <3> QED BY <2>14, <2>15, <2>16, <2>18, <3>1, <3>2, <3>3, Zenon
  <2>19. Pending' \in Seq(Beat)
    <3>1. Append(Append(mac, lo), hi) \in Seq(Byte)
      BY <2>12, OneMore
    <3>2. <<>> \in Seq(Beat)
      OBVIOUS
    <3> QED BY <2>12, <2>16, <3>1, <3>2, BurstBeats, Zenon
  <2> QED BY <1>4, <2>17, <2>18, <2>19, Zenon DEF w
<1> QED BY <1>7, <1>8

\* What has left the delay line is in the buffer.
LEMMA QueueStep ==
  ASSUME Streaming, IInv, Fifo!Clock(TRUE, en_fifo, fifo_tlast, bad_crc, tdata[3])
  PROVE  F!owed' = IF fifo_tlast THEN F!left \o Pending ELSE F!left
<1>1. TypeOK /\ PipeInv /\ BufferInv
  BY DEF IInv
<1>2. /\ en_fifo /\ fifo_tlast =>
           F!owed' = IF bad_crc THEN F!left ELSE F!left \o F!Burst(Append(F!filling, tdata[3]))
      /\ en_fifo /\ ~fifo_tlast => F!owed' = F!left
      /\ ~en_fifo => F!owed' = F!left
  BY BufferStep
<1>3. F!left \o <<>> = F!left
  <2>1. F!left \in Seq(Beat)
    BY <1>1, Queue
  <2> QED BY <2>1, ConcatEmptySeq
<1>4. ASSUME fifo_tlast, tx_mode
      PROVE  F!owed' = F!left \o Pending
  <2>1. tlast[3] /\ ~tlast[1] /\ ~tlast[2] /\ tvalid[3]
    BY <1>1, <1>4 DEF PipeInv, fifo_tlast
  <2>2. en_fifo /\ ~bad_crc
    BY <1>4, <2>1, Zenon DEF en_fifo, skip_crc, bad_crc
  <2>3. Pending = F!Burst(Append(F!filling, tdata[3]))
    BY <1>4, <2>1, Zenon DEF Pending, PendingTx
  <2> QED BY <1>2, <1>4, <2>2, <2>3, Zenon
<1>5. ASSUME fifo_tlast, ~tx_mode
      PROVE  F!owed' = F!left \o Pending
  <2>1. Pending = IF en_fifo /\ ~bad_crc THEN F!Burst(Append(F!filling, tdata[3])) ELSE <<>>
    BY <1>5, Zenon DEF Pending, PendingRx, fifo_tlast
  <2> QED BY <1>2, <1>3, <1>5, <2>1, Zenon
<1> QED BY <1>2, <1>4, <1>5, Zenon

LEMMA PendingStep ==
  ASSUME Streaming, IInv, NEW valid \in BOOLEAN, NEW last \in BOOLEAN, NEW d \in Byte,
         Regularly(valid, last, d)
  PROVE  /\ last => /\ Pending' = Promise(Append(frame, d)) /\ Pending' \in Seq(Beat)
                    /\ fifo_tlast \/ Pending = <<>>
         /\ ~last => Pending' = IF fifo_tlast THEN <<>> ELSE Pending
<1>1. TypeOK /\ PipeInv /\ BufferInv
  BY DEF IInv
<1>2. /\ tlast'[1] = last /\ tlast'[2] = tlast[1] /\ tlast'[3] = tlast[2]
      /\ tlast[1] => tdata'[2] = flipped_crc \div 256 /\ tdata'[3] = flipped_crc % 256
      /\ ~tlast[1] => tdata'[2] = tdata[1] /\ tdata'[3] = tdata[2]
      /\ tx_mode' = tx_mode
      /\ Fifo!Clock(TRUE, en_fifo, fifo_tlast, bad_crc, tdata[3])
  BY <1>1, Clocked, Registers
<1>3. /\ tx_mode \in BOOLEAN
      /\ \A i \in {1, 2, 3} : tlast[i] \in BOOLEAN
  BY <1>1, Signals DEF TypeOK
<1>4. CASE ~tx_mode
  <2>1. ~fifo_tlast => Pending = <<>>
    BY <1>4, Zenon DEF Pending, PendingRx, fifo_tlast
  <2>2. ~last => Pending' = <<>>
    BY <1>2, <1>4, Zenon DEF Pending, PendingRx
  <2> QED BY <2>1, <2>2, PromiseStep, Zenon
<1>5. CASE tx_mode
  <2>1. ASSUME last
        PROVE  fifo_tlast \/ Pending = <<>>
    <3>1. ~tlast[1] /\ ~tlast[2]
      BY <1>5, <2>1, LastComes, Zenon DEF live2
    <3> QED BY <1>5, <3>1, Zenon DEF Pending, PendingTx, fifo_tlast
  <2>2. ASSUME ~last
        PROVE  Pending' = IF fifo_tlast THEN <<>> ELSE Pending
    <3> DEFINE lo == flipped_crc % 256
               hi == flipped_crc \div 256
    <3>1. /\ tlast[1] => tdata'[2] = hi /\ tdata'[3] = lo
          /\ Pending = IF tlast[1] THEN F!Burst(Append(Append(Append(F!filling, tdata[3]), lo), hi))
                       ELSE IF tlast[2] THEN F!Burst(Append(Append(F!filling, tdata[3]), tdata[2]))
                       ELSE IF tlast[3] THEN F!Burst(Append(F!filling, tdata[3])) ELSE <<>>
      BY <1>2, <1>5, Zenon DEF Pending, PendingTx
    <3> HIDE DEF lo, hi
    <3>2. Pending' = IF tlast[1] THEN F!Burst(Append(Append(F!filling', tdata'[3]), tdata'[2]))
                     ELSE IF tlast[2] THEN F!Burst(Append(F!filling', tdata'[3])) ELSE <<>>
      BY <1>2, <1>5, <2>2, Zenon DEF Pending, PendingTx
    <3>3. tlast[1] \/ tlast[2] => F!filling' = Append(F!filling, tdata[3])
      BY <1>2, <1>5, FillingStep
    <3>4. /\ tlast[1] => ~tlast[3]
          /\ tlast[2] => ~tlast[3]
          /\ fifo_tlast <=> tlast[3]
      BY <1>1, <1>5 DEF PipeInv, fifo_tlast
    <3>5. CASE tlast[1]
      BY <3>1, <3>2, <3>3, <3>4, <3>5, Zenon
    <3>6. CASE ~tlast[1] /\ tlast[2]
      BY <1>2, <3>1, <3>2, <3>3, <3>4, <3>6, Zenon
    <3>7. CASE ~tlast[1] /\ ~tlast[2]
      BY <3>1, <3>2, <3>4, <3>7, Zenon
    <3> QED BY <1>3, <3>5, <3>6, <3>7, Zenon
  <2> QED BY <2>1, <2>2, PromiseStep, Zenon
<1> QED BY <1>3, <1>4, <1>5, Zenon

-----------------------------------------------------------------------------
(* What is owed.                                                           *)

LEMMA BeatOnBus ==
  ASSUME BufferInv
  PROVE  /\ m_tvalid \in BOOLEAN /\ [data |-> dob[sel_fifo], last |-> m_tlast] \in Beat
         /\ F!beat = IF m_tvalid THEN <<[data |-> dob[sel_fifo], last |-> m_tlast]>> ELSE <<>>
<1>1. F!TypeOK
  BY DEF BufferInv, F!ImplInv, F!IInv
<1>2. m_tvalid \in BOOLEAN /\ m_tlast \in BOOLEAN /\ dob[sel_fifo] \in Byte
  <2>1. /\ dob \in [F!Fifo -> Byte] /\ sel_fifo \in F!Fifo
        /\ m_tvalid \in BOOLEAN /\ m_tlast \in BOOLEAN
    BY <1>1, Zenon DEF F!TypeOK
  <2> QED BY <2>1
<1>3. [data |-> dob[sel_fifo], last |-> m_tlast] \in Beat
  BY <1>2, Zenon DEF Beat
<1> QED BY <1>2, <1>3, Zenon DEF F!beat

\* The beat that the consumer sees at this clock is the first it is owed.
LEMMA FirstOwed ==
  ASSUME Streaming, TypeOK, BufferInv, OwedInv
  PROVE  /\ Unseen(TRUE) = F!owed \o Pending
         /\ m_tvalid => owed # <<>> /\ Head(owed) = [data |-> dob[sel_fifo], last |-> m_tlast]
<1> DEFINE o == F!owed
           p == Pending
           b == [data |-> dob[sel_fifo], last |-> m_tlast]
<1>1. o \in Seq(Beat) /\ p \in Seq(Beat) /\ b \in Beat /\ m_tvalid \in BOOLEAN
  BY Queue, PendingTypes, BeatOnBus, Zenon
<1>2. owed = (IF m_tvalid THEN <<b>> ELSE <<>>) \o o \o p
  BY BeatOnBus, Zenon DEF OwedInv
<1> HIDE DEF o, p, b
<1>3. o \o p \in Seq(Beat)
  BY <1>1, ConcatProperties
<1>4. CASE m_tvalid
  <2>1. <<b>> \in Seq(Beat) /\ <<b>> # <<>> /\ Len(<<b>>) = 1 /\ <<b>>[1] = b
    BY <1>1
  <2>2. owed = <<b>> \o (o \o p)
    BY <1>1, <1>2, <1>4, <2>1, ConcatAssociative
  <2>3. Head(owed) = b /\ Tail(owed) = o \o p /\ owed # <<>>
    BY <1>1, <1>3, <2>1, <2>2, ConcatProperties, HeadTailProperties
  <2> QED BY <1>4, <2>3, Zenon DEF Unseen, o, p, b
<1>5. CASE ~m_tvalid
  <2>1. owed = o \o p
    BY <1>1, <1>2, <1>5, ConcatEmptySeq
  <2> QED BY <1>5, <2>1, Zenon DEF Unseen, o, p
<1> QED BY <1>1, <1>4, <1>5

\* What is owed, when it has been so far.
LEMMA OfferedOrLeft ==
  ASSUME Streaming, BufferInv, F!beat' = (IF F!owed = <<>> THEN <<>> ELSE <<Head(F!owed)>>)
  PROVE  F!beat' \o F!left = F!owed /\ F!beat' \in Seq(Beat)
<1> DEFINE o == F!owed
<1>1. o \in Seq(Beat)
  BY Queue, Zenon
<1>2. /\ o = <<>> => F!beat' = <<>> /\ F!left = <<>>
      /\ o # <<>> => F!beat' = <<Head(o)>> /\ F!left = Tail(o)
  BY Zenon DEF F!left
<1> HIDE DEF o
<1>3. o = <<>> => <<>> \o <<>> = o /\ <<>> \in Seq(Beat)
  OBVIOUS
<1>4. o # <<>> => <<Head(o)>> \o Tail(o) = o /\ <<Head(o)>> \in Seq(Beat)
  BY <1>1, HeadTailProperties
<1> QED BY <1>2, <1>3, <1>4, Zenon DEF o

LEMMA Joined ==
  ASSUME NEW s \in Seq(Beat), NEW t \in Seq(Beat), NEW u \in Seq(Beat)
  PROVE  s \o (t \o u) = (s \o t) \o u
BY ConcatAssociative

LEMMA OwedStep ==
  ASSUME Streaming, IInv, NEW valid \in BOOLEAN, NEW last \in BOOLEAN, NEW d \in Byte,
         Regularly(valid, last, d)
  PROVE  OwedInv'
<1>1. TypeOK /\ BufferInv /\ OwedInv
  BY DEF IInv
<1>2. Fifo!Clock(TRUE, en_fifo, fifo_tlast, bad_crc, tdata[3])
  BY <1>1, Clocked, Registers
<1>3. F!beat' \o F!left = F!owed /\ F!beat' \in Seq(Beat)
  BY <1>1, <1>2, BufferStep, OfferedOrLeft, Zenon
<1>4. F!owed' = IF fifo_tlast THEN F!left \o Pending ELSE F!left
  BY <1>2, QueueStep
<1>5. /\ last => Pending' = Promise(Append(frame, d)) /\ (fifo_tlast \/ Pending = <<>>)
      /\ ~last => Pending' = IF fifo_tlast THEN <<>> ELSE Pending
  BY PendingStep
<1>6. owed' = IF last THEN (F!owed \o Pending) \o Pending' ELSE F!owed \o Pending
  <2>1. owed' = IF last THEN Unseen(TRUE) \o Promise(Append(frame, d)) ELSE Unseen(TRUE)
    BY <1>1, HistoryStep
  <2>2. Unseen(TRUE) = F!owed \o Pending
    BY <1>1, FirstOwed
  <2> QED BY <1>5, <2>1, <2>2, Zenon
<1> DEFINE b == F!beat'
           l == F!left
           p == Pending
           o == F!owed
<1>7. b \in Seq(Beat) /\ l \in Seq(Beat) /\ p \in Seq(Beat) /\ o \in Seq(Beat) /\ b \o l = o
  BY <1>1, <1>3, Queue, PendingTypes, Zenon
<1>8. CASE fifo_tlast
  <2>1. F!owed' = l \o p
    BY <1>4, <1>8
  <2>2. b \o (l \o p) = o \o p
    <3> HIDE DEF b, l, p, o
    <3>1. b \o (l \o p) = (b \o l) \o p
      BY <1>7, Joined, Zenon
    <3> QED BY <1>7, <3>1, Zenon
  <2>3. (o \o p) \o <<>> = o \o p
    <3> HIDE DEF b, l, p, o
    <3>1. o \o p \in Seq(Beat)
      BY <1>7, ConcatProperties
    <3> QED BY <3>1, ConcatEmptySeq
  <2>4. owed' = (o \o p) \o Pending'
    BY <1>5, <1>6, <1>8, <2>3, Zenon
  <2> QED BY <2>1, <2>2, <2>4, Zenon DEF OwedInv
<1>9. CASE ~fifo_tlast
  <2>1. F!owed' = l
    BY <1>4, <1>9
  <2>2. o \o <<>> = o
    <3> HIDE DEF o
    <3> QED BY <1>7, ConcatEmptySeq
  <2>3. owed' = o \o Pending'
    BY <1>5, <1>6, <1>9, <2>2, Zenon
  <2> QED BY <1>7, <2>1, <2>3, Zenon DEF OwedInv
<1> QED BY <1>8, <1>9

-----------------------------------------------------------------------------
(* How far the consumer has come.                                          *)

LEMMA PaceStep ==
  ASSUME Streaming, IInv, NEW valid \in BOOLEAN, NEW last \in BOOLEAN, NEW d \in Byte,
         Regularly(valid, last, d)
  PROVE  PaceInv'
<1>1. TypeOK /\ PipeInv /\ BufferInv /\ PaceInv
  BY DEF IInv
<1>2. /\ tlast'[1] = last /\ tlast'[2] = tlast[1] /\ tlast'[3] = tlast[2]
      /\ tx_mode' = tx_mode
      /\ Fifo!Clock(TRUE, en_fifo, fifo_tlast, bad_crc, tdata[3])
  BY <1>1, Clocked, Registers
<1> DEFINE L  == Len(F!owed)
           M  == Len(F!left)
           P  == Len(Pending)
           L2 == Len(F!owed')
           P2 == Len(Pending')
<1>3. /\ L \in Nat /\ M \in Nat /\ P \in Nat /\ pace \in Nat /\ lag \in {1, 3}
      /\ M = IF L = 0 THEN 0 ELSE L - 1
  BY <1>1, Queue, PendingTypes DEF TypeOK, lag
<1>4. L2 = IF fifo_tlast THEN M + P ELSE M
  <2>1. F!owed' = IF fifo_tlast THEN F!left \o Pending ELSE F!left
    BY <1>2, QueueStep
  <2>2. F!left \in Seq(Beat) /\ Pending \in Seq(Beat)
    BY <1>1, Queue, PendingTypes
  <2>3. Len(F!left \o Pending) = M + P
    BY <2>2, ConcatProperties
  <2> QED BY <2>1, <2>3, Zenon
<1>5. ~last /\ ~fifo_tlast => P2 = P
  BY PendingStep, Zenon
<1>6. /\ last => pace' = P2 /\ pace <= 1
      /\ ~last => pace' = IF pace > 0 THEN pace - 1 ELSE 0
  <2>1. pace' = IF last THEN Len(Promise(Append(frame, d)))
                ELSE IF pace > 0 THEN pace - 1 ELSE 0
    BY <1>1, HistoryStep
  <2>2. last => pace <= 1
    BY Zenon DEF Regularly
  <2>3. last => Pending' = Promise(Append(frame, d))
    BY PendingStep, Zenon
  <2> QED BY <2>1, <2>2, <2>3, Zenon
<1>7. /\ L <= pace + lag
      /\ \A i \in 1..lag : tlast[i] => L + i <= lag + 1 /\ P < pace + i
  BY <1>1, Zenon DEF PaceInv
<1>8. /\ fifo_tlast <=> tlast[lag]
      /\ lag \in 1..lag
  BY <1>3 DEF fifo_tlast, lag
<1>9. fifo_tlast => L + lag <= lag + 1 /\ P < pace + lag
  BY <1>7, <1>8, Zenon
<1>10. P2 \in Nat
  <2>1. last \/ fifo_tlast \/ (~last /\ ~fifo_tlast)
    OBVIOUS
  <2>2. last => Pending' \in Seq(Beat)
    BY PendingStep, Zenon
  <2>3. ~last => Pending' = IF fifo_tlast THEN <<>> ELSE Pending
    BY PendingStep, Zenon
  <2>4. <<>> \in Seq(Beat) /\ Pending \in Seq(Beat)
    BY <1>1, PendingTypes
  <2>5. Pending' \in Seq(Beat)
    BY <2>2, <2>3, <2>4, Zenon
  <2> QED BY <2>5
<1>11. lag' = lag
  BY <1>2, Zenon DEF lag
<1> HIDE DEF L, M, P, L2, P2
<1>12. L2 <= pace' + lag
  BY <1>3, <1>4, <1>6, <1>7, <1>9, <1>10
<1>13. ASSUME last
       PROVE  L2 + 1 <= lag + 1 /\ P2 < pace' + 1
  BY <1>3, <1>4, <1>6, <1>7, <1>9, <1>10, <1>13
<1>14. ASSUME NEW i \in 2..lag, tlast[i - 1]
       PROVE  L2 + i <= lag + 1 /\ P2 < pace' + i
  <2>1. tx_mode /\ i - 1 \in 1..lag /\ lag = 3 /\ (i - 1 = 1 \/ i - 1 = 2)
    BY <1>3, <1>14 DEF lag
  <2>2. tlast[1] \/ tlast[2]
    BY <1>14, <2>1, Zenon
  <2>3. ~fifo_tlast
    BY <1>1, <2>1, <2>2 DEF PipeInv, fifo_tlast
  <2>4. ~last
    <3>1. last => ~tlast[1] /\ ~tlast[2]
      BY <2>1, LastComes, Zenon DEF live2
    <3> QED BY <2>2, <3>1
  <2>5. L + (i - 1) <= lag + 1 /\ P < pace + (i - 1)
    BY <1>7, <1>14, <2>1, Zenon
  <2>6. P2 = P /\ L2 = M /\ pace' = IF pace > 0 THEN pace - 1 ELSE 0
    BY <1>4, <1>5, <1>6, <2>3, <2>4, Zenon
  <2> QED BY <1>3, <2>1, <2>5, <2>6
<1>15. ASSUME NEW i \in 1..lag, tlast'[i]
       PROVE  L2 + i <= lag + 1 /\ P2 < pace' + i
  <2>1. CASE i = 1
    BY <1>2, <1>13, <1>15, <2>1
  <2>2. CASE i # 1
    <3>1. i \in 2..lag /\ (i = 2 \/ i = 3)
      BY <1>3, <2>2
    <3>2. i - 1 = IF i = 2 THEN 1 ELSE 2
      BY <3>1
    <3>3. tlast[i - 1]
      BY <1>2, <1>15, <3>1, <3>2, Zenon
    <3> QED BY <1>14, <3>1, <3>3
  <2> QED BY <2>1, <2>2
<1> QED BY <1>11, <1>12, <1>15, Zenon DEF PaceInv, L2, P2

-----------------------------------------------------------------------------
(* The buffer and the types.                                               *)

LEMMA RoomStep ==
  ASSUME Streaming, IInv, NEW valid \in BOOLEAN, NEW last \in BOOLEAN, NEW d \in Byte,
         Regularly(valid, last, d)
  PROVE  BufferInv'
<1>1. TypeOK /\ PipeInv /\ BufferInv
  BY DEF IInv
<1>2. /\ tvalid'[1] = valid /\ tvalid'[2] = tvalid[1] /\ tvalid'[3] = tvalid[2]
      /\ tlast'[1] = last /\ tlast'[2] = tlast[1] /\ tlast'[3] = tlast[2]
      /\ tx_mode' = tx_mode
      /\ Fifo!Clock(TRUE, en_fifo, fifo_tlast, bad_crc, tdata[3])
  BY <1>1, Clocked, Registers
<1>3. F!ImplInv' /\ ~F!Waiting' /\ ~F!dirty'
  BY <1>2, BufferStep
<1>4. ASSUME ~tx_mode, (tlast[2] \/ tlast[3] \/ (tlast[1] /\ ~en_fifo))'
      PROVE  F!filling' = <<>>
  <2>1. F!filling' = reached3
    BY <1>2, <1>4, FillingStep
  <2>2. CASE tlast[1] \/ tlast[2]
    BY <2>1, <2>2, Zenon DEF reached3, out, live3, Clear
  <2>3. CASE ~(tlast[1] \/ tlast[2])
    <3>1. last /\ ~en_fifo'
      BY <1>2, <1>4, <2>3, Zenon
    <3>2. ~tvalid[2]
      BY <1>2, <1>4, <2>3, <3>1, Zenon DEF en_fifo, skip_crc
    <3>3. ~(Len(frame) >= 2)
      BY <3>1, <3>2, LastComes, Zenon DEF live2
    <3>4. Len(frame) < 2
      <4>1. Len(frame) \in Nat
        BY <1>1 DEF TypeOK
      <4> QED BY <3>3, <4>1
    <3> QED BY <2>1, <3>1, <3>4, LastComes, Zenon
  <2> QED BY <2>2, <2>3
<1> DEFINE n  == Len(F!filling)
           n2 == Len(F!filling')
<1>5. n \in Nat /\ DEPTH \in Nat
  BY <1>1, Queue DEF Streaming
<1>6. ASSUME tx_mode, last
      PROVE  n2 + 3 <= DEPTH
  <2>1. Len(frame) >= 2
    BY <1>6 DEF Regularly
  <2>2. Len(frame) = Len(reached3) + 2 /\ F!filling' = reached3
    BY <1>6, <2>1, LastComes, Shift, Zenon
  <2>3. Len(frame) + 1 <= DEPTH
    BY <1>6 DEF Regularly
  <2>4. Len(reached3) \in Nat
    BY <1>1, Reached
  <2> QED BY <1>5, <2>2, <2>3, <2>4
<1>7. ASSUME tx_mode, tlast[1] \/ tlast[2]
      PROVE  /\ n2 = n + 1
             /\ tlast[1] => n + 3 <= DEPTH
             /\ tlast[2] => n + 2 <= DEPTH
  <2>1. F!filling' = Append(F!filling, tdata[3])
    BY <1>2, <1>7, FillingStep
  <2>2. F!filling \in Seq(Byte) /\ tdata[3] \in Byte
    BY <1>1, Queue, Signals
  <2>3. Len(Append(F!filling, tdata[3])) = n + 1
    BY <2>2, OneMore
  <2>4. \A i \in 1..3 : tlast[i] => n + 4 - i <= DEPTH
    BY <1>1, <1>7, Zenon DEF BufferInv
  <2>5. /\ tlast[1] => n + 4 - 1 <= DEPTH
        /\ tlast[2] => n + 4 - 2 <= DEPTH
    BY <2>4
  <2> QED BY <1>5, <2>1, <2>3, <2>5
<1>8. ASSUME tx_mode, NEW i \in 1..3, tlast'[i]
      PROVE  n2 + 4 - i <= DEPTH
  <2> HIDE DEF n, n2
  <2>1. CASE i = 1
    <3>1. n2 + 3 <= DEPTH
      BY <1>2, <1>6, <1>8, <2>1, Zenon
    <3>2. n2 + 4 - 1 = n2 + 3
      <4>1. n2 \in Int
        <5>1. F!filling' = reached3
          BY <1>2, <1>8, <2>1, Shift, Zenon
        <5>2. Len(reached3) \in Nat
          BY <1>1, Reached
        <5> QED BY <5>1, <5>2 DEF n2
      <4> QED BY <4>1
    <3> QED BY <2>1, <3>1, <3>2, Zenon
  <2>2. CASE i = 2
    <3>1. n2 = n + 1 /\ n + 3 <= DEPTH
      BY <1>2, <1>7, <1>8, <2>2, Zenon
    <3> QED BY <1>5, <2>2, <3>1
  <2>3. CASE i = 3
    <3>1. n2 = n + 1 /\ n + 2 <= DEPTH
      BY <1>2, <1>7, <1>8, <2>3, Zenon
    <3> QED BY <1>5, <2>3, <3>1
  <2> QED BY <2>1, <2>2, <2>3
<1> QED BY <1>2, <1>3, <1>4, <1>8, Zenon DEF BufferInv, n2

LEMMA Triple ==
  ASSUME NEW S, NEW a \in S, NEW b \in S, NEW c \in S
  PROVE  <<a, b, c>> \in [1..3 -> S]
OBVIOUS

LEMMA TypeStep ==
  ASSUME Streaming, IInv, NEW valid \in BOOLEAN, NEW last \in BOOLEAN, NEW d \in Byte,
         Regularly(valid, last, d)
  PROVE  TypeOK' /\ tx_mode' \in TxModes
<1>1. TypeOK /\ BufferInv /\ OwedInv /\ tx_mode \in TxModes
  BY DEF IInv
<1>2. Edge(TRUE, valid, last, d)
  BY Clocked
<1>3. /\ crc_reg' = IF tlast[3] THEN 0
                    ELSE IF tvalid[3] THEN NextCrc(crc_reg, tdata[3]) ELSE crc_reg
      /\ tx_mode' = tx_mode
      /\ Fifo!Clock(TRUE, en_fifo, fifo_tlast, bad_crc, tdata[3])
  BY <1>1, <1>2, Registers
<1>4. /\ flipped_crc % 256 \in Byte /\ flipped_crc \div 256 \in Byte
      /\ tdata[1] \in Byte /\ tdata[2] \in Byte /\ tdata[3] \in Byte
      /\ tvalid[1] \in BOOLEAN /\ tvalid[2] \in BOOLEAN
      /\ tlast[1] \in BOOLEAN /\ tlast[2] \in BOOLEAN
      /\ crc_reg \in Word16 /\ frame \in Seq(Byte) /\ pace \in Nat /\ tx_mode \in BOOLEAN
  BY <1>1, Signals DEF TypeOK
<1>5. tdata' \in [1..3 -> Byte]
  <2> DEFINE lo == flipped_crc % 256
             hi == flipped_crc \div 256
  <2>1. lo \in Byte /\ hi \in Byte
    BY <1>4
  <2>2. tdata' = << IF valid THEN d ELSE tdata[1],
                    IF tlast[1] THEN hi ELSE tdata[1],
                    IF tlast[1] THEN lo ELSE tdata[2] >>
    BY <1>2, Zenon DEF Edge, P_INPUT
  <2> HIDE DEF lo, hi
  <2>3. /\ (IF valid THEN d ELSE tdata[1]) \in Byte
        /\ (IF tlast[1] THEN hi ELSE tdata[1]) \in Byte
        /\ (IF tlast[1] THEN lo ELSE tdata[2]) \in Byte
    BY <1>4, <2>1, Zenon
  <2> QED BY <2>2, <2>3, Triple, Zenon
<1>6. tvalid' \in [1..3 -> BOOLEAN] /\ tlast' \in [1..3 -> BOOLEAN]
  <2>1. tvalid' = <<valid, tvalid[1], tvalid[2]>> /\ tlast' = <<last, tlast[1], tlast[2]>>
    BY <1>2, Zenon DEF Edge, P_TVALID, P_TLAST
  <2> QED BY <1>4, <2>1, Triple, Zenon
<1>7. crc_reg' \in Word16
  <2>1. 0 \in Word16
    BY Words
  <2> QED BY <1>3, <1>4, <2>1, NextWord, Zenon
<1>8. frame' \in Seq(Byte)
  <2>1. frame' = IF ~valid THEN frame ELSE IF last THEN <<>> ELSE Append(frame, d)
    BY <1>1, HistoryStep
  <2>2. <<>> \in Seq(Byte) /\ Append(frame, d) \in Seq(Byte)
    BY <1>4
  <2> QED BY <1>4, <2>1, <2>2, Zenon
<1>9. sums' \in Seq(Word16)
  BY SumStep
<1>10. last => Promise(Append(frame, d)) \in Seq(Beat)
  BY PendingStep, Zenon
<1>11. owed' \in Seq(Beat)
  <2>1. F!owed \in Seq(Beat) /\ Pending \in Seq(Beat)
    BY <1>1, Queue, PendingTypes
  <2>2. F!owed \o Pending \in Seq(Beat)
    BY <2>1, ConcatProperties
  <2>3. Unseen(TRUE) \in Seq(Beat)
    BY <1>1, <2>2, FirstOwed, Zenon
  <2>4. last => Unseen(TRUE) \o Promise(Append(frame, d)) \in Seq(Beat)
    BY <1>10, <2>3, ConcatProperties
  <2>5. owed' = IF last THEN Unseen(TRUE) \o Promise(Append(frame, d)) ELSE Unseen(TRUE)
    BY <1>1, HistoryStep
  <2> QED BY <2>3, <2>4, <2>5, Zenon
<1>12. pace' \in Nat
  <2>1. last => Len(Promise(Append(frame, d))) \in Nat
    BY <1>10, LenProperties
  <2>2. (IF pace > 0 THEN pace - 1 ELSE 0) \in Nat
    BY <1>4
  <2>3. pace' = IF last THEN Len(Promise(Append(frame, d)))
                ELSE IF pace > 0 THEN pace - 1 ELSE 0
    BY <1>1, HistoryStep
  <2> QED BY <2>1, <2>2, <2>3, Zenon
<1>13. (Fifo!TypeOK)'
  <2>1. F!ImplInv'
    BY <1>3, BufferStep
  <2>2. F!TypeOK'
    BY <2>1, Zenon DEF F!ImplInv, F!IInv
  <2>3. (F!TypeOK <=> Fifo!TypeOK)'
    BY SameTypes, PTL
  <2> QED BY <2>2, <2>3, Zenon
<1> QED BY <1>1, <1>3, <1>4, <1>5, <1>6, <1>7, <1>8, <1>9, <1>11, <1>12, <1>13, Zenon DEF TypeOK

LEMMA TickStep == ASSUME Streaming, IInv, Tick PROVE IInv'
<1>1. PICK valid, last \in BOOLEAN, d \in Byte : Regularly(valid, last, d)
  BY TickRegular DEF IInv
<1>2. TypeOK' /\ tx_mode' \in TxModes
  BY <1>1, TypeStep, Zenon
<1>3. PipeInv' /\ SumInv' /\ BufferInv'
  BY <1>1, PipeStep, SumStep, RoomStep, Zenon
<1>4. PaceInv' /\ OwedInv'
  BY <1>1, PaceStep, OwedStep, Zenon
<1> QED BY <1>2, <1>3, <1>4 DEF IInv

-----------------------------------------------------------------------------
(* The beginning, and a reset.                                             *)

Cleared ==
  /\ tx_mode \in TxModes
  /\ tdata = <<0, 0, 0>> /\ tvalid = <<FALSE, FALSE, FALSE>> /\ tlast = <<FALSE, FALSE, FALSE>>
  /\ crc_reg = 0
  /\ frame = <<>> /\ sums = <<>> /\ owed = <<>> /\ pace = 0
  /\ F!ImplInv /\ ~F!Waiting
  /\ F!filling = <<>> /\ F!dirty = FALSE /\ F!owed = <<>> /\ F!beat = <<>>

LEMMA ClearedInv == Streaming /\ Cleared => IInv
<1> SUFFICES ASSUME Streaming, Cleared PROVE IInv
  OBVIOUS
<1>1. /\ tx_mode \in TxModes /\ TxModes \subseteq BOOLEAN
      /\ tdata = <<0, 0, 0>> /\ tvalid = <<FALSE, FALSE, FALSE>> /\ tlast = <<FALSE, FALSE, FALSE>>
      /\ crc_reg = 0
      /\ frame = <<>> /\ sums = <<>> /\ owed = <<>> /\ pace = 0
      /\ F!ImplInv /\ ~F!Waiting
      /\ F!filling = <<>> /\ F!dirty = FALSE /\ F!owed = <<>> /\ F!beat = <<>>
  BY LibertiesAssumption, Zenon DEF Cleared
<1>2. ~tlast[1] /\ ~tlast[2] /\ ~tlast[3] /\ ~tvalid[1] /\ ~tvalid[2] /\ ~tvalid[3]
  BY <1>1
<1>3. \A i \in 1..3 : ~tlast[i] /\ ~tvalid[i]
  <2>1. \A i \in 1..3 : i = 1 \/ i = 2 \/ i = 3
    OBVIOUS
  <2> QED BY <1>2, <2>1, Zenon
<1>4. TypeOK
  <2>1. 0 \in Byte /\ 0 \in Word16
    BY Bytes, Words
  <2>2. /\ tdata \in [1..3 -> Byte] /\ tvalid \in [1..3 -> BOOLEAN] /\ tlast \in [1..3 -> BOOLEAN]
    <3>1. FALSE \in BOOLEAN
      OBVIOUS
    <3> QED BY <1>1, <2>1, <3>1, Triple, Zenon
  <2>3. frame \in Seq(Byte) /\ sums \in Seq(Word16) /\ owed \in Seq(Beat) /\ pace \in Nat
    BY <1>1
  <2>4. Fifo!TypeOK
    BY <1>1, SameTypes DEF F!ImplInv, F!IInv
  <2>5. tx_mode \in BOOLEAN
    BY <1>1
  <2> QED BY <1>1, <2>1, <2>2, <2>3, <2>4, <2>5, Zenon DEF TypeOK
<1>5. PipeInv
  <2>1. reached1 = <<>>
    BY <1>1, <1>2, Zenon DEF reached1, reached2, reached3, out, live1, live2, live3
  <2>2. Len(frame) < DEPTH
    BY <1>1 DEF Streaming
  <2> QED BY <1>1, <1>3, <1>2, <2>1, <2>2, Zenon DEF PipeInv
<1>6. SumInv
  <2>1. Len(sums) = Len(frame) /\ 1..Len(frame) = {} /\ Len(F!filling) = 0
    BY <1>1
  <2> QED BY <1>1, <2>1, Zenon DEF SumInv, SumAt
<1>7. BufferInv
  BY <1>1, <1>3, <1>2, Zenon DEF BufferInv
<1>8. Pending = <<>>
  BY <1>2, Zenon DEF Pending, PendingRx, PendingTx
<1>9. PaceInv
  <2>1. Len(F!owed) <= pace + lag
    BY <1>1 DEF lag
  <2>2. 1..lag \subseteq 1..3
    BY DEF lag
  <2> QED BY <1>3, <2>1, <2>2 DEF PaceInv
<1>10. OwedInv
  BY <1>1, <1>8 DEF OwedInv
<1> QED BY <1>1, <1>4, <1>5, <1>6, <1>7, <1>9, <1>10 DEF IInv

LEMMA InitCleared == ASSUME Streaming, Init PROVE Cleared
<1>1. F!DepthAssumption /\ F!EnvAssumption
  BY SizesOfBuffer
<1>2. F!Init
  BY SameStart DEF Init
<1>3. /\ F!ImplInv /\ ~F!Waiting
      /\ F!filling = <<>> /\ F!dirty = FALSE /\ F!owed = <<>> /\ F!beat = <<>>
  BY <1>1, <1>2, F!StreamStart, Zenon
<1> QED BY <1>3, Zenon DEF Init, Cleared

LEMMA ResetClears == ASSUME Streaming, IInv, ResetEdge PROVE Cleared'
<1>1. F!DepthAssumption /\ F!EnvAssumption
  BY SizesOfBuffer
<1>2. en_fifo \in BOOLEAN /\ tdata[3] \in Byte /\ F!ImplInv
  BY Signals DEF IInv, BufferInv
<1>3. F!Reset(en_fifo, tdata[3])
  BY SameReset DEF ResetEdge
<1>4. /\ F!ImplInv' /\ ~F!Waiting'
      /\ F!filling' = <<>> /\ F!dirty' = FALSE /\ F!owed' = <<>> /\ F!beat' = <<>>
  BY <1>1, <1>2, <1>3, F!StreamReset, Zenon
<1>5. tx_mode' \in TxModes
  BY Zenon DEF IInv, ResetEdge
<1> QED BY <1>4, <1>5, Zenon DEF ResetEdge, Cleared

-----------------------------------------------------------------------------
(* The invariant.                                                          *)

LEMMA ResetStep == ASSUME Streaming, IInv, ResetEdge PROVE IInv'
<1>1. Cleared'
  BY ResetClears
<1>2. (Streaming /\ Cleared => IInv)'
  BY ClearedInv, PTL
<1>3. Streaming'
  BY Zenon DEF Streaming
<1> QED BY <1>1, <1>2, <1>3, Zenon

LEMMA StutterStep == ASSUME IInv, UNCHANGED vars PROVE IInv'
<1>1. UNCHANGED <<pipeline, history, buffer>> /\ tx_mode' = tx_mode
  BY DEF vars
<1>2. tdata' = tdata /\ tvalid' = tvalid /\ tlast' = tlast /\ crc_reg' = crc_reg
  BY <1>1 DEF pipeline
<1>3. frame' = frame /\ sums' = sums /\ owed' = owed /\ pace' = pace
  BY <1>1 DEF history
<1>4. /\ state' = state /\ w_ptr' = w_ptr /\ r_ptr' = r_ptr /\ skip_fifo' = skip_fifo
      /\ initialized' = initialized /\ ram' = ram /\ dob' = dob /\ m_tvalid' = m_tvalid
      /\ m_tlast' = m_tlast /\ s_tready' = s_tready /\ almost_full' = almost_full
      /\ sel_fifo' = sel_fifo
  BY <1>1 DEF buffer
<1>5. TypeOK' /\ tx_mode' \in TxModes
  BY <1>1, <1>2, <1>3, <1>4, Zenon DEF IInv, TypeOK, Fifo!TypeOK
<1>6. /\ F!owed' = F!owed /\ F!beat' = F!beat /\ F!filling' = F!filling /\ F!dirty' = F!dirty
      /\ F!Waiting' <=> F!Waiting
  BY <1>4, Zenon DEF F!owed, F!beat, F!filling, F!dirty, F!Waiting, F!HasUnread, F!BeingRead,
                     F!Unread, F!Parked, F!Writing, F!Reading
<1>7. F!ImplInv'
  BY <1>4, Zenon DEF IInv, BufferInv, F!ImplInv, F!IInv, F!TypeOK, F!ReaderBehind, F!SkipOfWriter,
                     F!Started, F!WriterUnread, F!Writing, F!Reading
<1>8. /\ en_fifo' <=> en_fifo
      /\ flipped_crc' = flipped_crc
      /\ lag' = lag
      /\ Clear' <=> Clear
      /\ \A k : SumAt(k)' = SumAt(k)
  BY <1>1, <1>2, <1>3, Zenon DEF en_fifo, skip_crc, flipped_crc, lag, Clear, SumAt
<1>9. bad_crc' <=> bad_crc
  BY <1>1, <1>2, <1>8, Zenon DEF bad_crc
<1>10. Pending' = Pending
  BY <1>1, <1>2, <1>6, <1>8, <1>9, Zenon DEF Pending, PendingRx, PendingTx
<1>11. reached1' = reached1
  BY <1>2, <1>6, <1>8, Zenon DEF reached1, reached2, reached3, out, live1, live2, live3
<1>12. PipeInv' /\ SumInv'
  BY <1>1, <1>2, <1>3, <1>6, <1>8, <1>11, Zenon DEF IInv, PipeInv, SumInv
<1>13. BufferInv' /\ PaceInv' /\ OwedInv'
  BY <1>1, <1>2, <1>3, <1>6, <1>7, <1>8, <1>10, Zenon DEF IInv, BufferInv, PaceInv, OwedInv
<1> QED BY <1>5, <1>12, <1>13 DEF IInv

LEMMA Invariance == Streaming => (Spec => []IInv)
<1> SUFFICES ASSUME Streaming PROVE Spec => []IInv
  OBVIOUS
<1>1. Init => IInv
  BY InitCleared, ClearedInv
<1>2. IInv /\ [Next]_vars => IInv'
  BY TickStep, ResetStep, StutterStep DEF Next
<1> QED BY <1>1, <1>2, PTL DEF Spec

-----------------------------------------------------------------------------
(* What follows from it.                                                   *)

\* Every register of the checker stays in its range, the pointers of its buffer
\* included.
THEOREM TypeCorrect == Streaming => (Spec => []TypeOK)
<1> SUFFICES ASSUME Streaming PROVE Spec => []TypeOK
  OBVIOUS
<1>1. IInv => TypeOK
  BY DEF IInv
<1> QED BY <1>1, Invariance, PTL

\* What the consumer is offered is the next beat of what the comments on
\* tx_mode promise for the frames that were sent: in RX mode the frames whose
\* checksum matches, without it, and in TX mode every frame with the checksum
\* over its last two words.  Frames may follow one another without a gap, and a
\* reset may fall on any clock.
THEOREM PromiseOffered == Streaming => (Spec => []OffersPromised)
<1> SUFFICES ASSUME Streaming PROVE Spec => []OffersPromised
  OBVIOUS
<1>1. IInv => OffersPromised
  BY FirstOwed DEF IInv, OffersPromised
<1> QED BY <1>1, Invariance, PTL
=============================================================================
