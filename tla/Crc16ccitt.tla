----------------------------- MODULE Crc16ccitt -----------------------------
(***************************************************************************)
(* The CRC checker zluudg_crc16ccitt.vhd with its ping-pong buffer, on one *)
(* clock: a delay line of three words, the checksum register, and the      *)
(* gating that keeps the checksum of a received frame out of the buffer    *)
(* (RX mode) or writes it over the last two words (TX mode).               *)
(*                                                                         *)
(* frame, sums and owed are history variables: the words of the frame the  *)
(* source is sending, the checksum register over each of its prefixes, and *)
(* what the comments on tx_mode promise the consumer; pace counts down the *)
(* clocks it takes to read the frame that was sent before.                 *)
(* A word is its low byte; the upper 24 bits are carried along or zeroed.  *)
(***************************************************************************)
EXTENDS CrcTables, Integers

CONSTANTS
  Frames,       \* for each tx_mode, the frames the source sends, checksum included
  DEPTH, WATERMARK,
  TxModes,      \* sr_crc_mode(0), as the host may have set it
  Liberties     \* what the surroundings may do beyond the regular stream

\* "stall":    the consumer may be not ready;
\* "bubble":   s_in_tvalid may be low between the last three words of a frame;
\* "overtake": a frame may end before the frame before it has been read out.
ASSUME LibertiesAssumption ==
  /\ Liberties \subseteq {"stall", "bubble", "overtake"}
  /\ TxModes \subseteq BOOLEAN
  /\ \A mode \in TxModes : Frames[mode] \subseteq Seq(Byte)

VARIABLES
  tx_mode,
  tdata, tvalid, tlast,   \* <<tdata_d, tdata_dd, tdata_ddd>> and so on
  crc_reg,
  frame, sums, owed, pace,
  state, w_ptr, r_ptr, skip_fifo, initialized, ram, dob,
  m_tvalid, m_tlast, s_tready, almost_full, sel_fifo

pipeline == <<tdata, tvalid, tlast, crc_reg>>
history  == <<frame, sums, owed, pace>>
buffer   == <<state, w_ptr, r_ptr, skip_fifo, initialized, ram, dob,
              m_tvalid, m_tlast, s_tready, almost_full, sel_fifo>>
vars     == <<tx_mode, pipeline, history, buffer>>

\* The checker writes whenever a word reaches the end of its delay line.
Fifo == INSTANCE PPFifo WITH
  Data <- Byte, Ready <- BOOLEAN, Overtake <- {1, 2}, Pausing <- FALSE

Beat == [data : Byte, last : BOOLEAN]

TypeOK ==
  /\ tx_mode \in BOOLEAN
  /\ tdata \in [1..3 -> Byte] /\ tvalid \in [1..3 -> BOOLEAN] /\ tlast \in [1..3 -> BOOLEAN]
  /\ crc_reg \in Word16
  /\ frame \in Seq(Byte) /\ sums \in Seq(Word16) /\ owed \in Seq(Beat) /\ pace \in Nat
  /\ Fifo!TypeOK

FifoInit ==
  /\ state = "MA" /\ initialized = FALSE
  /\ w_ptr = <<0, 0>> /\ r_ptr = <<0, 0>> /\ skip_fifo = <<FALSE, FALSE>>
  /\ ram = [f \in 1..2 |-> [a \in 0..(DEPTH - 1) |-> 0]] /\ dob = <<0, 0>>
  /\ m_tvalid = FALSE /\ m_tlast = FALSE /\ s_tready = FALSE
  /\ almost_full = FALSE /\ sel_fifo = 2

Init ==
  /\ tx_mode \in TxModes
  /\ tdata = <<0, 0, 0>> /\ tvalid = <<FALSE, FALSE, FALSE>> /\ tlast = <<FALSE, FALSE, FALSE>>
  /\ crc_reg = 0
  /\ frame = <<>> /\ sums = <<>> /\ owed = <<>> /\ pace = 0
  /\ FifoInit

-----------------------------------------------------------------------------
(* The combinational signals.                                              *)

flipped_crc == Flip16(NextCrc(crc_reg, tdata[3]))

\* Mutant: a bad checksum is let through.
bad_crc_Never == FALSE

\* The last word is in tdata_d: it and the word before it must be the checksum.
bad_crc == tlast[1] /\ ~tx_mode /\ flipped_crc # 256 * tdata[1] + tdata[2]

skip_crc   == (tlast[2] \/ tlast[3]) /\ ~tx_mode
en_fifo    == tvalid[3] /\ ~skip_crc
fifo_tlast == IF tx_mode THEN tlast[3] ELSE tlast[1]

-----------------------------------------------------------------------------
(* The registers.  None of them looks at s_in_tready or m_out_tready.      *)

\* Mutant: the checksum is not sliced into bytes (the words are 32 bits wide).
P_INPUT_Whole(valid, d) ==
  tdata' = << IF valid THEN d ELSE tdata[1],
              IF tlast[1] THEN flipped_crc ELSE tdata[1],
              IF tlast[1] THEN flipped_crc ELSE tdata[2] >>

P_INPUT(valid, d) ==
  tdata' = << IF valid THEN d ELSE tdata[1],
              IF tlast[1] THEN flipped_crc \div 256 ELSE tdata[1],
              IF tlast[1] THEN flipped_crc % 256 ELSE tdata[2] >>

P_TVALID(valid) == tvalid' = <<valid, tvalid[1], tvalid[2]>>
P_TLAST(last)   == tlast'  = <<last, tlast[1], tlast[2]>>

\* Mutant: the register is not cleared between frames.  (A frame that carries a
\* checksum leaves it at zero anyway, P_INPUT having put the right one in its way.)
P_CRC_REG_NotCleared ==
  crc_reg' = IF tvalid[3] THEN NextCrc(crc_reg, tdata[3]) ELSE crc_reg

P_CRC_REG ==
  crc_reg' = IF tlast[3] THEN 0 ELSE IF tvalid[3] THEN NextCrc(crc_reg, tdata[3]) ELSE crc_reg

\* A rising edge with areset low.
Edge(rdy, valid, last, d) ==
  /\ P_INPUT(valid, d) /\ P_TVALID(valid) /\ P_TLAST(last) /\ P_CRC_REG
  /\ Fifo!Clock(rdy, en_fifo, fifo_tlast, bad_crc, tdata[3])
  /\ UNCHANGED tx_mode

-----------------------------------------------------------------------------
(* What is promised: "In TX mode we are replacing the last two bytes in    *)
(* the N-length input burst with the value of the CRC calculations of the  *)
(* first N-2 bytes."  In RX mode, "if the result does not match the        *)
(* remainging two bytes, we don't output anything.  If there is a match,   *)
(* we output the first N-2 bytes of the input."                            *)

Beats(bytes) == [i \in 1..Len(bytes) |-> [data |-> bytes[i], last |-> i = Len(bytes)]]

\* The checksum of the first n words of the frame, as it is sent.
Sum(n) == CrcBytes(IF n = 0 THEN 0 ELSE Flip16(sums[n]))

\* bytes is frame and the last word, which takes no part in the checksum.
Promise(bytes) ==
  LET N   == Len(bytes)
      mac == SubSeq(bytes, 1, N - 2)
      crc == Sum(N - 2)
  IN  IF N < 2 THEN <<>>
      ELSE IF tx_mode THEN Beats(mac \o crc)
      ELSE IF crc = SubSeq(bytes, N - 1, N) THEN Beats(mac) ELSE <<>>

Unseen(rdy) == IF m_tvalid /\ rdy /\ owed # <<>> THEN Tail(owed) ELSE owed

History(rdy, valid, last, d) ==
  LET accepted == valid /\ s_tready
      words    == Append(frame, d)
      register == IF frame = <<>> THEN 0 ELSE sums[Len(frame)]
  IN  /\ frame' = IF ~accepted THEN frame ELSE IF last THEN <<>> ELSE words
      /\ sums'  = IF ~accepted THEN sums ELSE IF last THEN <<>>
                  ELSE Append(sums, NextCrc(register, d))
      /\ owed'  = IF accepted /\ last THEN Unseen(rdy) \o Promise(words) ELSE Unseen(rdy)
      /\ pace'  = IF accepted /\ last THEN Len(Promise(words))
                  ELSE IF pace > 0 THEN pace - 1 ELSE 0

-----------------------------------------------------------------------------
(* The surroundings: an AXI source (axi_wrapper) and an AXI consumer.      *)

\* The words that continue the frame, with last set on the last one.
Offered ==
  LET n == Len(frame) + 1
      continuing == {f \in Frames[tx_mode] : n <= Len(f) /\ SubSeq(f, 1, n - 1) = frame}
  IN  {<<f[n], n = Len(f)>> : f \in continuing}

Regular(rdy, valid, last) ==
  /\ rdy \/ "stall" \in Liberties
  /\ valid => s_tready
  /\ (valid /\ last) => (\A i \in 1..2 : Len(frame) >= i => tvalid[i]) \/ "bubble" \in Liberties
  /\ (valid /\ last) => pace <= 1 \/ "overtake" \in Liberties

Step(rdy, valid, last, d) ==
  /\ Regular(rdy, valid, last)
  /\ Edge(rdy, valid, last, d)
  /\ History(rdy, valid, last, d)

Tick == \E rdy \in BOOLEAN : \/ \E w \in Offered : Step(rdy, TRUE, w[2], w[1])
                             \/ Step(rdy, FALSE, FALSE, 0)

\* A rising edge with areset high; the source starts a new frame after it.
ResetEdge ==
  /\ tdata' = <<0, 0, 0>> /\ tvalid' = <<FALSE, FALSE, FALSE>> /\ tlast' = <<FALSE, FALSE, FALSE>>
  /\ crc_reg' = 0
  /\ Fifo!Reset(en_fifo, tdata[3])
  /\ frame' = <<>> /\ sums' = <<>> /\ owed' = <<>> /\ pace' = 0
  /\ UNCHANGED tx_mode

Next == Tick \/ ResetEdge

Busy == m_tvalid \/ Fifo!BeingRead \/ \E i \in 1..3 : tvalid[i]

Spec     == Init /\ [][Next]_vars
FairSpec == Spec /\ WF_vars(Busy /\ Tick)

-----------------------------------------------------------------------------
\* Whatever is offered to the consumer is the next thing it was promised: no
\* byte of a bad frame, no checksum byte in RX mode, nothing lost or repeated.
OffersPromised ==
  m_tvalid => owed # <<>> /\ Head(owed) = [data |-> dob[sel_fifo], last |-> m_tlast]

\* What was promised arrives, up to the end of a frame, unless a reset comes.
PromiseKept == (owed # <<>>) ~> ((m_tvalid /\ m_tlast) \/ owed = <<>>)

\* "If the result does not match the remainging two bytes, we don't output
\* anything": nothing is offered while nothing is promised.
NothingUnpromised == m_tvalid => owed # <<>>
=============================================================================
