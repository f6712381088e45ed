------------------------------ MODULE Receiver ------------------------------
(***************************************************************************)
(* The back end of the receiver, as zluudg_receiver.vhd wires it: chips    *)
(* from the symbol synchronizer enter the detector, its sequences pass the *)
(* demapper (two clocks), its nibbles go to the packager, whose bytes fill *)
(* the ping-pong buffer and whose frame_done clears the detector.  All of  *)
(* it runs on one clock and resets together.                               *)
(*                                                                         *)
(* The history variables locked, run, heard and owed are the receiver as   *)
(* one would like it, without any delay: it locks on a header, reads the   *)
(* frame, owes its bytes to the host, and hunts again (heard is the frame  *)
(* until the next chip comes).  since counts the clocks since a chip.      *)
(***************************************************************************)
EXTENDS Integers, Sequences

CONSTANTS
  CHIPS,      \* chips of a sequence (C_CHIPSEQW, 32)
  HEADER,     \* chips of the synchronization header (SHR_LENGTH, 192)
  SPACING,    \* the least number of clocks from a chip to the next
  DEPTH, WATERMARK,
  Frames      \* the frames that are sent, as sequences of decoded nibbles

ASSUME SizesAssumption ==
  CHIPS \in Nat \ {0} /\ HEADER \in Nat \ {0} /\ SPACING \in Nat \ {0}

VARIABLES
  shreg, chipseq, corr_hit, synch_header_found, chip_counter, tvalid_d, tvalid_dd,
  hamming, score,              \* hamming_scores and score1..4: what they decode to
  nibble_valid_d, nibble_valid,  \* the demapper's tvalid_d and tvalid_dd
  phr_state, byte_counter, crappy_phr, int_nibble, lo, hi,
  byte_valid, byte_last, frame_done,
  state, w_ptr, r_ptr, skip_fifo, initialized, ram, dob,
  m_tvalid, m_tlast, s_tready, almost_full, sel_fifo,
  locked, run, heard, owed, since

detector == <<shreg, chipseq, corr_hit, synch_header_found, chip_counter, tvalid_d, tvalid_dd>>
demapper == <<hamming, score, nibble_valid_d, nibble_valid>>
packager == <<phr_state, byte_counter, crappy_phr, int_nibble, lo, hi,
              byte_valid, byte_last, frame_done>>
buffer   == <<state, w_ptr, r_ptr, skip_fifo, initialized, ram, dob,
              m_tvalid, m_tlast, s_tready, almost_full, sel_fifo>>
history  == <<locked, run, heard, owed, since>>
vars     == <<detector, demapper, packager, buffer, history>>

Noise == [value |-> 15, crappy |-> TRUE]
Words == (UNION {{f[i] : i \in DOMAIN f} : f \in Frames}) \union {Noise}
Bytes == [lo : 0..15, hi : 0..15]

Det == INSTANCE Detector

\* The packager shares heard; its own history of bytes stays empty here.
Pack == INSTANCE Packager WITH
  state <- phr_state, m_tvalid <- byte_valid, m_tlast <- byte_last,
  due <- <<>>, age <- 0, Spacing <- 1, Ready <- BOOLEAN,
  Lengths <- Words, Highs <- Words, Payload <- Words

Fifo == INSTANCE PPFifo WITH
  Data <- Bytes, Ready <- {TRUE}, Overtake <- {1, 2}, Pausing <- FALSE

Beat == [data : Bytes, last : BOOLEAN]

TypeOK ==
  /\ Det!TypeOK /\ Pack!TypeOK /\ Fifo!TypeOK
  /\ hamming \in Words /\ score \in Words
  /\ nibble_valid_d \in BOOLEAN /\ nibble_valid \in BOOLEAN
  /\ locked \in BOOLEAN /\ run \in 0..(CHIPS + HEADER) /\ owed \in Seq(Beat)
  /\ since \in 0..SPACING

FifoInit ==
  /\ state = "MA" /\ initialized = FALSE
  /\ w_ptr = <<0, 0>> /\ r_ptr = <<0, 0>> /\ skip_fifo = <<FALSE, FALSE>>
  /\ ram = [f \in 1..2 |-> [a \in 0..(DEPTH - 1) |-> [lo |-> 0, hi |-> 0]]]
  /\ dob = <<[lo |-> 0, hi |-> 0], [lo |-> 0, hi |-> 0]>>
  /\ m_tvalid = FALSE /\ m_tlast = FALSE /\ s_tready = FALSE
  /\ almost_full = FALSE /\ sel_fifo = 2

HistoryInit == locked = FALSE /\ run = 0 /\ heard = <<>> /\ owed = <<>> /\ since = 0

Init ==
  /\ Det!Init
  /\ hamming = Noise /\ score = Noise /\ nibble_valid_d = FALSE /\ nibble_valid = FALSE
  /\ Pack!RegistersInit /\ FifoInit /\ HistoryInit

-----------------------------------------------------------------------------
\* The demapper: distances to the sixteen sequences, then the smallest one.
Demapper ==
  /\ hamming' = chipseq /\ score' = hamming
  /\ nibble_valid_d' = Det!m_chipseq_tvalid /\ nibble_valid' = nibble_valid_d

Decoded == IF nibble_valid THEN <<score>> ELSE <<>>

\* A rising edge with areset low; the consumer of the buffer is always ready.
Edge(valid, contents) ==
  /\ Det!Clock(valid, contents, frame_done)
  /\ Demapper
  /\ Pack!Clock(Decoded, s_tready)
  /\ Fifo!Clock(TRUE, byte_valid, byte_last, FALSE, [lo |-> lo, hi |-> hi])

-----------------------------------------------------------------------------
(* The ideal receiver, chip by chip.                                       *)

Last(chip) == locked /\ run + 1 = CHIPS          \* the chip completes a sequence
Nibbles(chip) == Append(heard, chip.word)
EndsFrame(chip) == Last(chip) /\ Pack!Ends(Nibbles(chip))

BytesOf(nibbles) ==
  LET n == Pack!FrameLength(nibbles)
  IN  [i \in 1..n |-> [data |-> [lo |-> nibbles[2 * i + 1].value, hi |-> nibbles[2 * i + 2].value],
                       last |-> i = n]]

Unseen == IF m_tvalid /\ owed # <<>> THEN Tail(owed) ELSE owed

Quiet ==
  /\ owed' = Unseen /\ UNCHANGED <<locked, run, heard>>
  /\ since' = IF since < SPACING THEN since + 1 ELSE since

Hear(chip) ==
  /\ since' = 1
  /\ locked' = IF locked THEN ~EndsFrame(chip) ELSE chip.hit
  /\ run' = IF locked THEN IF Last(chip) THEN 0 ELSE run + 1
            ELSE IF chip.hit THEN 0 ELSE IF run < HEADER THEN run + 1 ELSE run
  /\ heard' = IF Last(chip) THEN Nibbles(chip) ELSE IF locked THEN heard ELSE <<>>
  /\ owed' = Unseen \o (IF EndsFrame(chip) THEN BytesOf(Nibbles(chip)) ELSE <<>>)

(***************************************************************************)
(* The symbol synchronizer.  A header is HEADER chips long and shares none *)
(* with the frame before it.  Within a frame anything may look like a      *)
(* header, except its end.  The chips of an incomplete sequence decode to  *)
(* noise.                                                                  *)
(***************************************************************************)
Expected ==
  LET n == Len(heard) + 1
  IN  {f[n] : f \in {g \in Frames : n <= Len(g) /\ SubSeq(g, 1, n - 1) = heard}}

MayHit(chip) == IF locked THEN ~EndsFrame(chip) ELSE run >= HEADER - 1

Chips ==
  {c \in [hit : BOOLEAN, word : IF locked /\ run + 1 = CHIPS THEN Expected ELSE {Noise}] :
     c.hit => MayHit(c)}

Chip ==
  /\ since = SPACING /\ ~almost_full
  /\ \E c \in Chips : Edge(TRUE, c) /\ Hear(c)

NoChip == Edge(FALSE, Det!Empty) /\ Quiet

\* A rising edge with areset high.  (With a byte in flight in the packager, the
\* byte is left to the next frame: Packager!WritesFrame.)
ResetEdge ==
  /\ phr_state # "PL_DONE"
  /\ Det!Reset /\ Pack!Reset
  /\ hamming' = Noise /\ score' = Noise /\ nibble_valid_d' = FALSE /\ nibble_valid' = FALSE
  /\ Fifo!Reset(byte_valid, [lo |-> lo, hi |-> hi])
  /\ locked' = FALSE /\ run' = 0 /\ heard' = <<>> /\ owed' = <<>> /\ since' = 0

Next == Chip \/ NoChip \/ ResetEdge

Spec     == Init /\ [][Next]_vars
FairSpec == Spec /\ WF_vars(Chip \/ NoChip)

-----------------------------------------------------------------------------
\* What the host is offered is the next byte of the frames it is owed, with the
\* last byte of a frame marked: the pipeline loses no frame, invents none from
\* noise or from a payload that looks like a header, and never slips a chip.
OffersFrames ==
  m_tvalid => owed # <<>> /\ Head(owed) = [data |-> dob[sel_fifo], last |-> m_tlast]

\* Every frame that was heard arrives.
FramesArrive == (owed # <<>>) ~> (owed = <<>>)

\* The receiver never refuses samples, and its buffer is never caught with both
\* halves full: the states in which zluudg_ppfifo reads with the wrong pointer
\* are out of reach as long as the consumer is ready.
NeverBusy == ~almost_full /\ state \notin {"MA_W", "MB_W"}
=============================================================================
