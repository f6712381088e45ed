------------------------------ MODULE Detector ------------------------------
(***************************************************************************)
(* zluudg_detector.vhd: the hunt for the synchronization header, and the   *)
(* chip counter that cuts what follows it into chip sequences.  One step   *)
(* is one rising edge of aclk.                                             *)
(*                                                                         *)
(* The chips themselves are left out.  What a chip leaves in the shift     *)
(* register is abstracted to the two things that are read from it: whether *)
(* the register is within sr_shr_sens of the header (hit), and what its    *)
(* last C_CHIPSEQW chips will be demapped to (word).                       *)
(***************************************************************************)
EXTENDS Naturals

CONSTANTS
  CHIPS,   \* C_CHIPSEQW, the chips of a sequence
  Words,   \* the decoded nibbles
  Noise    \* what a register full of noise is demapped to

VARIABLES
  shreg,                 \* synch_header_shreg, as [hit, word]
  chipseq,               \* m_chipseq_tdata_reg
  corr_hit,              \* corr_score <= sr_shr_sens
  synch_header_found,
  chip_counter,
  tvalid_d, tvalid_dd

detector == <<shreg, chipseq, corr_hit, synch_header_found, chip_counter, tvalid_d, tvalid_dd>>

Contents == [hit : BOOLEAN, word : Words]
Empty    == [hit |-> FALSE, word |-> Noise]

TypeOK ==
  /\ shreg \in Contents /\ chipseq \in Words
  /\ corr_hit \in BOOLEAN /\ synch_header_found \in BOOLEAN
  /\ chip_counter \in 0..(CHIPS - 1)
  /\ tvalid_d \in BOOLEAN /\ tvalid_dd \in BOOLEAN

Init ==
  /\ shreg = Empty /\ chipseq = Noise
  /\ corr_hit = FALSE /\ synch_header_found = FALSE /\ chip_counter = 0
  /\ tvalid_d = FALSE /\ tvalid_dd = FALSE

\* A sequence is complete, two clocks after its last chip.
m_chipseq_tvalid == tvalid_dd /\ synch_header_found /\ chip_counter = 0

\* Mutant: the counter is left as it is when a frame ends.
P_CHIP_COUNTER_NotCleared(valid, clr) ==
  chip_counter' = IF synch_header_found /\ valid THEN (chip_counter + 1) % CHIPS ELSE chip_counter

P_CHIP_COUNTER(valid, clr) ==
  chip_counter' = IF clr \/ ~synch_header_found THEN 0
                  ELSE IF valid THEN (chip_counter + 1) % CHIPS ELSE chip_counter

\* Mutant: an old match releases the latch again.
P_SYNCH_HEADER_FOUND_Unlatched(clr) == synch_header_found' = (~clr /\ corr_hit)

P_SYNCH_HEADER_FOUND(clr) ==
  synch_header_found' = (~clr /\ (synch_header_found \/ corr_hit))

\* A rising edge with areset low: valid = s_chip_tvalid, clr = clr_frame.
Clock(valid, contents, clr) ==
  /\ shreg' = IF valid THEN contents ELSE shreg
  /\ chipseq' = shreg.word
  /\ corr_hit' = (~clr /\ shreg.hit)
  /\ P_SYNCH_HEADER_FOUND(clr)
  /\ P_CHIP_COUNTER(valid, clr)
  /\ tvalid_d' = (~clr /\ valid)
  /\ tvalid_dd' = (~clr /\ tvalid_d)

\* A rising edge with areset high.
Reset ==
  /\ shreg' = Empty /\ chipseq' = Noise
  /\ corr_hit' = FALSE /\ synch_header_found' = FALSE /\ chip_counter' = 0
  /\ tvalid_d' = FALSE /\ tvalid_dd' = FALSE
=============================================================================
