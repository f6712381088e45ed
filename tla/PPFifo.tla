------------------------------- MODULE PPFifo -------------------------------
(***************************************************************************)
(* The ping-pong buffer zluudg_ppfifo.vhd together with its two memories   *)
(* (zluudg_ram.vhd): the output stage of the receiver and of the CRC       *)
(* checker.  While one FIFO is filled with a burst the other one is read   *)
(* out; when a burst is complete and the other FIFO has been read, the two *)
(* change roles ("change mode").                                           *)
(*                                                                         *)
(* One step is one rising edge of aclk.  In mode A (states MA..) FIFO 1 is *)
(* written and FIFO 2 is read, in mode B (MB..) the other way round.       *)
(* s_x are the ports the producer sees, m_x the ports the consumer sees;   *)
(* all outputs are registers that P_STATE_DECODE loads from the state      *)
(* BEFORE the edge, so they are one clock late.                            *)
(***************************************************************************)
EXTENDS Naturals

CONSTANTS
  Data,        \* the words of a burst
  DEPTH,       \* C_FIFO_DEPTH
  WATERMARK,   \* C_WATERMARK_LIM
  Ready,       \* the values the consumer may drive on m_axis_tready
  Overtake,    \* the FIFOs whose burst may be complete before the other is read
  Pausing      \* TRUE: the producer pauses while s_axis_tready is low or about to be

Fifo == {1, 2}

ASSUME DepthAssumption == DEPTH \in Nat \ {0} /\ WATERMARK \in 0..(DEPTH - 1) /\ Data # {}
ASSUME EnvAssumption == Ready \subseteq BOOLEAN /\ Overtake \subseteq Fifo /\ Pausing \in BOOLEAN

END == DEPTH - 1                \* C_FIFO_END
Addr == 0..END
Other(f) == 3 - f

VARIABLES
  state,        \* t_state
  w_ptr, r_ptr, \* w1_ptr, w2_ptr and r1_ptr, r2_ptr
  skip_fifo,    \* skip_fifo1, skip_fifo2
  initialized,
  ram,          \* the two memories
  dob,          \* fifo1_out, fifo2_out: registered read ports of the memories
  m_tvalid, m_tlast, s_tready, almost_full,
  sel_fifo      \* the FIFO whose read port drives m_axis_tdata

control == <<state, w_ptr, r_ptr, skip_fifo, initialized>>
memory  == <<ram, dob>>
outputs == <<m_tvalid, m_tlast, s_tready, almost_full, sel_fifo>>
vars    == <<control, memory, outputs>>

State == {"MA", "MA_R", "MA_W", "MB", "MB_R", "MB_W"}

Writing    == IF state \in {"MA", "MA_R", "MA_W"} THEN 1 ELSE 2
Reading    == Other(Writing)
Concurrent(f) == IF f = 1 THEN "MA"   ELSE "MB"     \* f is written, the other is read
ReadDone(f)   == IF f = 1 THEN "MA_R" ELSE "MB_R"   \* only f is still written
WriteDone(f)  == IF f = 1 THEN "MA_W" ELSE "MB_W"   \* only the other is still read

\* Mutants: the reader runs one word too far; the depth is not enforced.
AtEnd_PastEnd(f) == r_ptr[f] > w_ptr[f]
EndsBurst_Unbounded(f, last) == last

AtEnd(f) == r_ptr[f] = w_ptr[f]             \* the last word of f is addressed
EndsBurst(f, last) == w_ptr[f] = END \/ last

TypeOK ==
  /\ state \in State
  /\ w_ptr \in [Fifo -> Addr] /\ r_ptr \in [Fifo -> Addr]
  /\ skip_fifo \in [Fifo -> BOOLEAN]
  /\ initialized \in BOOLEAN
  /\ ram \in [Fifo -> [Addr -> Data]] /\ dob \in [Fifo -> Data]
  /\ m_tvalid \in BOOLEAN /\ m_tlast \in BOOLEAN /\ s_tready \in BOOLEAN
  /\ almost_full \in BOOLEAN /\ sel_fifo \in Fifo

Init ==
  /\ state = "MA"
  /\ w_ptr = [f \in Fifo |-> 0] /\ r_ptr = [f \in Fifo |-> 0]
  /\ skip_fifo = [f \in Fifo |-> FALSE]
  /\ initialized = FALSE
  /\ \E d \in Data : /\ ram = [f \in Fifo |-> [a \in Addr |-> d]]
                     /\ dob = [f \in Fifo |-> d]
  /\ m_tvalid = FALSE /\ m_tlast = FALSE /\ s_tready = FALSE
  /\ almost_full = FALSE /\ sel_fifo = 2

-----------------------------------------------------------------------------
(* The memories: zluudg_ram.vhd behind fifo1_ena/fifo2_ena, which look at  *)
(* the state and at s_axis_tvalid, neither at s_axis_tready nor at areset. *)
(* A read returns the word from before a write at the same edge.           *)

WriteEnable(f, valid) == valid /\ state \in {Concurrent(f), ReadDone(f)}

Memory(valid, d) ==
  /\ ram' = [f \in Fifo |-> IF WriteEnable(f, valid)
                              THEN [ram[f] EXCEPT ![w_ptr[f]] = d] ELSE ram[f]]
  /\ dob' = [f \in Fifo |-> ram[f][r_ptr[f]]]

-----------------------------------------------------------------------------
(* P_PPFIFO, the pointers and the state.                                   *)

\* The two FIFOs swap roles.  A skipped burst leaves nothing to be read.
ChangeMode(f, skipped) ==
  LET g == Other(f) IN
  /\ state' = IF skipped THEN ReadDone(g) ELSE Concurrent(g)
  /\ r_ptr' = [i \in Fifo |-> 0]
  /\ w_ptr' = [i \in Fifo |-> IF i = f /\ ~skipped THEN w_ptr[f] ELSE 0]
  /\ skip_fifo' = [skip_fifo EXCEPT ![f] = FALSE]
  /\ initialized' = (initialized \/ f = 1)

\* Mutants: the mark goes to the other FIFO's flag; the mark is not kept.
LatchSkip_WrongFlag(f, valid, skip) ==
  skip_fifo' = [skip_fifo EXCEPT ![Other(f)] = @ \/ (valid /\ skip)]
LatchSkip_Dropped(f, valid, skip) == UNCHANGED skip_fifo

LatchSkip(f, valid, skip) ==
  skip_fifo' = [skip_fifo EXCEPT ![f] = @ \/ (valid /\ skip)]

\* States MA and MB: FIFO f is written while the other one is read.
Both(f, rdy, valid, last, skip) ==
  LET g    == Other(f)
      ends == valid /\ EndsBurst(f, last)
      read == rdy /\ AtEnd(g)
  IN
  /\ state = Concurrent(f)
  /\ \/ /\ ends /\ read
        /\ ChangeMode(f, skip_fifo[f] \/ skip)
     \/ /\ ~(ends /\ read)
        /\ state' = IF ends THEN WriteDone(f) ELSE IF read THEN ReadDone(f) ELSE state
        /\ r_ptr' = [r_ptr EXCEPT ![g] = IF rdy /\ ~AtEnd(g) THEN @ + 1 ELSE @]
        /\ w_ptr' = [w_ptr EXCEPT ![f] = IF valid /\ ~ends THEN @ + 1 ELSE @]
        /\ LatchSkip(f, valid, skip)
        /\ UNCHANGED initialized

\* States MA_R and MB_R: the other FIFO has been read (or was skipped).
WriteOnly(f, valid, last, skip) ==
  /\ state = ReadDone(f)
  /\ \/ /\ valid /\ EndsBurst(f, last)
        /\ ChangeMode(f, skip_fifo[f] \/ skip)
     \/ /\ valid /\ ~EndsBurst(f, last)
        /\ w_ptr' = [w_ptr EXCEPT ![f] = @ + 1]
        /\ LatchSkip(f, valid, skip)
        /\ UNCHANGED <<state, r_ptr, initialized>>
     \/ ~valid /\ UNCHANGED control

\* Mutant: the read pointer is not advanced once the write is done.
ReadOnly_NoAdvance(f, rdy) ==
  /\ state = WriteDone(f)
  /\ \/ rdy /\ AtEnd(1) /\ ChangeMode(f, skip_fifo[2])
     \/ ~(rdy /\ AtEnd(1)) /\ UNCHANGED control

\* States MA_W and MB_W: the burst in f is complete, the other FIFO is still
\* being read.  The two arms of the source are identical but for the mode they
\* change to: BOTH test and advance r1_ptr, and BOTH test skip_fifo2.
ReadOnly(f, rdy) ==
  /\ state = WriteDone(f)
  /\ \/ /\ rdy /\ AtEnd(1)
        /\ ChangeMode(f, skip_fifo[2])
     \/ /\ rdy /\ ~AtEnd(1)
        /\ r_ptr' = [r_ptr EXCEPT ![1] = @ + 1]
        /\ UNCHANGED <<state, w_ptr, skip_fifo, initialized>>
     \/ ~rdy /\ UNCHANGED control

BeingRead == state \in {"MA", "MA_W", "MB", "MB_W"}

\* Mutant: the watermark is compared one word too late.
AlmostFull_Late == w_ptr[Writing] + WATERMARK > END + 1

AlmostFull == w_ptr[Writing] + WATERMARK >= END

\* P_STATE_DECODE, from the state before the edge.
Decode ==
  /\ m_tvalid' = (BeingRead /\ (state = "MA" => initialized))
  /\ m_tlast' = (m_tvalid' /\ AtEnd(Reading))
  /\ s_tready' = (state \notin {"MA_W", "MB_W"})
  /\ almost_full' = AlmostFull
  /\ sel_fifo' = Reading

-----------------------------------------------------------------------------
\* A rising edge with areset low: rdy = m_axis_tready, valid/last/d = s_axis_*.
Clock(rdy, valid, last, skip, d) ==
  /\ \E f \in Fifo : \/ Both(f, rdy, valid, last, skip)
                     \/ WriteOnly(f, valid, last, skip)
                     \/ ReadOnly(f, rdy)
  /\ Memory(valid, d)
  /\ Decode

\* A rising edge with areset high (ce_rst or clear_tx_seqnum of the NoC block).
Reset(valid, d) ==
  /\ state' = "MA"
  /\ w_ptr' = [f \in Fifo |-> 0] /\ r_ptr' = [f \in Fifo |-> 0]
  /\ skip_fifo' = [f \in Fifo |-> FALSE]
  /\ initialized' = FALSE
  /\ Memory(valid, d)
  /\ m_tvalid' = FALSE /\ m_tlast' = FALSE /\ s_tready' = FALSE
  /\ almost_full' = FALSE /\ sel_fifo' = 2

(***************************************************************************)
(* The producer and the consumer.  The producers in this design never      *)
(* pause: they drive s_axis_tvalid without looking at s_axis_tready.       *)
(* Overtake says in which FIFO a burst may be finished while the other     *)
(* FIFO still has words to be read.                                        *)
(***************************************************************************)
MayWrite == Pausing => s_tready /\ state \notin {"MA_W", "MB_W"}

Overtakes(rdy, valid, last) ==
  /\ valid /\ state = Concurrent(Writing) /\ EndsBurst(Writing, last)
  /\ ~(rdy /\ AtEnd(Reading))

Sampled(rdy, valid, last, skip, d) ==
  /\ valid => MayWrite
  /\ Overtakes(rdy, valid, last) => Writing \in Overtake
  /\ Clock(rdy, valid, last, skip, d)

TickWith(rdy) ==
  \E valid, last, skip \in BOOLEAN, d \in Data : Sampled(rdy, valid, last, skip, d)

Tick == \E rdy \in Ready : TickWith(rdy)

ResetEdge == \E valid \in BOOLEAN, d \in Data : Reset(valid, d)

Next == Tick \/ ResetEdge

Spec == Init /\ [][Next]_vars

\* The clock does not stop while a FIFO is being read, and the consumer does
\* not refuse for ever.  Nothing obliges the producer to write.
FairSpec  == Spec /\ WF_vars(BeingRead /\ TickWith(TRUE))

-----------------------------------------------------------------------------
(* What holds whatever producer and consumer do.                           *)

\* The reader never passes the last word of its FIFO, so no pointer leaves the
\* range 0 to C_FIFO_DEPTH-1 its declaration gives it, with the arm for MA_W
\* advancing the pointer of the other FIFO too.
ReaderBehind == \A f \in Fifo : r_ptr[f] <= w_ptr[f]

\* A skip mark belongs to the burst being written: the FIFO that is read, and
\* will be written next, starts without one, so that a bad burst never takes
\* the following burst with it.
SkipOfWriter == ~skip_fifo[Reading]

\* almost_full, though it is registered one clock late, is up before the
\* writer enters the words the watermark reserves.
WatermarkInTime == w_ptr[Writing] + WATERMARK > END => almost_full

\* Every read-out ends and every finished burst gets its turn: the buffer can
\* neither wedge with s_axis_tready low nor stay on a word that was taken.
NeverStuck ==
  \A s \in {"MA", "MA_W", "MB", "MB_W"} : (state = s) ~> (state # s)
=============================================================================
