----------------------------- MODULE PPFifoImpl -----------------------------
(***************************************************************************)
(* zluudg_ppfifo implements BurstBuffer: the words of the unfinished burst *)
(* are those below the write pointer, the words owed are those from the    *)
(* read pointer up to AND including the write pointer (the pointer is not  *)
(* advanced for the last word), followed in MB_W by the burst that waits.  *)
(* The history variable taken is the word that entered at the last edge.   *)
(***************************************************************************)
EXTENDS PPFifo, Sequences

VARIABLE taken

Word(d, last, skip) == [data |-> d, last |-> last, skip |-> skip]

ImplInit == Init /\ taken = <<>>

ImplNext ==
  \/ \E rdy \in Ready, valid, last, skip \in BOOLEAN, d \in Data :
       /\ Sampled(rdy, valid, last, skip, d)
       /\ taken' = IF valid THEN <<Word(d, last, skip)>> ELSE <<>>
  \/ ResetEdge /\ taken' = <<>>

ImplSpec == ImplInit /\ [][ImplNext]_<<vars, taken>>

Waiting == state \in {"MA_W", "MB_W"}

\* Nothing is read before the first burst after a reset (initialized).
HasUnread == BeingRead /\ (state = "MA" => initialized)

\* A memory as words below address w, and as beats from address r up to w.
Words(mem, w) == [i \in 1..w |-> mem[i - 1]]
BeatsFrom(mem, r, w) ==
  [i \in 1..(w - r + 1) |-> [data |-> mem[r + i - 1], last |-> r + i - 1 = w]]

Unread(f) == BeatsFrom(ram[f], r_ptr[f], w_ptr[f])

Parked == IF Waiting /\ ~skip_fifo[Writing] THEN Unread(Writing) ELSE <<>>

\* The state of BurstBuffer.
filling == IF Waiting THEN <<>> ELSE Words(ram[Writing], w_ptr[Writing])
dirty   == ~Waiting /\ skip_fifo[Writing]
owed    == (IF HasUnread THEN Unread(Reading) ELSE <<>>) \o Parked
beat    == IF m_tvalid THEN <<[data |-> dob[sel_fifo], last |-> m_tlast]>> ELSE <<>>

Buffer == INSTANCE BurstBuffer WITH LIMIT <- DEPTH

\* With a consumer that is always ready, and a producer that may finish a burst
\* early in mode B only and then pauses, the buffer loses, repeats, reorders and
\* invents nothing, and outputs exactly the bursts without a skip mark.
ImplementsBuffer == Buffer!Spec
=============================================================================
