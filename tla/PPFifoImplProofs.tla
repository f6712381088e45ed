-------------------------- MODULE PPFifoImplProofs --------------------------
(***************************************************************************)
(* Proofs about PPFifo for every FIFO depth, watermark and word set, and   *)
(* for every producer and consumer; and that PPFifoImpl implements         *)
(* BurstBuffer under the conditions its run checks: the consumer is always *)
(* ready, a burst finished early is one of mode B, and the producer then   *)
(* pauses.                                                                 *)
(***************************************************************************)
EXTENDS PPFifoImpl, SequenceTheorems, TLAPS

\* The part of the type invariant that P_PPFIFO is responsible for.
ControlOK ==
  /\ state \in State
  /\ w_ptr \in [Fifo -> Addr] /\ r_ptr \in [Fifo -> Addr]
  /\ skip_fifo \in [Fifo -> BOOLEAN]
  /\ initialized \in BOOLEAN

\* The inductive invariant: a pointer stays in its range only because the
\* reader stays behind the writer.
IInv == TypeOK /\ ReaderBehind

-----------------------------------------------------------------------------
(* The constants.                                                          *)

LEMMA Constants ==
  /\ DEPTH \in Nat /\ DEPTH >= 1 /\ END \in Nat /\ 0 \in Addr
  /\ Addr = {a \in Nat : a <= END}
  /\ \A f \in Fifo : Other(f) \in Fifo /\ Other(f) # f
BY DepthAssumption DEF END, Addr, Other, Fifo

-----------------------------------------------------------------------------
(* One lemma per action of P_PPFIFO.                                       *)

LEMMA ChangeModeKeeps ==
  ASSUME IInv, NEW f \in Fifo, NEW skipped \in BOOLEAN, ChangeMode(f, skipped)
  PROVE  ControlOK' /\ ReaderBehind'
<1> USE Constants
<1>1. state' \in State
  BY DEF ChangeMode, State, Concurrent, ReadDone
<1>2. w_ptr' \in [Fifo -> Addr] /\ r_ptr' \in [Fifo -> Addr]
  BY DEF ChangeMode, IInv, TypeOK
<1>3. skip_fifo' \in [Fifo -> BOOLEAN] /\ initialized' \in BOOLEAN
  BY DEF ChangeMode, IInv, TypeOK
<1>4. ReaderBehind'
  BY <1>2 DEF ChangeMode, ReaderBehind
<1> QED BY <1>1, <1>2, <1>3, <1>4 DEF ControlOK

LEMMA LatchSkipTypes ==
  ASSUME IInv, NEW f \in Fifo, NEW valid \in BOOLEAN, NEW skip \in BOOLEAN,
         LatchSkip(f, valid, skip)
  PROVE  skip_fifo' \in [Fifo -> BOOLEAN]
BY DEF LatchSkip, IInv, TypeOK

LEMMA BothKeeps ==
  ASSUME IInv, NEW f \in Fifo, NEW rdy \in BOOLEAN, NEW valid \in BOOLEAN,
         NEW last \in BOOLEAN, NEW skip \in BOOLEAN, Both(f, rdy, valid, last, skip)
  PROVE  ControlOK' /\ ReaderBehind'
<1> DEFINE g    == Other(f)
           ends == valid /\ EndsBurst(f, last)
           read == rdy /\ AtEnd(g)
<1> USE Constants
<1>1. CASE ends /\ read /\ ChangeMode(f, skip_fifo[f] \/ skip)
  <2>1. (skip_fifo[f] \/ skip) \in BOOLEAN
    OBVIOUS
  <2> QED BY <1>1, <2>1, ChangeModeKeeps
<1>2. CASE /\ ~(ends /\ read)
           /\ state' = IF ends THEN WriteDone(f) ELSE IF read THEN ReadDone(f) ELSE state
           /\ r_ptr' = [r_ptr EXCEPT ![g] = IF rdy /\ ~AtEnd(g) THEN @ + 1 ELSE @]
           /\ w_ptr' = [w_ptr EXCEPT ![f] = IF valid /\ ~ends THEN @ + 1 ELSE @]
           /\ LatchSkip(f, valid, skip)
           /\ UNCHANGED initialized
  <2>1. state' \in State
    BY <1>2 DEF IInv, TypeOK, State, WriteDone, ReadDone
  <2>2. w_ptr' \in [Fifo -> Addr] /\ w_ptr'[f] >= w_ptr[f] /\ w_ptr'[g] = w_ptr[g]
    BY <1>2 DEF IInv, TypeOK, EndsBurst
  <2>3. r_ptr' \in [Fifo -> Addr] /\ r_ptr'[f] = r_ptr[f] /\ r_ptr'[g] <= w_ptr[g]
    BY <1>2 DEF IInv, TypeOK, ReaderBehind, AtEnd
  <2>4. ReaderBehind'
    <3>1. \A i \in Fifo : i = f \/ i = g
      BY DEF Fifo, Other
    <3>2. r_ptr'[f] <= w_ptr'[f] /\ r_ptr'[g] <= w_ptr'[g]
      BY <2>2, <2>3 DEF IInv, TypeOK, ReaderBehind
    <3> QED BY <3>1, <3>2 DEF ReaderBehind
  <2>5. skip_fifo' \in [Fifo -> BOOLEAN] /\ initialized' \in BOOLEAN
    BY <1>2, LatchSkipTypes DEF IInv, TypeOK
  <2> QED BY <2>1, <2>2, <2>3, <2>4, <2>5 DEF ControlOK
<1> QED BY <1>1, <1>2 DEF Both

LEMMA WriteOnlyKeeps ==
  ASSUME IInv, NEW f \in Fifo, NEW valid \in BOOLEAN, NEW last \in BOOLEAN,
         NEW skip \in BOOLEAN, WriteOnly(f, valid, last, skip)
  PROVE  ControlOK' /\ ReaderBehind'
<1> USE Constants
<1>1. CASE valid /\ EndsBurst(f, last) /\ ChangeMode(f, skip_fifo[f] \/ skip)
  <2>1. (skip_fifo[f] \/ skip) \in BOOLEAN
    OBVIOUS
  <2> QED BY <1>1, <2>1, ChangeModeKeeps
<1>2. CASE /\ valid /\ ~EndsBurst(f, last)
           /\ w_ptr' = [w_ptr EXCEPT ![f] = @ + 1]
           /\ LatchSkip(f, valid, skip)
           /\ UNCHANGED <<state, r_ptr, initialized>>
  <2>1. w_ptr' \in [Fifo -> Addr] /\ \A i \in Fifo : w_ptr'[i] >= w_ptr[i]
    BY <1>2 DEF IInv, TypeOK, EndsBurst
  <2>2. ReaderBehind'
    BY <1>2, <2>1 DEF IInv, TypeOK, ReaderBehind
  <2>3. skip_fifo' \in [Fifo -> BOOLEAN]
    BY <1>2, LatchSkipTypes
  <2> QED BY <1>2, <2>1, <2>2, <2>3 DEF ControlOK, IInv, TypeOK
<1>3. CASE ~valid /\ UNCHANGED control
  BY <1>3 DEF control, ControlOK, IInv, TypeOK, ReaderBehind
<1> QED BY <1>1, <1>2, <1>3 DEF WriteOnly

LEMMA ReadOnlyKeeps ==
  ASSUME IInv, NEW f \in Fifo, NEW rdy \in BOOLEAN, ReadOnly(f, rdy)
  PROVE  ControlOK' /\ ReaderBehind'
<1> USE Constants
<1>0. 1 \in Fifo /\ 2 \in Fifo
  BY DEF Fifo
<1>1. CASE rdy /\ AtEnd(1) /\ ChangeMode(f, skip_fifo[2])
  <2>1. skip_fifo[2] \in BOOLEAN
    BY <1>0 DEF IInv, TypeOK
  <2> QED BY <1>1, <2>1, ChangeModeKeeps
<1>2. CASE /\ rdy /\ ~AtEnd(1)
           /\ r_ptr' = [r_ptr EXCEPT ![1] = @ + 1]
           /\ UNCHANGED <<state, w_ptr, skip_fifo, initialized>>
  <2>1. r_ptr' \in [Fifo -> Addr] /\ \A i \in Fifo : r_ptr'[i] <= w_ptr[i]
    BY <1>0, <1>2 DEF IInv, TypeOK, ReaderBehind, AtEnd
  <2> QED BY <1>2, <2>1 DEF ControlOK, IInv, TypeOK, ReaderBehind
<1>3. CASE ~rdy /\ UNCHANGED control
  BY <1>3 DEF control, ControlOK, IInv, TypeOK, ReaderBehind
<1> QED BY <1>1, <1>2, <1>3 DEF ReadOnly

-----------------------------------------------------------------------------
(* The memories and the registered outputs.                                *)

LEMMA MemoryTypes ==
  ASSUME IInv, NEW valid \in BOOLEAN, NEW d \in Data, Memory(valid, d)
  PROVE  ram' \in [Fifo -> [Addr -> Data]] /\ dob' \in [Fifo -> Data]
BY DEF Memory, IInv, TypeOK

LEMMA DecodeTypes ==
  ASSUME IInv, Decode
  PROVE  /\ m_tvalid' \in BOOLEAN /\ m_tlast' \in BOOLEAN /\ s_tready' \in BOOLEAN
         /\ almost_full' \in BOOLEAN /\ sel_fifo' \in Fifo
<1>1. m_tvalid' \in BOOLEAN
  BY DEF Decode, IInv, TypeOK, State
<1>2. m_tlast' \in BOOLEAN /\ s_tready' \in BOOLEAN /\ almost_full' \in BOOLEAN
  BY DEF Decode, AlmostFull
<1>3. sel_fifo' \in Fifo
  BY DEF Decode, Reading, Writing, Other, Fifo
<1> QED BY <1>1, <1>2, <1>3

-----------------------------------------------------------------------------
LEMMA ClockKeeps ==
  ASSUME IInv, NEW rdy \in BOOLEAN, NEW valid \in BOOLEAN, NEW last \in BOOLEAN,
         NEW skip \in BOOLEAN, NEW d \in Data, Clock(rdy, valid, last, skip, d)
  PROVE  IInv'
<1>1. ControlOK' /\ ReaderBehind'
  <2>1. PICK f \in Fifo : \/ Both(f, rdy, valid, last, skip)
                          \/ WriteOnly(f, valid, last, skip)
                          \/ ReadOnly(f, rdy)
    BY DEF Clock
  <2> QED BY <2>1, BothKeeps, WriteOnlyKeeps, ReadOnlyKeeps
<1>2. Memory(valid, d) /\ Decode
  BY DEF Clock
<1> QED BY <1>1, <1>2, MemoryTypes, DecodeTypes DEF IInv, TypeOK, ControlOK

LEMMA ResetKeeps ==
  ASSUME IInv, NEW valid \in BOOLEAN, NEW d \in Data, Reset(valid, d)
  PROVE  IInv'
<1>1. ram' \in [Fifo -> [Addr -> Data]] /\ dob' \in [Fifo -> Data]
  BY MemoryTypes DEF Reset
<1>2. w_ptr' \in [Fifo -> Addr] /\ r_ptr' \in [Fifo -> Addr] /\ skip_fifo' \in [Fifo -> BOOLEAN]
  BY Constants DEF Reset
<1>3. ReaderBehind'
  BY Constants DEF Reset, ReaderBehind
<1> QED BY <1>1, <1>2, <1>3 DEF Reset, IInv, TypeOK, State, Fifo

LEMMA InitIInv == Init => IInv
<1> SUFFICES ASSUME Init PROVE IInv
  OBVIOUS
<1>1. ram \in [Fifo -> [Addr -> Data]] /\ dob \in [Fifo -> Data]
  BY DEF Init
<1>2. w_ptr \in [Fifo -> Addr] /\ r_ptr \in [Fifo -> Addr] /\ skip_fifo \in [Fifo -> BOOLEAN]
  BY Constants DEF Init
<1>3. ReaderBehind
  BY Constants DEF Init, ReaderBehind
<1> QED BY <1>1, <1>2, <1>3 DEF Init, IInv, TypeOK, State, Fifo

LEMMA NextIInv == IInv /\ [Next]_vars => IInv'
<1> SUFFICES ASSUME IInv, [Next]_vars PROVE IInv'
  OBVIOUS
<1>1. CASE Tick
  <2>1. PICK rdy \in Ready, valid \in BOOLEAN, last \in BOOLEAN, skip \in BOOLEAN, d \in Data :
          Clock(rdy, valid, last, skip, d)
    BY <1>1 DEF Tick, TickWith, Sampled
  <2>2. rdy \in BOOLEAN
    BY EnvAssumption
  <2> QED BY <2>1, <2>2, ClockKeeps
<1>2. CASE ResetEdge
  BY <1>2, ResetKeeps DEF ResetEdge
<1>3. CASE UNCHANGED vars
  BY <1>3 DEF vars, control, memory, outputs, IInv, TypeOK, ReaderBehind
<1> QED BY <1>1, <1>2, <1>3 DEF Next

\* Type correctness: in particular both pointers stay within 0 to
\* C_FIFO_DEPTH-1, the range of their declaration.
THEOREM TypeCorrect == Spec => []TypeOK
<1>1. IInv => TypeOK
  BY DEF IInv
<1> QED BY <1>1, InitIInv, NextIInv, PTL DEF Spec

\* The reader never passes the last word of the burst it reads.
THEOREM ReaderStaysBehind == Spec => []ReaderBehind
<1>1. IInv => ReaderBehind
  BY DEF IInv
<1> QED BY <1>1, InitIInv, NextIInv, PTL DEF Spec

-----------------------------------------------------------------------------
(* The skip marks and the watermark, each preserved by every step.         *)

LEMMA SkipClock ==
  ASSUME IInv, SkipOfWriter, NEW rdy \in BOOLEAN, NEW valid \in BOOLEAN, NEW last \in BOOLEAN,
         NEW skip \in BOOLEAN, NEW d \in Data, Clock(rdy, valid, last, skip, d)
  PROVE  SkipOfWriter'
<1> USE Constants DEF Fifo, Other
<1>1. PICK f \in Fifo : \/ Both(f, rdy, valid, last, skip)
                        \/ WriteOnly(f, valid, last, skip)
                        \/ ReadOnly(f, rdy)
  BY DEF Clock
<1>2. Writing = f /\ Reading = Other(f)
  BY <1>1 DEF Both, WriteOnly, ReadOnly, Writing, Reading, Concurrent, ReadDone, WriteDone
<1>3. ASSUME NEW skipped, ChangeMode(f, skipped)
      PROVE  SkipOfWriter'
  <2>1. Reading' = f
    BY <1>3 DEF ChangeMode, Writing, Reading, Concurrent, ReadDone
  <2> QED BY <1>3, <2>1 DEF ChangeMode, SkipOfWriter, IInv, TypeOK
<1>4. ASSUME state' \in {Concurrent(f), ReadDone(f), WriteDone(f)},
             skip_fifo'[Other(f)] = skip_fifo[Other(f)]
      PROVE  SkipOfWriter'
  <2>1. Reading' = Other(f)
    BY <1>4 DEF Writing, Reading, Concurrent, ReadDone, WriteDone
  <2> QED BY <1>2, <1>4, <2>1 DEF SkipOfWriter
<1>5. CASE Both(f, rdy, valid, last, skip)
  BY <1>3, <1>4, <1>5 DEF Both, LatchSkip, IInv, TypeOK
<1>6. CASE WriteOnly(f, valid, last, skip)
  BY <1>3, <1>4, <1>6 DEF WriteOnly, LatchSkip, IInv, TypeOK, control
<1>7. CASE ReadOnly(f, rdy)
  BY <1>3, <1>4, <1>7 DEF ReadOnly, control
<1> QED BY <1>1, <1>5, <1>6, <1>7

LEMMA SkipStep == IInv /\ SkipOfWriter /\ [Next]_vars => SkipOfWriter'
<1> SUFFICES ASSUME IInv, SkipOfWriter, [Next]_vars PROVE SkipOfWriter'
  OBVIOUS
<1> USE Constants DEF Fifo, Other
<1>1. CASE Tick
  <2>1. PICK rdy \in Ready, valid \in BOOLEAN, last \in BOOLEAN, skip \in BOOLEAN, d \in Data :
          Clock(rdy, valid, last, skip, d)
    BY <1>1 DEF Tick, TickWith, Sampled
  <2>2. rdy \in BOOLEAN
    BY EnvAssumption
  <2> QED BY <2>1, <2>2, SkipClock
<1>2. CASE ResetEdge
  BY <1>2 DEF ResetEdge, Reset, SkipOfWriter, Reading, Writing
<1>3. CASE UNCHANGED vars
  BY <1>3 DEF vars, control, SkipOfWriter, Reading, Writing
<1> QED BY <1>1, <1>2, <1>3 DEF Next

\* The FIFO that is being read never carries a skip mark.  (This is also why
\* the arm for MA_W, which tests skip_fifo2 in mode A, never skips anything.)
THEOREM SkipBelongsToWriter == Spec => []SkipOfWriter
<1>1. Init => SkipOfWriter
  BY DEF Init, SkipOfWriter, Reading, Writing, Other, Fifo
<1> QED BY <1>1, InitIInv, NextIInv, SkipStep, PTL DEF Spec

LEMMA WatermarkStep == IInv /\ WatermarkInTime /\ [Next]_vars => WatermarkInTime'
<1> SUFFICES ASSUME IInv, WatermarkInTime, [Next]_vars PROVE WatermarkInTime'
  OBVIOUS
<1> USE Constants, DepthAssumption DEF Fifo, Other
<1>0. WATERMARK \in Nat /\ WATERMARK <= END
  BY DEF END
<1>1. CASE Tick
  <2>1. PICK rdy \in Ready, valid \in BOOLEAN, last \in BOOLEAN, skip \in BOOLEAN, d \in Data :
          Clock(rdy, valid, last, skip, d)
    BY <1>1 DEF Tick, TickWith, Sampled
  <2>2. PICK f \in Fifo : \/ Both(f, rdy, valid, last, skip)
                          \/ WriteOnly(f, valid, last, skip)
                          \/ ReadOnly(f, rdy)
    BY <2>1 DEF Clock
  <2>3. Writing = f /\ w_ptr[f] \in Nat
    BY <2>2 DEF Both, WriteOnly, ReadOnly, Writing, Concurrent, ReadDone, WriteDone, IInv, TypeOK
  <2>4. almost_full' = (w_ptr[f] + WATERMARK >= END)
    BY <2>1, <2>3 DEF Clock, Decode, AlmostFull
  <2>5. ASSUME NEW skipped, ChangeMode(f, skipped)
        PROVE  WatermarkInTime'
    <3>1. Writing' = Other(f)
      BY <2>5 DEF ChangeMode, Writing, Concurrent, ReadDone
    <3>2. w_ptr'[Other(f)] = 0
      BY <2>5 DEF ChangeMode
    <3> QED BY <1>0, <3>1, <3>2 DEF WatermarkInTime
  <2>6. ASSUME state' \in {Concurrent(f), ReadDone(f), WriteDone(f)},
               w_ptr'[f] \in {w_ptr[f], w_ptr[f] + 1}
        PROVE  WatermarkInTime'
    <3>1. Writing' = f
      BY <2>6 DEF Writing, Concurrent, ReadDone, WriteDone
    <3>2. w_ptr'[f] + WATERMARK > END => w_ptr[f] + WATERMARK >= END
      BY <1>0, <2>3, <2>6
    <3>3. w_ptr'[f] + WATERMARK > END => almost_full'
      BY <2>4, <3>2, Zenon
    <3> QED BY <3>1, <3>3 DEF WatermarkInTime
  <2>7. CASE Both(f, rdy, valid, last, skip)
    BY <2>5, <2>6, <2>7 DEF Both, IInv, TypeOK
  <2>8. CASE WriteOnly(f, valid, last, skip)
    BY <2>5, <2>6, <2>8 DEF WriteOnly, IInv, TypeOK, control
  <2>9. CASE ReadOnly(f, rdy)
    BY <2>5, <2>6, <2>9 DEF ReadOnly, control
  <2> QED BY <2>2, <2>7, <2>8, <2>9
<1>2. CASE ResetEdge
  BY <1>0, <1>2 DEF ResetEdge, Reset, WatermarkInTime, Writing
<1>3. CASE UNCHANGED vars
  BY <1>3 DEF vars, control, outputs, WatermarkInTime, Writing
<1> QED BY <1>1, <1>2, <1>3 DEF Next

\* almost_full is up before the writer enters the reserved words, for every
\* watermark below the depth and despite the register in its way.
THEOREM WatermarkIsInTime == Spec => []WatermarkInTime
<1>1. Init => WatermarkInTime
  BY Constants, DepthAssumption DEF Init, WatermarkInTime, Writing, END, Fifo
<1> QED BY <1>1, InitIInv, NextIInv, WatermarkStep, PTL DEF Spec

-----------------------------------------------------------------------------
(* A memory read as a sequence.                                            *)

\* The beat offered is the one at the read pointer, the others follow it.
LEMMA BeatsOffered ==
  ASSUME NEW mem \in [Addr -> Data], NEW r \in Addr, NEW w \in Addr, r <= w
  PROVE  /\ BeatsFrom(mem, r, w) \in Seq(Buffer!Beat)
         /\ BeatsFrom(mem, r, w) # <<>>
         /\ r = w => Head(BeatsFrom(mem, r, w)) = [data |-> mem[r], last |-> TRUE]
         /\ r # w => Head(BeatsFrom(mem, r, w)) = [data |-> mem[r], last |-> FALSE]
         /\ Tail(BeatsFrom(mem, r, w)) = IF r = w THEN <<>> ELSE BeatsFrom(mem, r + 1, w)
<1> DEFINE s == BeatsFrom(mem, r, w)
<1> USE Constants
<1>1. r \in Nat /\ w \in Nat /\ w - r + 1 \in Nat /\ w - r + 1 >= 1 /\ w <= END
  BY DEF Addr
<1>2. \A i \in 1..(w - r + 1) : r + i - 1 \in Addr
  BY <1>1 DEF Addr
<1>3. s = [i \in 1..(w - r + 1) |-> [data |-> mem[r + i - 1], last |-> r + i - 1 = w]]
  BY DEF BeatsFrom
<1>4. \A i \in 1..(w - r + 1) :
        [data |-> mem[r + i - 1], last |-> (r + i - 1 = w)] \in Buffer!Beat
  BY <1>2, Zenon DEF Buffer!Beat
<1>5. s \in [1..(w - r + 1) -> Buffer!Beat]
  BY <1>3, <1>4, Zenon
<1>6. s \in Seq(Buffer!Beat) /\ Len(s) = w - r + 1
  BY <1>1, <1>5
<1> HIDE DEF s
<1>7. s # <<>> /\ Head(s) = s[1] /\ s[1] = [data |-> mem[r + 1 - 1], last |-> r + 1 - 1 = w]
  BY <1>1, <1>3, <1>6
<1>8. /\ r = w => Head(s) = [data |-> mem[r], last |-> TRUE]
      /\ r # w => Head(s) = [data |-> mem[r], last |-> FALSE]
  <2>1. Head(s) = [data |-> mem[r], last |-> r = w]
    BY <1>1, <1>7
  <2> QED BY <2>1
<1>9. /\ Tail(s) \in [1..(w - r) -> Buffer!Beat]
      /\ \A i \in 1..(w - r) : Tail(s)[i] = s[i + 1]
  <2>1. /\ Tail(s) \in Seq(Buffer!Beat) /\ Len(Tail(s)) = Len(s) - 1
        /\ \A i \in 1..Len(Tail(s)) : Tail(s)[i] = s[i + 1]
    BY <1>6, <1>7, HeadTailProperties
  <2>2. Len(Tail(s)) = w - r
    BY <1>1, <1>6, <2>1
  <2>3. Tail(s) \in [1..Len(Tail(s)) -> Buffer!Beat]
    BY <2>1, LenProperties
  <2> QED BY <2>1, <2>2, <2>3, Zenon
<1>10. ASSUME r = w
       PROVE  Tail(s) = <<>>
  <2>1. Len(Tail(s)) = 0 /\ Tail(s) \in Seq(Buffer!Beat)
    BY <1>1, <1>6, <1>7, <1>10, HeadTailProperties
  <2> QED BY <2>1, EmptySeq
<1>11. ASSUME r # w
       PROVE  Tail(s) = BeatsFrom(mem, r + 1, w)
  <2>1. \A i \in 1..(w - r) :
          s[i + 1] = [data |-> mem[r + 1 + i - 1], last |-> r + 1 + i - 1 = w]
    BY <1>1, <1>3
  <2>2. BeatsFrom(mem, r + 1, w) =
          [i \in 1..(w - r) |-> [data |-> mem[r + 1 + i - 1], last |-> r + 1 + i - 1 = w]]
    BY <1>1 DEF BeatsFrom
  <2> QED BY <1>9, <2>1, <2>2
<1> QED BY <1>6, <1>7, <1>8, <1>10, <1>11, Zenon DEF s

\* The word that enters is behind the words of the burst.
LEMMA WordEnters ==
  ASSUME NEW mem \in [Addr -> Data], NEW w \in Addr, NEW d \in Data
  PROVE  /\ Words(mem, w) \in Seq(Data)
         /\ Len(Append(Words(mem, w), d)) = w + 1
         /\ Words([mem EXCEPT ![w] = d], w + 1) = Append(Words(mem, w), d)
         /\ BeatsFrom([mem EXCEPT ![w] = d], 0, w) = Buffer!Beats(Append(Words(mem, w), d))
<1> DEFINE old == Words(mem, w)
           words == Append(old, d)
           written == [mem EXCEPT ![w] = d]
<1> USE Constants
<1>1. w \in Nat /\ w <= END
  BY DEF Addr
<1>2. \A i \in 1..w : i - 1 \in Addr
  BY <1>1 DEF Addr
<1>3. old \in [1..w -> Data]
  BY <1>2 DEF Words
<1>4. old \in Seq(Data) /\ Len(old) = w
  BY <1>1, <1>3
<1>5. \A i \in 1..w : old[i] = mem[i - 1]
  BY DEF Words
<1> HIDE DEF old
<1>6. words \in [1..(w + 1) -> Data] /\ Len(words) = w + 1
  <2>1. words \in Seq(Data) /\ Len(words) = w + 1
    BY <1>4, AppendProperties
  <2> QED BY <2>1, LenProperties
<1>7. (\A i \in 1..w : words[i] = mem[i - 1]) /\ words[w + 1] = d
  <2>1. (\A i \in 1..w : words[i] = old[i]) /\ words[w + 1] = d
    BY <1>4, AppendProperties
  <2> QED BY <1>5, <2>1
<1>8. ASSUME NEW i \in 1..(w + 1)
      PROVE  words[i] = written[i - 1]
  <2>1. CASE i \in 1..w
    <3>1. i - 1 # w /\ i - 1 \in Addr
      BY <1>1, <1>2, <2>1
    <3>2. written[i - 1] = mem[i - 1]
      BY <3>1
    <3> QED BY <1>7, <2>1, <3>2
  <2>2. CASE i = w + 1
    <3>1. i - 1 = w
      BY <1>1, <2>2
    <3>2. written[w] = d
      OBVIOUS
    <3> QED BY <1>7, <2>2, <3>1, <3>2
  <2>3. i \in 1..w \/ i = w + 1
    BY <1>1
  <2> QED BY <2>1, <2>2, <2>3, Zenon
<1> HIDE DEF words, written
<1>9. Words(written, w + 1) = words
  BY <1>6, <1>8 DEF Words
<1>10. BeatsFrom(written, 0, w) = Buffer!Beats(words)
  <2>1. BeatsFrom(written, 0, w) =
          [i \in 1..(w + 1) |-> [data |-> written[i - 1], last |-> i = w + 1]]
    BY <1>1 DEF BeatsFrom
  <2>2. Buffer!Beats(words) =
          [i \in 1..(w + 1) |-> [data |-> words[i], last |-> i = w + 1]]
    BY <1>6, Zenon DEF Buffer!Beats
  <2> QED BY <1>8, <2>1, <2>2, Zenon
<1> QED BY <1>4, <1>6, <1>9, <1>10 DEF old, words, written

LEMMA FirstOfTwo ==
  ASSUME NEW S, NEW s \in Seq(S), NEW t \in Seq(S), s # <<>>
  PROVE  /\ s \o t \in Seq(S) /\ s \o t # <<>>
         /\ Head(s \o t) = Head(s) /\ Tail(s \o t) = Tail(s) \o t
<1>1. Len(s) \in Nat \ {0} /\ Len(t) \in Nat
  BY EmptySeq, LenProperties
<1>2. /\ s \o t \in Seq(S) /\ Len(s \o t) = Len(s) + Len(t)
      /\ \A i \in 1..(Len(s) + Len(t)) :
           (s \o t)[i] = IF i <= Len(s) THEN s[i] ELSE t[i - Len(s)]
  BY ConcatProperties
<1>3. s \o t # <<>>
  BY <1>1, <1>2, EmptySeq
<1>4. Head(s \o t) = Head(s)
  BY <1>1, <1>2
<1>5. /\ Tail(s) \in Seq(S) /\ Len(Tail(s)) = Len(s) - 1
      /\ \A i \in 1..Len(Tail(s)) : Tail(s)[i] = s[i + 1]
  BY HeadTailProperties
<1>6. /\ Tail(s \o t) \in Seq(S) /\ Len(Tail(s \o t)) = Len(s) + Len(t) - 1
      /\ \A i \in 1..Len(Tail(s \o t)) : Tail(s \o t)[i] = (s \o t)[i + 1]
  BY <1>2, <1>3, HeadTailProperties
<1>7. /\ Tail(s) \o t \in Seq(S) /\ Len(Tail(s) \o t) = Len(s) - 1 + Len(t)
      /\ \A i \in 1..(Len(s) - 1 + Len(t)) :
           (Tail(s) \o t)[i] = IF i <= Len(s) - 1 THEN Tail(s)[i] ELSE t[i - (Len(s) - 1)]
  BY <1>5, ConcatProperties
<1>8. \A i \in 1..Len(Tail(s \o t)) : Tail(s \o t)[i] = (Tail(s) \o t)[i]
  BY <1>1, <1>2, <1>5, <1>6, <1>7
<1>9. Len(Tail(s \o t)) = Len(Tail(s) \o t)
  BY <1>1, <1>6, <1>7
<1>10. Tail(s \o t) = Tail(s) \o t
  BY <1>6, <1>7, <1>8, <1>9, SeqEqual
<1> QED BY <1>2, <1>3, <1>4, <1>10

-----------------------------------------------------------------------------
(* The environment of the run, and the invariant it makes hold.            *)

Env == Ready = {TRUE} /\ Overtake \subseteq {2} /\ Pausing = TRUE

\* A burst is never parked in FIFO 1 (MA_W); once a burst has been finished
\* the reset is over, and before that nothing can be read.
Started ==
  /\ state # "MA_W"
  /\ state \in {"MB", "MB_R", "MB_W"} => initialized
  /\ state = "MA" /\ ~initialized => r_ptr[2] = 0 /\ w_ptr[2] = 0

\* Only the FIFO that is read has been read from.
WriterUnread == r_ptr[Writing] = 0

ImplInv == IInv /\ SkipOfWriter /\ Started /\ WriterUnread

-----------------------------------------------------------------------------
(* What a clock can do with a consumer that is always ready.               *)

\* A producer that is not caught with both FIFOs full.
Fits(valid, last) ==
  /\ valid => ~Waiting
  /\ Overtakes(TRUE, valid, last) => Writing = 2

\* The word ends its burst, and the other FIFO has been read.
Finishes(f, last, skip) ==
  /\ state \in {Concurrent(f), ReadDone(f)} /\ EndsBurst(f, last)
  /\ HasUnread => AtEnd(Other(f))
  /\ ChangeMode(f, skip_fifo[f] \/ skip)

\* The word ends its burst, which is parked in FIFO 2.
Parks(last, skip) ==
  /\ state = "MB" /\ EndsBurst(2, last) /\ ~AtEnd(1)
  /\ state' = "MB_W" /\ UNCHANGED <<w_ptr, initialized>>
  /\ r_ptr'[1] = r_ptr[1] + 1 /\ r_ptr'[2] = r_ptr[2]
  /\ skip_fifo'[1] = skip_fifo[1] /\ skip_fifo'[2] = (skip_fifo[2] \/ skip)

\* The parked burst has its turn, or has to wait.
Turns == state = "MB_W" /\ AtEnd(1) /\ ChangeMode(2, skip_fifo[2])
Waits ==
  /\ state = "MB_W" /\ ~AtEnd(1) /\ UNCHANGED <<state, w_ptr, skip_fifo, initialized>>
  /\ r_ptr'[1] = r_ptr[1] + 1 /\ r_ptr'[2] = r_ptr[2]

\* FIFO f is written on, and the other one is read on if there is anything.
Continues(f, valid, last, skip) ==
  /\ state \in {Concurrent(f), ReadDone(f)}
  /\ valid => ~EndsBurst(f, last)
  /\ state' = IF state = Concurrent(f) /\ ~AtEnd(Other(f)) THEN Concurrent(f) ELSE ReadDone(f)
  /\ state' = Concurrent(f) => r_ptr'[Other(f)] = r_ptr[Other(f)] + 1
  /\ r_ptr'[f] = r_ptr[f]
  /\ w_ptr' = [w_ptr EXCEPT ![f] = IF valid THEN @ + 1 ELSE @]
  /\ skip_fifo'[f] = (skip_fifo[f] \/ (valid /\ skip))
  /\ skip_fifo'[Other(f)] = skip_fifo[Other(f)]
  /\ UNCHANGED initialized

LEMMA StepCases ==
  ASSUME ImplInv, NEW valid \in BOOLEAN, NEW last \in BOOLEAN, NEW skip \in BOOLEAN,
         NEW d \in Data, Clock(TRUE, valid, last, skip, d), Fits(valid, last)
  PROVE  \/ valid /\ \E f \in Fifo : Finishes(f, last, skip)
         \/ valid /\ Parks(last, skip)
         \/ ~valid /\ (Turns \/ Waits)
         \/ \E f \in Fifo : Continues(f, valid, last, skip)
<1>1. valid => ~Waiting
  BY DEF Fits
<1>2. /\ w_ptr \in [Fifo -> Addr] /\ r_ptr \in [Fifo -> Addr]
      /\ skip_fifo \in [Fifo -> BOOLEAN] /\ state \in State
  BY DEF ImplInv, IInv, TypeOK
<1>3. PICK f \in Fifo : \/ Both(f, TRUE, valid, last, skip)
                        \/ WriteOnly(f, valid, last, skip)
                        \/ ReadOnly(f, TRUE)
  BY DEF Clock
<1>4. Other(f) \in Fifo /\ Other(f) # f /\ Other(2) = 1
  BY Constants DEF Other
<1>5. CASE Both(f, TRUE, valid, last, skip)
  <2> DEFINE g == Other(f)
  <2>1. state = Concurrent(f)
    BY <1>5 DEF Both
  <2>2. CASE valid /\ EndsBurst(f, last) /\ AtEnd(g)
    <3>1. ChangeMode(f, skip_fifo[f] \/ skip)
      BY <1>1, <1>5, <2>2 DEF Both
    <3> QED BY <2>1, <2>2, <3>1 DEF Finishes
  <2>3. CASE ~(valid /\ EndsBurst(f, last) /\ AtEnd(g))
    <3>1. /\ state' = IF valid /\ EndsBurst(f, last) THEN WriteDone(f)
                      ELSE IF AtEnd(g) THEN ReadDone(f) ELSE state
          /\ r_ptr' = [r_ptr EXCEPT ![g] = IF ~AtEnd(g) THEN @ + 1 ELSE @]
          /\ w_ptr' = [w_ptr EXCEPT ![f] = IF valid /\ ~EndsBurst(f, last) THEN @ + 1 ELSE @]
          /\ LatchSkip(f, valid, skip)
          /\ UNCHANGED initialized
      BY <1>1, <1>5, <2>3 DEF Both
    <3>2. /\ skip_fifo'[f] = (skip_fifo[f] \/ (valid /\ skip))
          /\ skip_fifo'[g] = skip_fifo[g]
      BY <1>2, <1>4, <3>1, Zenon DEF LatchSkip
    <3>3. CASE valid /\ EndsBurst(f, last)
      <4>1. f = 2
        <5>1. Writing = f
          BY <2>1 DEF Writing, Concurrent, Fifo
        <5>2. Reading = g
          BY <5>1 DEF Reading
        <5>3. Overtakes(TRUE, valid, last)
          BY <1>1, <2>1, <2>3, <3>3, <5>1, <5>2 DEF Overtakes
        <5> QED BY <5>1, <5>3 DEF Fits
      <4>2. state = "MB" /\ state' = "MB_W" /\ g = 1
        BY <2>1, <3>1, <3>3, <4>1, <1>4 DEF Concurrent, WriteDone
      <4>3. w_ptr' = w_ptr
        BY <1>2, <3>1, <3>3
      <4>4. r_ptr'[1] = r_ptr[1] + 1 /\ r_ptr'[2] = r_ptr[2]
        BY <1>2, <1>4, <2>3, <3>1, <3>3, <4>1, <4>2
      <4> QED BY <2>3, <3>1, <3>2, <3>3, <4>1, <4>2, <4>3, <4>4, Zenon DEF Parks
    <3>4. CASE ~(valid /\ EndsBurst(f, last))
      <4>1. state' = IF state = Concurrent(f) /\ ~AtEnd(g) THEN Concurrent(f) ELSE ReadDone(f)
        BY <2>1, <3>1, <3>4
      <4>2. /\ r_ptr'[f] = r_ptr[f]
            /\ state' = Concurrent(f) => r_ptr'[g] = r_ptr[g] + 1
        <5>1. Concurrent(f) # ReadDone(f)
          BY DEF Concurrent, ReadDone
        <5> QED BY <1>2, <1>4, <3>1, <4>1, <5>1
      <4>3. w_ptr' = [w_ptr EXCEPT ![f] = IF valid THEN @ + 1 ELSE @]
        BY <3>1, <3>4
      <4> QED BY <2>1, <3>1, <3>2, <3>4, <4>1, <4>2, <4>3, Zenon DEF Continues
    <3> QED BY <3>3, <3>4
  <2> QED BY <2>2, <2>3
<1>6. CASE WriteOnly(f, valid, last, skip)
  <2>1. state = ReadDone(f) /\ state # Concurrent(f) /\ ~HasUnread
    BY <1>6 DEF WriteOnly, ReadDone, Concurrent, HasUnread, BeingRead
  <2>2. CASE valid /\ EndsBurst(f, last)
    <3>1. ChangeMode(f, skip_fifo[f] \/ skip)
      BY <1>6, <2>2 DEF WriteOnly
    <3> QED BY <2>1, <2>2, <3>1 DEF Finishes
  <2>3. CASE valid /\ ~EndsBurst(f, last)
    <3>1. /\ w_ptr' = [w_ptr EXCEPT ![f] = @ + 1]
          /\ LatchSkip(f, valid, skip)
          /\ state' = state /\ r_ptr' = r_ptr /\ initialized' = initialized
      BY <1>6, <2>3 DEF WriteOnly
    <3>2. /\ skip_fifo'[f] = (skip_fifo[f] \/ (valid /\ skip))
          /\ skip_fifo'[Other(f)] = skip_fifo[Other(f)]
      BY <1>2, <1>4, <3>1, Zenon DEF LatchSkip
    <3> QED BY <2>1, <2>3, <3>1, <3>2, Zenon DEF Continues
  <2>4. CASE ~valid
    <3>1. UNCHANGED control
      BY <1>6, <2>4 DEF WriteOnly
    <3>2. w_ptr' = [w_ptr EXCEPT ![f] = IF valid THEN @ + 1 ELSE @]
      BY <1>2, <2>4, <3>1 DEF control
    <3>3. skip_fifo'[f] = (skip_fifo[f] \/ (valid /\ skip))
      BY <1>2, <2>4, <3>1, Zenon DEF control
    <3> QED BY <2>1, <2>4, <3>1, <3>2, <3>3, Zenon DEF Continues, control
  <2> QED BY <2>2, <2>3, <2>4
<1>7. CASE ReadOnly(f, TRUE)
  <2>1. state = "MB_W" /\ f = 2
    BY <1>7 DEF ReadOnly, WriteDone, ImplInv, Started, Fifo
  <2>2. ~valid
    BY <1>1, <2>1 DEF Waiting
  <2>3. CASE AtEnd(1)
    BY <1>1, <1>7, <2>1, <2>2, <2>3 DEF ReadOnly, Turns
  <2>4. CASE ~AtEnd(1)
    <3>1. r_ptr' = [r_ptr EXCEPT ![1] = @ + 1] /\ UNCHANGED <<state, w_ptr, skip_fifo, initialized>>
      BY <1>1, <1>7, <2>4 DEF ReadOnly
    <3>2. r_ptr'[1] = r_ptr[1] + 1 /\ r_ptr'[2] = r_ptr[2]
      BY <1>2, <3>1 DEF Fifo
    <3> QED BY <2>1, <2>2, <2>4, <3>1, <3>2 DEF Waits
  <2> QED BY <2>3, <2>4
<1> QED BY <1>3, <1>5, <1>6, <1>7

LEMMA AfterChangeMode ==
  ASSUME ImplInv, NEW f \in Fifo, NEW skipped \in BOOLEAN, ChangeMode(f, skipped),
         state \in {Concurrent(f), ReadDone(f), WriteDone(f)}
  PROVE  /\ Writing = f /\ Reading = Other(f) /\ Writing' = Other(f) /\ Reading' = f
         /\ Started' /\ WriterUnread'
         /\ ~Waiting' /\ HasUnread' = ~skipped
<1> USE DEF Fifo, Other
<1>1. Writing = f /\ Reading = Other(f)
  BY DEF Writing, Reading, Concurrent, ReadDone, WriteDone
<1>2. state' = IF skipped THEN ReadDone(Other(f)) ELSE Concurrent(Other(f))
  BY DEF ChangeMode
<1>3. Writing' = Other(f) /\ Reading' = f
  BY <1>2 DEF Writing, Reading, Concurrent, ReadDone
<1>4. initialized'
  <2>1. f = 2 => initialized
    BY DEF ImplInv, Started, Concurrent, ReadDone, WriteDone
  <2>2. initialized' = (initialized \/ f = 1)
    BY DEF ChangeMode
  <2> QED BY <2>1, <2>2
<1>5. Started'
  BY <1>2, <1>4 DEF Started, Concurrent, ReadDone
<1>6. WriterUnread'
  BY <1>3 DEF WriterUnread, ChangeMode
<1>7. ~Waiting' /\ HasUnread' = ~skipped
  BY <1>2, <1>4 DEF Waiting, HasUnread, BeingRead, Concurrent, ReadDone
<1> QED BY <1>1, <1>3, <1>5, <1>6, <1>7

\* What is read goes on being read, unless it ends.
LEMMA AfterContinues ==
  ASSUME ImplInv, NEW f \in Fifo, NEW valid \in BOOLEAN, NEW last \in BOOLEAN,
         NEW skip \in BOOLEAN, Continues(f, valid, last, skip)
  PROVE  /\ Writing = f /\ Reading = Other(f) /\ Writing' = f /\ Reading' = Other(f)
         /\ Started' /\ WriterUnread'
         /\ ~Waiting /\ ~Waiting'
         /\ HasUnread' = (HasUnread /\ ~AtEnd(Other(f)))
         /\ HasUnread' => r_ptr'[Other(f)] = r_ptr[Other(f)] + 1
<1> USE DEF Fifo, Other
<1>1. /\ state \in {Concurrent(f), ReadDone(f)}
      /\ state' = IF state = Concurrent(f) /\ ~AtEnd(Other(f)) THEN Concurrent(f) ELSE ReadDone(f)
      /\ initialized' = initialized
  BY DEF Continues
<1>2. /\ Writing = f /\ Reading = Other(f) /\ Writing' = f /\ Reading' = Other(f)
      /\ ~Waiting /\ ~Waiting'
  BY <1>1 DEF Writing, Reading, Waiting, Concurrent, ReadDone
<1>3. state' = "MA" => initialized
  BY <1>1 DEF ImplInv, Started, AtEnd, Concurrent, ReadDone
<1>4. Started'
  BY <1>1, <1>3 DEF ImplInv, Started, Concurrent, ReadDone
<1>5. WriterUnread'
  BY <1>2 DEF Continues, ImplInv, WriterUnread
<1>6. HasUnread' = (HasUnread /\ ~AtEnd(Other(f)))
  BY <1>1, <1>3 DEF ImplInv, Started, HasUnread, BeingRead, Concurrent, ReadDone
<1>7. HasUnread' => r_ptr'[Other(f)] = r_ptr[Other(f)] + 1
  <2>1. HasUnread' => state' = Concurrent(f)
    BY <1>1 DEF HasUnread, BeingRead, Concurrent, ReadDone
  <2> QED BY <2>1 DEF Continues
<1> QED BY <1>2, <1>4, <1>5, <1>6, <1>7

LEMMA ImplInvClock ==
  ASSUME ImplInv, NEW valid \in BOOLEAN, NEW last \in BOOLEAN, NEW skip \in BOOLEAN,
         NEW d \in Data, Clock(TRUE, valid, last, skip, d), Fits(valid, last)
  PROVE  ImplInv'
<1>1. IInv' /\ SkipOfWriter'
  BY ClockKeeps, SkipClock DEF ImplInv
<1>2. skip_fifo \in [Fifo -> BOOLEAN]
  BY DEF ImplInv, IInv, TypeOK
<1>3. ASSUME NEW f \in Fifo, Finishes(f, last, skip)
      PROVE  Started' /\ WriterUnread'
  <2>1. (skip_fifo[f] \/ skip) \in BOOLEAN
    BY <1>2
  <2> QED BY <1>3, <2>1, AfterChangeMode DEF Finishes
<1>4. ASSUME Parks(last, skip)
      PROVE  Started' /\ WriterUnread'
  BY <1>4 DEF Parks, ImplInv, Started, WriterUnread, Writing
<1>5. ASSUME Turns
      PROVE  Started' /\ WriterUnread'
  <2>1. skip_fifo[2] \in BOOLEAN /\ 2 \in Fifo
    BY <1>2 DEF Fifo
  <2>2. ChangeMode(2, skip_fifo[2]) /\ state = WriteDone(2)
    BY <1>5 DEF Turns, WriteDone
  <2> QED BY <2>1, <2>2, AfterChangeMode
<1>6. ASSUME Waits
      PROVE  Started' /\ WriterUnread'
  BY <1>6 DEF Waits, ImplInv, Started, WriterUnread, Writing
<1>7. ASSUME NEW f \in Fifo, Continues(f, valid, last, skip)
      PROVE  Started' /\ WriterUnread'
  BY <1>7, AfterContinues
<1>8. Started' /\ WriterUnread'
  BY <1>3, <1>4, <1>5, <1>6, <1>7, StepCases
<1> QED BY <1>1, <1>8 DEF ImplInv

LEMMA ImplInvReset ==
  ASSUME ImplInv, NEW valid \in BOOLEAN, NEW d \in Data, Reset(valid, d)
  PROVE  ImplInv' /\ ~Waiting'
<1>1. IInv'
  BY ResetKeeps DEF ImplInv
<1>2. SkipOfWriter' /\ Started' /\ WriterUnread' /\ ~Waiting'
  BY DEF Reset, SkipOfWriter, Started, WriterUnread, Waiting, Writing, Reading, Other, Fifo
<1> QED BY <1>1, <1>2 DEF ImplInv

LEMMA SampledClock ==
  ASSUME Env, NEW rdy \in Ready, NEW valid \in BOOLEAN, NEW last \in BOOLEAN,
         NEW skip \in BOOLEAN, NEW d \in Data, Sampled(rdy, valid, last, skip, d)
  PROVE  Clock(TRUE, valid, last, skip, d) /\ Fits(valid, last)
BY DEF Env, Sampled, MayWrite, Waiting, Fits

LEMMA ImplInvStep ==
  ASSUME Env, ImplInv, [Next]_vars
  PROVE  ImplInv'
<1>1. CASE Tick
  <2>1. PICK rdy \in Ready, valid \in BOOLEAN, last \in BOOLEAN, skip \in BOOLEAN, d \in Data :
          Sampled(rdy, valid, last, skip, d)
    BY <1>1 DEF Tick, TickWith
  <2> QED BY <2>1, SampledClock, ImplInvClock
<1>2. CASE ResetEdge
  BY <1>2, ImplInvReset DEF ResetEdge
<1>3. CASE UNCHANGED vars
  <2>1. IInv' /\ SkipOfWriter'
    BY <1>3, NextIInv, SkipStep DEF ImplInv
  <2> QED BY <1>3, <2>1 DEF vars, control, ImplInv, Started, WriterUnread, Writing
<1> QED BY <1>1, <1>2, <1>3 DEF Next

-----------------------------------------------------------------------------
(* The state of BurstBuffer that a state stands for.                       *)

LEMMA NoWords == ASSUME NEW mem PROVE Words(mem, 0) = <<>>
BY DEF Words

LEMMA UnreadBeats ==
  ASSUME IInv, NEW f \in Fifo
  PROVE  /\ Unread(f) \in Seq(Buffer!Beat) /\ Unread(f) # <<>>
         /\ Head(Unread(f)) = [data |-> ram[f][r_ptr[f]], last |-> AtEnd(f)]
         /\ Tail(Unread(f)) = IF AtEnd(f) THEN <<>>
                              ELSE BeatsFrom(ram[f], r_ptr[f] + 1, w_ptr[f])
<1>1. /\ ram[f] \in [Addr -> Data] /\ r_ptr[f] \in Addr /\ w_ptr[f] \in Addr
      /\ r_ptr[f] <= w_ptr[f]
  BY DEF IInv, TypeOK, ReaderBehind
<1>2. Unread(f) = BeatsFrom(ram[f], r_ptr[f], w_ptr[f])
  BY DEF Unread
<1>3. AtEnd(f) <=> r_ptr[f] = w_ptr[f]
  BY DEF AtEnd
<1>4. [data |-> ram[f][r_ptr[f]], last |-> AtEnd(f)] =
        IF r_ptr[f] = w_ptr[f] THEN [data |-> ram[f][r_ptr[f]], last |-> TRUE]
        ELSE [data |-> ram[f][r_ptr[f]], last |-> FALSE]
  BY DEF AtEnd
<1> DEFINE s == BeatsFrom(ram[f], r_ptr[f], w_ptr[f])
<1>5. s \in Seq(Buffer!Beat) /\ s # <<>>
  BY <1>1, BeatsOffered
<1>6. r_ptr[f] = w_ptr[f] => Head(s) = [data |-> ram[f][r_ptr[f]], last |-> TRUE]
  BY <1>1, BeatsOffered
<1>7. r_ptr[f] # w_ptr[f] => Head(s) = [data |-> ram[f][r_ptr[f]], last |-> FALSE]
  BY <1>1, BeatsOffered
<1>8. Tail(s) = IF r_ptr[f] = w_ptr[f] THEN <<>>
                ELSE BeatsFrom(ram[f], r_ptr[f] + 1, w_ptr[f])
  BY <1>1, BeatsOffered
<1> QED BY <1>2, <1>3, <1>4, <1>5, <1>6, <1>7, <1>8, Zenon

LEMMA UnreadOfOne == IInv => Unread(1) \in Seq(Buffer!Beat)
BY UnreadBeats DEF Fifo

LEMMA MappedParked == IInv => Parked \in Seq(Buffer!Beat) /\ (~Waiting => Parked = <<>>)
<1> SUFFICES ASSUME IInv PROVE Parked \in Seq(Buffer!Beat) /\ (~Waiting => Parked = <<>>)
  OBVIOUS
<1>1. Writing \in Fifo
  BY DEF Writing, Fifo
<1>2. Unread(Writing) \in Seq(Buffer!Beat)
  BY <1>1, UnreadBeats
<1>3. <<>> \in Seq(Buffer!Beat)
  OBVIOUS
<1> QED BY <1>2, <1>3, Zenon DEF Parked

LEMMA OwedBeats == IInv => owed \in Seq(Buffer!Beat)
<1> SUFFICES ASSUME IInv PROVE owed \in Seq(Buffer!Beat)
  OBVIOUS
<1> DEFINE unread == IF HasUnread THEN Unread(Reading) ELSE <<>>
<1>1. Reading \in Fifo
  BY DEF Reading, Writing, Other, Fifo
<1>2. Unread(Reading) \in Seq(Buffer!Beat) /\ <<>> \in Seq(Buffer!Beat)
  BY <1>1, UnreadBeats
<1>3. unread \in Seq(Buffer!Beat)
  BY <1>2
<1>4. owed = unread \o Parked
  BY Zenon DEF owed
<1> HIDE DEF unread
<1> QED BY <1>3, <1>4, MappedParked, ConcatProperties

LEMMA MappedRunning ==
  IInv /\ ~Waiting =>
    /\ filling = Words(ram[Writing], w_ptr[Writing])
    /\ dirty = skip_fifo[Writing]
    /\ owed = IF HasUnread THEN Unread(Reading) ELSE <<>>
<1> SUFFICES ASSUME IInv, ~Waiting
             PROVE  /\ filling = Words(ram[Writing], w_ptr[Writing])
                    /\ dirty = skip_fifo[Writing]
                    /\ owed = IF HasUnread THEN Unread(Reading) ELSE <<>>
  OBVIOUS
<1>1. filling = Words(ram[Writing], w_ptr[Writing])
  BY Zenon DEF filling
<1>2. dirty = skip_fifo[Writing]
  <2>1. Writing \in Fifo /\ skip_fifo \in [Fifo -> BOOLEAN]
    BY DEF Writing, Fifo, IInv, TypeOK
  <2>2. skip_fifo[Writing] \in BOOLEAN
    BY <2>1
  <2> QED BY <2>2, Zenon DEF dirty
<1>3. owed = IF HasUnread THEN Unread(Reading) ELSE <<>>
  <2>1. Reading \in Fifo
    BY DEF Reading, Writing, Other, Fifo
  <2>2. Unread(Reading) \in Seq(Buffer!Beat) /\ <<>> \in Seq(Buffer!Beat)
    BY <2>1, UnreadBeats
  <2> DEFINE unread == IF HasUnread THEN Unread(Reading) ELSE <<>>
  <2>3. unread \in Seq(Buffer!Beat)
    BY <2>2
  <2>4. owed = unread \o <<>>
    BY MappedParked, Zenon DEF owed
  <2> HIDE DEF unread
  <2>5. unread \o <<>> = unread
    BY <2>3, ConcatEmptySeq
  <2> QED BY <2>4, <2>5 DEF unread
<1> QED BY <1>1, <1>2, <1>3

LEMMA MappedWaiting ==
  IInv /\ state = "MB_W" =>
    /\ filling = <<>> /\ dirty = FALSE
    /\ owed = Unread(1) \o Parked
    /\ Parked = IF skip_fifo[2] THEN <<>> ELSE Unread(2)
<1> SUFFICES ASSUME IInv, state = "MB_W"
             PROVE  /\ filling = <<>> /\ dirty = FALSE
                    /\ owed = Unread(1) \o Parked
                    /\ Parked = IF skip_fifo[2] THEN <<>> ELSE Unread(2)
  OBVIOUS
<1>1. Waiting /\ HasUnread /\ Writing = 2 /\ Reading = 1
  BY DEF Waiting, HasUnread, BeingRead, Writing, Reading, Other
<1> QED BY <1>1, Zenon DEF filling, dirty, owed, Parked

\* What is owed after the beat that is offered.
rest == IF HasUnread THEN Tail(owed) ELSE owed

LEMMA RestRunning ==
  ASSUME IInv, ~Waiting
  PROVE  rest = IF HasUnread /\ ~AtEnd(Reading)
                THEN BeatsFrom(ram[Reading], r_ptr[Reading] + 1, w_ptr[Reading]) ELSE <<>>
<1>1. Reading \in Fifo
  BY DEF Reading, Writing, Other, Fifo
<1>2. owed = IF HasUnread THEN Unread(Reading) ELSE <<>>
  BY MappedRunning
<1> QED BY <1>1, <1>2, UnreadBeats, Zenon DEF rest

LEMMA RestWaiting ==
  ASSUME IInv, state = "MB_W"
  PROVE  rest = IF AtEnd(1) THEN Parked
                ELSE BeatsFrom(ram[1], r_ptr[1] + 1, w_ptr[1]) \o Parked
<1>1. HasUnread /\ 1 \in Fifo
  BY DEF HasUnread, BeingRead, Fifo
<1>2. owed = Unread(1) \o Parked
  BY MappedWaiting
<1>3. Tail(owed) = Tail(Unread(1)) \o Parked
  BY <1>1, <1>2, UnreadBeats, MappedParked, FirstOfTwo
<1>4. <<>> \o Parked = Parked
  BY MappedParked, ConcatEmptySeq
<1> QED BY <1>1, <1>3, <1>4, UnreadBeats, Zenon DEF rest

\* The beat that a clock offers is the first one that is owed.
LEMMA OffersFirst ==
  ASSUME IInv, Decode, NEW valid, NEW d, Memory(valid, d)
  PROVE  /\ HasUnread => owed # <<>> /\ beat' = <<Head(owed)>>
         /\ ~HasUnread => beat' = <<>>
<1>1. Reading \in Fifo
  BY DEF Reading, Writing, Other, Fifo
<1>2. m_tvalid' = HasUnread /\ sel_fifo' = Reading /\ m_tlast' = (m_tvalid' /\ AtEnd(Reading))
  BY Zenon DEF Decode, HasUnread
<1>3. dob'[Reading] = ram[Reading][r_ptr[Reading]]
  BY <1>1, Zenon DEF Memory
<1>4. ASSUME HasUnread
      PROVE  owed # <<>> /\ beat' = <<Head(owed)>>
  <2>1. owed = Unread(Reading) \o Parked
    BY <1>4, Zenon DEF owed
  <2>2. owed # <<>> /\ Head(owed) = Head(Unread(Reading))
    BY <1>1, <2>1, UnreadBeats, MappedParked, FirstOfTwo
  <2>3. m_tlast' = AtEnd(Reading)
    <3>1. AtEnd(Reading) \in BOOLEAN
      BY DEF AtEnd
    <3> QED BY <1>2, <1>4, <3>1, Zenon
  <2>4. beat' = <<[data |-> dob'[Reading], last |-> AtEnd(Reading)]>>
    BY <1>2, <1>4, <2>3, Zenon DEF beat
  <2> QED BY <1>1, <1>3, <2>2, <2>4, UnreadBeats, Zenon
<1>5. ASSUME ~HasUnread
      PROVE  beat' = <<>>
  BY <1>2, <1>5, Zenon DEF beat
<1> QED BY <1>4, <1>5

\* The memory that is read is not written.
LEMMA MemoryStep ==
  ASSUME IInv, NEW valid \in BOOLEAN, NEW d, Memory(valid, d)
  PROVE  /\ ram'[Reading] = ram[Reading]
         /\ ram'[Writing] = IF valid /\ ~Waiting
                            THEN [ram[Writing] EXCEPT ![w_ptr[Writing]] = d]
                            ELSE ram[Writing]
<1>1. Reading \in Fifo /\ Writing \in Fifo
  BY DEF Reading, Writing, Other, Fifo
<1>2. ~WriteEnable(Reading, valid) /\ (WriteEnable(Writing, valid) <=> valid /\ ~Waiting)
  BY DEF WriteEnable, Reading, Writing, Other, Waiting, Concurrent, ReadDone,
         IInv, TypeOK, State
<1>3. \A f \in Fifo : ram'[f] = IF WriteEnable(f, valid)
                                THEN [ram[f] EXCEPT ![w_ptr[f]] = d] ELSE ram[f]
  BY Zenon DEF Memory
<1> QED BY <1>1, <1>2, <1>3, Zenon

-----------------------------------------------------------------------------
(* Each step of the two FIFOs is one of the burst buffer.                  *)

\* The word d behind the unfinished burst, as the memory will hold it.
LEMMA Entering ==
  ASSUME IInv, ~Waiting, NEW d \in Data, NEW last \in BOOLEAN, Memory(TRUE, d)
  PROVE  /\ Append(filling, d) = Words(ram'[Writing], w_ptr[Writing] + 1)
         /\ Buffer!Beats(Append(filling, d)) = BeatsFrom(ram'[Writing], 0, w_ptr[Writing])
         /\ EndsBurst(Writing, last) <=> last \/ Len(Append(filling, d)) = DEPTH
<1> DEFINE w == w_ptr[Writing]
           mem == ram[Writing]
<1>1. Writing \in Fifo
  BY DEF Writing, Fifo
<1>2. mem \in [Addr -> Data] /\ w \in Addr
  BY <1>1 DEF IInv, TypeOK
<1>3. filling = Words(mem, w)
  BY MappedRunning
<1>4. ram'[Writing] = [mem EXCEPT ![w] = d]
  BY MemoryStep
<1>5. EndsBurst(Writing, last) <=> last \/ w = END
  BY DEF EndsBurst
<1> HIDE DEF w, mem
<1>6. /\ Len(Append(Words(mem, w), d)) = w + 1
      /\ Words([mem EXCEPT ![w] = d], w + 1) = Append(Words(mem, w), d)
      /\ BeatsFrom([mem EXCEPT ![w] = d], 0, w) = Buffer!Beats(Append(Words(mem, w), d))
  BY <1>2, WordEnters
<1>7. w = END <=> w + 1 = DEPTH
  BY <1>2, Constants DEF END, Addr
<1>8. /\ Append(filling, d) = Words(ram'[Writing], w + 1)
      /\ Buffer!Beats(Append(filling, d)) = BeatsFrom(ram'[Writing], 0, w)
      /\ Len(Append(filling, d)) = w + 1
  BY <1>3, <1>4, <1>6, Zenon
<1> QED BY <1>5, <1>7, <1>8, Zenon DEF w

LEMMA FinishStep ==
  ASSUME ImplInv, IInv', NEW f \in Fifo, NEW last \in BOOLEAN, NEW skip \in BOOLEAN,
         NEW d \in Data, Finishes(f, last, skip), Memory(TRUE, d)
  PROVE  Buffer!Collect(d, last, skip, rest)
<1>1. IInv /\ SkipOfWriter
  BY DEF ImplInv
<1>2. skip_fifo[f] \in BOOLEAN /\ skip_fifo \in [Fifo -> BOOLEAN]
  BY <1>1 DEF IInv, TypeOK
<1>3. (skip_fifo[f] \/ skip) \in BOOLEAN
  OBVIOUS
<1>4. ChangeMode(f, skip_fifo[f] \/ skip) /\ EndsBurst(f, last) /\ state \in {Concurrent(f), ReadDone(f)}
  BY DEF Finishes
<1>5. /\ Writing = f /\ Reading = Other(f) /\ Writing' = Other(f) /\ Reading' = f
      /\ ~Waiting' /\ (HasUnread' <=> ~(skip_fifo[f] \/ skip))
  BY <1>3, <1>4, AfterChangeMode
<1>6. ~Waiting
  BY <1>4 DEF Waiting, Concurrent, ReadDone
<1>7. dirty = skip_fifo[f] /\ rest = <<>>
  <2>1. dirty = skip_fifo[f]
    BY <1>1, <1>5, <1>6, MappedRunning
  <2>2. HasUnread => AtEnd(Reading)
    BY <1>5 DEF Finishes
  <2> QED BY <1>1, <1>6, <2>1, <2>2, RestRunning, Zenon
<1>8. /\ filling' = Words(ram'[Writing'], w_ptr'[Writing'])
      /\ dirty' = skip_fifo'[Writing']
      /\ owed' = IF HasUnread' THEN Unread(Reading)' ELSE <<>>
  <2>1. (IInv /\ ~Waiting =>
          /\ filling = Words(ram[Writing], w_ptr[Writing])
          /\ dirty = skip_fifo[Writing]
          /\ owed = IF HasUnread THEN Unread(Reading) ELSE <<>>)'
    BY MappedRunning, PTL
  <2> QED BY <1>5, <2>1
<1>9. /\ w_ptr'[Other(f)] = 0 /\ r_ptr'[f] = 0
      /\ ~(skip_fifo[f] \/ skip) => w_ptr'[f] = w_ptr[f]
      /\ skip_fifo'[Other(f)] = skip_fifo[Other(f)] /\ ~skip_fifo[Other(f)]
  <2>1. Other(f) \in Fifo /\ Other(f) # f
    BY Constants
  <2> QED BY <1>1, <1>2, <1>4, <1>5, <2>1 DEF ChangeMode, SkipOfWriter
<1>10. filling' = <<>> /\ dirty' = FALSE
  <2>1. filling' = <<>>
    BY <1>5, <1>8, <1>9, NoWords
  <2>2. dirty' = skip_fifo[Other(f)] /\ skip_fifo[Other(f)] = FALSE
    BY <1>2, <1>5, <1>8, <1>9, Constants
  <2> QED BY <2>1, <2>2
<1>11. /\ Buffer!Beats(Append(filling, d)) = BeatsFrom(ram'[f], 0, w_ptr[f])
       /\ last \/ Len(Append(filling, d)) = DEPTH
  BY <1>1, <1>4, <1>5, <1>6, Entering
<1>12. owed' = IF dirty \/ skip THEN rest ELSE rest \o Buffer!Beats(Append(filling, d))
  <2>1. CASE skip_fifo[f] \/ skip
    BY <1>5, <1>7, <1>8, <2>1, Zenon
  <2>2. CASE ~(skip_fifo[f] \/ skip)
    <3>1. Unread(Reading)' = BeatsFrom(ram'[f], r_ptr'[f], w_ptr'[f])
      BY <1>5 DEF Unread
    <3>2. owed' = Buffer!Beats(Append(filling, d))
      BY <1>5, <1>8, <1>9, <1>11, <2>2, <3>1, Zenon
    <3>3. owed' \in Seq(Buffer!Beat)
      <4>1. (IInv => owed \in Seq(Buffer!Beat))'
        BY OwedBeats, PTL
      <4> QED BY <4>1
    <3>4. rest \o Buffer!Beats(Append(filling, d)) = owed'
      BY <1>7, <3>2, <3>3, ConcatEmptySeq
    <3> QED BY <1>7, <2>2, <3>4, Zenon
  <2> QED BY <2>1, <2>2
<1> QED BY <1>10, <1>11, <1>12, Zenon DEF Buffer!Collect

\* The burst parks behind what is left to read.
LEMMA ParkStep ==
  ASSUME ImplInv, IInv', NEW last \in BOOLEAN, NEW skip \in BOOLEAN,
         NEW d \in Data, Parks(last, skip), Memory(TRUE, d)
  PROVE  Buffer!Collect(d, last, skip, rest)
<1>1. IInv /\ WriterUnread
  BY DEF ImplInv
<1>2. /\ Writing = 2 /\ Reading = 1 /\ ~Waiting /\ HasUnread
      /\ state' = "MB_W" /\ ~AtEnd(1) /\ EndsBurst(2, last)
  BY DEF Parks, Writing, Reading, Other, Waiting, HasUnread, BeingRead
<1>3. dirty = skip_fifo[2] /\ rest = BeatsFrom(ram[1], r_ptr[1] + 1, w_ptr[1])
  BY <1>1, <1>2, MappedRunning, RestRunning, Zenon
<1>4. /\ filling' = <<>> /\ dirty' = FALSE
      /\ owed' = Unread(1)' \o Parked'
      /\ Parked' = IF skip_fifo'[2] THEN <<>> ELSE Unread(2)'
  <2>1. (IInv /\ state = "MB_W" =>
          /\ filling = <<>> /\ dirty = FALSE
          /\ owed = Unread(1) \o Parked
          /\ Parked = IF skip_fifo[2] THEN <<>> ELSE Unread(2))'
    BY MappedWaiting, PTL
  <2> QED BY <1>2, <2>1
<1>5. /\ Buffer!Beats(Append(filling, d)) = BeatsFrom(ram'[2], 0, w_ptr[2])
      /\ last \/ Len(Append(filling, d)) = DEPTH
  BY <1>1, <1>2, Entering
<1>6. Unread(1)' = rest
  <2>1. ram'[1] = ram[1]
    BY <1>1, <1>2, MemoryStep
  <2>2. r_ptr'[1] = r_ptr[1] + 1 /\ w_ptr' = w_ptr
    BY DEF Parks
  <2> QED BY <1>3, <2>1, <2>2, Zenon DEF Unread
<1>7. Unread(2)' = Buffer!Beats(Append(filling, d))
  <2>1. r_ptr'[2] = 0 /\ w_ptr' = w_ptr
    BY <1>1, <1>2 DEF Parks, WriterUnread
  <2> QED BY <1>5, <2>1, Zenon DEF Unread
<1>8. owed' = IF dirty \/ skip THEN rest ELSE rest \o Buffer!Beats(Append(filling, d))
  <2>1. skip_fifo'[2] = (dirty \/ skip)
    BY <1>3, Zenon DEF Parks
  <2>2. CASE dirty \/ skip
    <3>1. Unread(1)' \in Seq(Buffer!Beat)
      <4>1. (IInv => Unread(1) \in Seq(Buffer!Beat))'
        BY UnreadOfOne, PTL
      <4> QED BY <4>1
    <3>2. Parked' = <<>>
      BY <1>4, <2>1, <2>2, Zenon
    <3>3. Unread(1)' \o Parked' = Unread(1)'
      BY <3>1, <3>2, ConcatEmptySeq
    <3> QED BY <1>4, <1>6, <2>2, <3>3, Zenon
  <2>3. CASE ~(dirty \/ skip)
    BY <1>4, <1>6, <1>7, <2>1, <2>3, Zenon
  <2> QED BY <2>2, <2>3
<1> QED BY <1>4, <1>5, <1>8, Zenon DEF Buffer!Collect

\* The parked burst has its turn.
LEMMA TurnStep ==
  ASSUME ImplInv, IInv', NEW d, Turns, Memory(FALSE, d)
  PROVE  Buffer!Keep(rest)
<1>1. IInv /\ SkipOfWriter /\ WriterUnread
  BY DEF ImplInv
<1>2. skip_fifo[2] \in BOOLEAN /\ skip_fifo \in [Fifo -> BOOLEAN] /\ 2 \in Fifo /\ Other(2) = 1
  BY <1>1 DEF IInv, TypeOK, Fifo, Other
<1>3. ChangeMode(2, skip_fifo[2]) /\ state = "MB_W" /\ state = WriteDone(2) /\ AtEnd(1)
  BY DEF Turns, WriteDone
<1>4. /\ Writing = 2 /\ Reading = 1 /\ Writing' = 1 /\ Reading' = 2
      /\ ~Waiting' /\ (HasUnread' <=> ~skip_fifo[2])
  <2>1. /\ Writing = 2 /\ Reading = Other(2) /\ Writing' = Other(2) /\ Reading' = 2
        /\ ~Waiting' /\ HasUnread' = ~skip_fifo[2]
    BY <1>2, <1>3, AfterChangeMode
  <2> QED BY <1>2, <2>1
<1>5. /\ filling = <<>> /\ dirty = FALSE
      /\ rest = IF skip_fifo[2] THEN <<>> ELSE Unread(2)
  BY <1>1, <1>3, MappedWaiting, RestWaiting, Zenon
<1>6. /\ filling' = Words(ram'[1], w_ptr'[1])
      /\ dirty' = skip_fifo'[1]
      /\ owed' = IF HasUnread' THEN Unread(2)' ELSE <<>>
  <2>1. (IInv /\ ~Waiting =>
          /\ filling = Words(ram[Writing], w_ptr[Writing])
          /\ dirty = skip_fifo[Writing]
          /\ owed = IF HasUnread THEN Unread(Reading) ELSE <<>>)'
    BY MappedRunning, PTL
  <2>2. Unread(Reading)' = Unread(2)'
    BY <1>4 DEF Unread
  <2> QED BY <1>4, <2>1, <2>2, Zenon
<1>7. /\ w_ptr'[1] = 0 /\ r_ptr'[2] = 0 /\ r_ptr[2] = 0
      /\ ~skip_fifo[2] => w_ptr'[2] = w_ptr[2]
      /\ skip_fifo'[1] = FALSE
  BY <1>1, <1>2, <1>3, <1>4 DEF ChangeMode, SkipOfWriter, WriterUnread, Fifo
<1>8. filling' = <<>> /\ dirty' = FALSE
  BY <1>6, <1>7, NoWords
<1>9. owed' = rest
  <2>1. CASE skip_fifo[2]
    BY <1>4, <1>5, <1>6, <2>1, Zenon
  <2>2. CASE ~skip_fifo[2]
    <3>1. ram'[2] = ram[2]
      BY <1>1, <1>4, MemoryStep
    <3>2. Unread(2)' = Unread(2)
      BY <1>7, <2>2, <3>1, Zenon DEF Unread
    <3> QED BY <1>4, <1>5, <1>6, <2>2, <3>2, Zenon
  <2> QED BY <2>1, <2>2
<1> QED BY <1>5, <1>8, <1>9, Zenon DEF Buffer!Keep

LEMMA WaitStep ==
  ASSUME ImplInv, IInv', NEW d, Waits, Memory(FALSE, d)
  PROVE  Buffer!Keep(rest)
<1>1. IInv
  BY DEF ImplInv
<1>2. /\ state = "MB_W" /\ state' = "MB_W" /\ ~AtEnd(1) /\ Writing = 2 /\ Reading = 1
      /\ w_ptr' = w_ptr /\ skip_fifo' = skip_fifo
      /\ r_ptr'[1] = r_ptr[1] + 1 /\ r_ptr'[2] = r_ptr[2]
  BY DEF Waits, Writing, Reading, Other
<1>3. /\ filling = <<>> /\ dirty = FALSE
      /\ Parked = IF skip_fifo[2] THEN <<>> ELSE Unread(2)
      /\ rest = BeatsFrom(ram[1], r_ptr[1] + 1, w_ptr[1]) \o Parked
  BY <1>1, <1>2, MappedWaiting, RestWaiting, Zenon
<1>4. /\ filling' = <<>> /\ dirty' = FALSE
      /\ owed' = Unread(1)' \o Parked'
      /\ Parked' = IF skip_fifo'[2] THEN <<>> ELSE Unread(2)'
  <2>1. (IInv /\ state = "MB_W" =>
          /\ filling = <<>> /\ dirty = FALSE
          /\ owed = Unread(1) \o Parked
          /\ Parked = IF skip_fifo[2] THEN <<>> ELSE Unread(2))'
    BY MappedWaiting, PTL
  <2> QED BY <1>2, <2>1
<1>5. ram'[1] = ram[1] /\ ram'[2] = ram[2]
  BY <1>1, <1>2, MemoryStep
<1>6. Unread(1)' = BeatsFrom(ram[1], r_ptr[1] + 1, w_ptr[1]) /\ Unread(2)' = Unread(2)
  BY <1>2, <1>5, Zenon DEF Unread
<1>7. owed' = rest
  BY <1>2, <1>3, <1>4, <1>6, Zenon
<1> QED BY <1>3, <1>4, <1>7, Zenon DEF Buffer!Keep

LEMMA ContinueStep ==
  ASSUME ImplInv, IInv', NEW f \in Fifo, NEW valid \in BOOLEAN, NEW last \in BOOLEAN,
         NEW skip \in BOOLEAN, NEW d \in Data, Continues(f, valid, last, skip),
         Memory(valid, d)
  PROVE  IF valid THEN Buffer!Collect(d, last, skip, rest) ELSE Buffer!Keep(rest)
<1> DEFINE g == Other(f)
<1>1. IInv
  BY DEF ImplInv
<1>2. /\ Writing = f /\ Reading = g /\ Writing' = f /\ Reading' = g
      /\ ~Waiting /\ ~Waiting'
      /\ HasUnread' <=> HasUnread /\ ~AtEnd(g)
      /\ HasUnread' => r_ptr'[g] = r_ptr[g] + 1
  BY AfterContinues
<1>3. /\ g \in Fifo /\ g # f /\ w_ptr \in [Fifo -> Addr] /\ skip_fifo[f] \in BOOLEAN
  BY <1>1, Constants DEF IInv, TypeOK
<1>4. /\ filling = Words(ram[f], w_ptr[f]) /\ dirty = skip_fifo[f]
      /\ rest = IF HasUnread /\ ~AtEnd(g)
                THEN BeatsFrom(ram[g], r_ptr[g] + 1, w_ptr[g]) ELSE <<>>
  BY <1>1, <1>2, MappedRunning, RestRunning, Zenon
<1>5. /\ filling' = Words(ram'[f], w_ptr'[f])
      /\ dirty' = skip_fifo'[f]
      /\ owed' = IF HasUnread' THEN Unread(g)' ELSE <<>>
  <2>1. (IInv /\ ~Waiting =>
          /\ filling = Words(ram[Writing], w_ptr[Writing])
          /\ dirty = skip_fifo[Writing]
          /\ owed = IF HasUnread THEN Unread(Reading) ELSE <<>>)'
    BY MappedRunning, PTL
  <2>2. Unread(Reading)' = Unread(g)'
    BY <1>2, Zenon DEF Unread
  <2> QED BY <1>2, <2>1, <2>2, Zenon
<1>6. /\ w_ptr'[g] = w_ptr[g] /\ w_ptr'[f] = IF valid THEN w_ptr[f] + 1 ELSE w_ptr[f]
  BY <1>3 DEF Continues
<1>7. skip_fifo'[f] = (skip_fifo[f] \/ (valid /\ skip)) /\ (valid => ~EndsBurst(f, last))
  BY Zenon DEF Continues
<1>8. owed' = rest
  <2>1. ram'[g] = ram[g]
    BY <1>1, <1>2, MemoryStep
  <2>2. HasUnread' => Unread(g)' = BeatsFrom(ram[g], r_ptr[g] + 1, w_ptr[g])
    BY <1>2, <1>6, <2>1, Zenon DEF Unread
  <2> QED BY <1>2, <1>4, <1>5, <2>2, Zenon
<1>9. CASE valid
  <2>1. /\ Append(filling, d) = Words(ram'[f], w_ptr[f] + 1)
        /\ ~(last \/ Len(Append(filling, d)) = DEPTH)
    <3>1. Memory(TRUE, d)
      BY <1>9
    <3> QED BY <1>1, <1>2, <1>7, <1>9, <3>1, Entering
  <2>2. filling' = Append(filling, d)
    BY <1>5, <1>6, <1>9, <2>1, Zenon
  <2>3. dirty' = (dirty \/ skip)
    BY <1>4, <1>5, <1>7, <1>9, Zenon
  <2>4. Buffer!Collect(d, last, skip, rest)
    BY <1>8, <2>1, <2>2, <2>3, Zenon DEF Buffer!Collect
  <2> QED BY <1>9, <2>4
<1>10. CASE ~valid
  <2>1. ram'[f] = ram[f]
    BY <1>1, <1>2, <1>10, MemoryStep, Zenon
  <2>2. filling' = filling
    BY <1>4, <1>5, <1>6, <1>10, <2>1, Zenon
  <2>3. dirty' = dirty
    BY <1>3, <1>4, <1>5, <1>7, <1>10, Zenon
  <2> QED BY <1>8, <1>10, <2>2, <2>3, Zenon DEF Buffer!Keep
<1> QED BY <1>9, <1>10

\* What becomes of the words and of what is owed.
LEMMA InputStep ==
  ASSUME ImplInv, ImplInv', NEW valid \in BOOLEAN, NEW last \in BOOLEAN, NEW skip \in BOOLEAN,
         NEW d \in Data, Clock(TRUE, valid, last, skip, d), Fits(valid, last)
  PROVE  IF valid THEN Buffer!Collect(d, last, skip, rest) ELSE Buffer!Keep(rest)
<1>1. IInv' /\ Memory(valid, d)
  BY DEF ImplInv, Clock
<1>2. ASSUME valid, NEW f \in Fifo, Finishes(f, last, skip)
      PROVE  Buffer!Collect(d, last, skip, rest)
  BY <1>1, <1>2, FinishStep
<1>3. ASSUME valid, Parks(last, skip)
      PROVE  Buffer!Collect(d, last, skip, rest)
  BY <1>1, <1>3, ParkStep
<1>4. ASSUME ~valid, Turns \/ Waits
      PROVE  Buffer!Keep(rest)
  <2>1. Memory(FALSE, d)
    BY <1>1, <1>4
  <2> QED BY <1>1, <1>4, <2>1, TurnStep, WaitStep
<1>5. ASSUME NEW f \in Fifo, Continues(f, valid, last, skip)
      PROVE  IF valid THEN Buffer!Collect(d, last, skip, rest) ELSE Buffer!Keep(rest)
  BY <1>1, <1>5, ContinueStep
<1> QED BY <1>2, <1>3, <1>4, <1>5, StepCases, Zenon

\* What is offered.
LEMMA OfferStep ==
  ASSUME ImplInv, NEW valid \in BOOLEAN, NEW last \in BOOLEAN, NEW skip \in BOOLEAN,
         NEW d \in Data, Clock(TRUE, valid, last, skip, d)
  PROVE  /\ HasUnread => owed # <<>> /\ beat' = <<Head(owed)>>
         /\ ~HasUnread => beat' = <<>>
BY OffersFirst DEF ImplInv, Clock

LEMMA ClockStep ==
  ASSUME Env, ImplInv, ImplInv', NEW rdy \in Ready, NEW valid \in BOOLEAN, NEW last \in BOOLEAN,
         NEW skip \in BOOLEAN, NEW d \in Data, Sampled(rdy, valid, last, skip, d),
         taken' = IF valid THEN <<Word(d, last, skip)>> ELSE <<>>
  PROVE  Buffer!Next
<1>1. Clock(TRUE, valid, last, skip, d) /\ Fits(valid, last)
  BY SampledClock
<1>2. Buffer!Input(rest)
  <2>1. CASE valid
    <3>1. Buffer!Collect(d, last, skip, rest)
      BY <1>1, <2>1, InputStep
    <3> QED BY <2>1, <3>1, Zenon DEF Buffer!Input, Word
  <2>2. CASE ~valid
    <3>1. Buffer!Keep(rest)
      BY <1>1, <2>2, InputStep
    <3> QED BY <2>2, <3>1, Zenon DEF Buffer!Input
  <2> QED BY <2>1, <2>2
<1>3. CASE HasUnread
  <2>1. owed # <<>> /\ beat' = <<Head(owed)>>
    BY <1>1, <1>3, OfferStep
  <2>2. Buffer!Input(Tail(owed))
    BY <1>2, <1>3, Zenon DEF rest
  <2> QED BY <2>1, <2>2, Zenon DEF Buffer!Next, Buffer!Offer
<1>4. CASE ~HasUnread
  <2>1. beat' = <<>>
    BY <1>1, <1>4, OfferStep
  <2>2. Buffer!Input(owed)
    BY <1>2, <1>4, Zenon DEF rest
  <2> QED BY <2>1, <2>2, Zenon DEF Buffer!Next, Buffer!NoOffer
<1> QED BY <1>3, <1>4

\* The state after a reset, and before the first clock.
LEMMA MappedStart ==
  IInv /\ state = "MA" /\ ~initialized /\ w_ptr[1] = 0 /\ skip_fifo[1] = FALSE /\ ~m_tvalid =>
    filling = <<>> /\ dirty = FALSE /\ owed = <<>> /\ beat = <<>>
<1> SUFFICES ASSUME IInv, state = "MA", ~initialized, w_ptr[1] = 0, skip_fifo[1] = FALSE,
                    ~m_tvalid
             PROVE  filling = <<>> /\ dirty = FALSE /\ owed = <<>> /\ beat = <<>>
  OBVIOUS
<1>1. ~Waiting /\ ~HasUnread /\ Writing = 1
  BY DEF Waiting, HasUnread, Writing
<1>2. filling = <<>> /\ dirty = FALSE /\ owed = <<>>
  BY <1>1, MappedRunning, NoWords, Zenon
<1> QED BY <1>2, Zenon DEF beat

LEMMA ImplStep ==
  ASSUME Env, ImplInv, ImplInv', [ImplNext]_<<vars, taken>>
  PROVE  [Buffer!Next]_Buffer!vars
<1>1. IInv'
  BY DEF ImplInv
<1>2. ASSUME NEW rdy \in Ready, NEW valid \in BOOLEAN, NEW last \in BOOLEAN,
             NEW skip \in BOOLEAN, NEW d \in Data, Sampled(rdy, valid, last, skip, d),
             taken' = IF valid THEN <<Word(d, last, skip)>> ELSE <<>>
      PROVE  Buffer!Next
  BY <1>2, ClockStep
<1>3. CASE ResetEdge /\ taken' = <<>>
  <2>1. /\ state' = "MA" /\ ~initialized' /\ w_ptr'[1] = 0 /\ skip_fifo'[1] = FALSE /\ ~m_tvalid'
    BY <1>3 DEF ResetEdge, Reset, Fifo
  <2>2. (IInv /\ state = "MA" /\ ~initialized /\ w_ptr[1] = 0 /\ skip_fifo[1] = FALSE
           /\ ~m_tvalid =>
         filling = <<>> /\ dirty = FALSE /\ owed = <<>> /\ beat = <<>>)'
    BY MappedStart, PTL
  <2>3. Buffer!Reset
    BY <1>1, <1>3, <2>1, <2>2, Zenon DEF Buffer!Reset
  <2> QED BY <2>3 DEF Buffer!Next
<1>4. CASE UNCHANGED <<vars, taken>>
  BY <1>4, Zenon DEF vars, control, memory, outputs, Buffer!vars, filling, dirty, owed, beat,
     Waiting, HasUnread, BeingRead, Writing, Reading, Parked, Unread
<1> QED BY <1>2, <1>3, <1>4 DEF ImplNext
-----------------------------------------------------------------------------
LEMMA ImplInit_Inv == Init => ImplInv
<1> SUFFICES ASSUME Init PROVE ImplInv
  OBVIOUS
<1>1. IInv
  BY InitIInv
<1>2. SkipOfWriter /\ Started /\ WriterUnread
  BY DEF Init, SkipOfWriter, Started, WriterUnread, Reading, Writing, Other, Fifo
<1> QED BY <1>1, <1>2 DEF ImplInv

\* zluudg_ppfifo implements the burst buffer, whatever its depth: with a
\* consumer that is always ready, and a producer that may finish a burst early
\* in mode B only and then pauses, it loses, repeats, reorders and invents
\* nothing, and outputs the bursts without a skip mark (P_PPFIFO, zluudg_ram).
THEOREM BufferImplemented ==
  ASSUME Env
  PROVE  ImplSpec => ImplementsBuffer
<1>1. ImplInit => ImplInv /\ Buffer!Init
  <2> SUFFICES ASSUME ImplInit PROVE ImplInv /\ Buffer!Init
    OBVIOUS
  <2>1. ImplInv
    BY ImplInit_Inv DEF ImplInit
  <2>2. state = "MA" /\ ~initialized /\ w_ptr[1] = 0 /\ skip_fifo[1] = FALSE /\ ~m_tvalid
    BY DEF ImplInit, Init, Fifo
  <2> QED BY <2>1, <2>2, MappedStart, Zenon DEF ImplInv, ImplInit, Buffer!Init
<1>2. [ImplNext]_<<vars, taken>> => [Next]_vars
  BY DEF ImplNext, Next, Tick, TickWith
<1>3. ImplInv /\ [Next]_vars => ImplInv'
  BY ImplInvStep
<1>4. ImplInv /\ ImplInv' /\ [ImplNext]_<<vars, taken>> => [Buffer!Next]_Buffer!vars
  BY ImplStep
<1> QED BY <1>1, <1>2, <1>3, <1>4, PTL DEF ImplSpec, ImplementsBuffer, Buffer!Spec
-----------------------------------------------------------------------------
(* The buffer for who composes it: with a consumer that is always ready    *)
(* and bursts that end no sooner than at the last beat of the one before,  *)
(* it never waits, and is a queue of beats.                                *)

Burst(words) == [i \in 1..Len(words) |-> [data |-> words[i], last |-> i = Len(words)]]
Ends(last) == last \/ Len(filling) + 1 = DEPTH
left == IF owed = <<>> THEN <<>> ELSE Tail(owed)

LEMMA StreamTypes ==
  ASSUME ImplInv, ~Waiting
  PROVE  /\ filling \in Seq(Data) /\ Len(filling) = w_ptr[Writing] /\ Len(filling) < DEPTH
         /\ owed \in Seq([data : Data, last : BOOLEAN])
         /\ HasUnread <=> owed # <<>>
         /\ HasUnread /\ Len(owed) <= 1 => AtEnd(Reading)
<1>1. IInv /\ Writing \in Fifo /\ Reading \in Fifo
  BY DEF ImplInv, Writing, Reading, Other, Fifo
<1> DEFINE w == w_ptr[Writing]
           mem == ram[Writing]
<1>2. w \in Addr /\ mem \in [Addr -> Data]
  BY <1>1 DEF IInv, TypeOK
<1>3. filling = Words(mem, w)
  BY <1>1, MappedRunning
<1> HIDE DEF w, mem
<1>4. w \in Nat /\ w < DEPTH /\ \A i \in 1..w : i - 1 \in Addr
  BY <1>2, Constants DEF END, Addr
<1>5. filling \in Seq(Data) /\ Len(filling) = w
  <2>1. Words(mem, w) \in [1..w -> Data]
    BY <1>2, <1>4 DEF Words
  <2> QED BY <1>3, <1>4, <2>1, SeqDef, LenProperties
<1>6. owed \in Seq([data : Data, last : BOOLEAN])
  BY <1>1, OwedBeats DEF Buffer!Beat
<1>7. owed = IF HasUnread THEN Unread(Reading) ELSE <<>>
  BY <1>1, MappedRunning
<1>8. HasUnread <=> owed # <<>>
  BY <1>1, <1>7, UnreadBeats
<1>9. ASSUME HasUnread, Len(owed) <= 1
      PROVE  AtEnd(Reading)
  <2> DEFINE r == r_ptr[Reading]
             v == w_ptr[Reading]
  <2>1. r \in Addr /\ v \in Addr /\ r <= v
    BY <1>1 DEF IInv, TypeOK, ReaderBehind
  <2>2. owed = BeatsFrom(ram[Reading], r, v)
    BY <1>7, <1>9 DEF Unread
  <2> HIDE DEF r, v
  <2>3. r \in Nat /\ v \in Nat /\ r <= v
    BY <2>1, Constants
  <2>4. Len(owed) = v - r + 1
    BY <2>2, <2>3 DEF BeatsFrom
  <2>5. r = v
    BY <1>9, <2>3, <2>4
  <2> QED BY <2>5 DEF AtEnd, r, v
<1> QED BY <1>4, <1>5, <1>6, <1>8, <1>9 DEF w

LEMMA StreamStep ==
  ASSUME ImplInv, ~Waiting, NEW valid \in BOOLEAN, NEW last \in BOOLEAN, NEW skip \in BOOLEAN,
         NEW d \in Data, Clock(TRUE, valid, last, skip, d),
         valid /\ Ends(last) => Len(owed) <= 1
  PROVE  /\ ImplInv' /\ ~Waiting'
         /\ beat' = IF owed = <<>> THEN <<>> ELSE <<Head(owed)>>
         /\ valid /\ Ends(last) =>
              /\ filling' = <<>> /\ dirty' = FALSE
              /\ owed' = IF dirty \/ skip THEN left ELSE left \o Burst(Append(filling, d))
         /\ valid /\ ~Ends(last) =>
              filling' = Append(filling, d) /\ dirty' = (dirty \/ skip) /\ owed' = left
         /\ ~valid => filling' = filling /\ dirty' = dirty /\ owed' = left
         /\ almost_full' = (Len(filling) + WATERMARK >= END) /\ s_tready'
<1>1. IInv /\ Writing \in Fifo /\ Reading \in Fifo
  BY DEF ImplInv, Writing, Reading, Other, Fifo
<1>2. /\ filling \in Seq(Data) /\ Len(filling) = w_ptr[Writing]
      /\ HasUnread <=> owed # <<>>
      /\ HasUnread /\ Len(owed) <= 1 => AtEnd(Reading)
  BY StreamTypes
<1>3. Ends(last) <=> EndsBurst(Writing, last)
  <2>1. w_ptr[Writing] \in Nat /\ (w_ptr[Writing] = END <=> w_ptr[Writing] + 1 = DEPTH)
    BY <1>1, Constants DEF IInv, TypeOK, END
  <2> QED BY <1>2, <2>1 DEF Ends, EndsBurst
<1>4. valid /\ EndsBurst(Writing, last) => ~HasUnread \/ AtEnd(Reading)
  BY <1>2, <1>3
<1>5. state = "MA" /\ ~initialized => AtEnd(Reading)
  BY DEF ImplInv, Started, AtEnd, Reading, Writing, Other
<1>6. valid /\ EndsBurst(Writing, last) /\ state = Concurrent(Writing) => AtEnd(Reading)
  BY <1>4, <1>5 DEF HasUnread, BeingRead, Concurrent, Writing
<1>7. Fits(valid, last)
  BY <1>6 DEF Fits, Overtakes
<1>8. ImplInv'
  BY <1>7, ImplInvClock
<1>9. ~Waiting'
  <2>1. skip_fifo \in [Fifo -> BOOLEAN]
    BY <1>1 DEF IInv, TypeOK
  <2>2. ASSUME NEW f \in Fifo, Finishes(f, last, skip)
        PROVE  ~Waiting'
    <3>1. (skip_fifo[f] \/ skip) \in BOOLEAN
      BY <2>1
    <3> QED BY <2>2, <3>1, AfterChangeMode DEF Finishes
  <2>3. ASSUME valid, Parks(last, skip)
        PROVE  FALSE
    <3>1. Writing = 2 /\ Reading = 1 /\ state = Concurrent(2)
      BY <2>3 DEF Parks, Writing, Reading, Other, Concurrent
    <3> QED BY <1>6, <2>3, <3>1 DEF Parks
  <2>4. ~(Turns \/ Waits)
    BY DEF Turns, Waits, Waiting
  <2>5. ASSUME NEW f \in Fifo, Continues(f, valid, last, skip)
        PROVE  ~Waiting'
    BY <2>5, AfterContinues
  <2> QED BY <1>7, <2>2, <2>3, <2>4, <2>5, StepCases
<1>10. rest = left
  BY <1>2, Zenon DEF rest, left
<1>11. /\ HasUnread => owed # <<>> /\ beat' = <<Head(owed)>>
       /\ ~HasUnread => beat' = <<>>
  BY OfferStep
<1>12. IF valid THEN Buffer!Collect(d, last, skip, left) ELSE Buffer!Keep(left)
  BY <1>7, <1>8, <1>10, InputStep, Zenon
<1>13. Len(Append(filling, d)) = Len(filling) + 1
  BY <1>2
<1>14. Buffer!Beats(Append(filling, d)) = Burst(Append(filling, d))
  BY Zenon DEF Buffer!Beats, Burst
<1>15. almost_full' = (Len(filling) + WATERMARK >= END) /\ s_tready'
  BY <1>2 DEF Clock, Decode, AlmostFull, Waiting
<1>16. ASSUME valid, Ends(last)
       PROVE  /\ filling' = <<>> /\ dirty' = FALSE
              /\ owed' = IF dirty \/ skip THEN left ELSE left \o Burst(Append(filling, d))
  BY <1>12, <1>13, <1>14, <1>16, Zenon DEF Buffer!Collect, Ends
<1>17. ASSUME valid, ~Ends(last)
       PROVE  filling' = Append(filling, d) /\ dirty' = (dirty \/ skip) /\ owed' = left
  BY <1>12, <1>13, <1>17, Zenon DEF Buffer!Collect, Ends
<1>18. ASSUME ~valid
       PROVE  filling' = filling /\ dirty' = dirty /\ owed' = left
  BY <1>12, <1>18, Zenon DEF Buffer!Keep
<1>19. beat' = IF owed = <<>> THEN <<>> ELSE <<Head(owed)>>
  BY <1>2, <1>11, Zenon
<1> QED BY <1>8, <1>9, <1>15, <1>16, <1>17, <1>18, <1>19

LEMMA StreamReset ==
  ASSUME ImplInv, NEW valid \in BOOLEAN, NEW d \in Data, Reset(valid, d)
  PROVE  /\ ImplInv' /\ ~Waiting' /\ ~almost_full'
         /\ filling' = <<>> /\ dirty' = FALSE /\ owed' = <<>> /\ beat' = <<>>
<1>1. ImplInv' /\ ~Waiting' /\ ~almost_full'
  BY ImplInvReset DEF Reset
<1>2. state' = "MA" /\ ~initialized' /\ w_ptr'[1] = 0 /\ skip_fifo'[1] = FALSE /\ ~m_tvalid'
  BY DEF Reset, Fifo
<1>3. (IInv /\ state = "MA" /\ ~initialized /\ w_ptr[1] = 0 /\ skip_fifo[1] = FALSE
         /\ ~m_tvalid =>
       filling = <<>> /\ dirty = FALSE /\ owed = <<>> /\ beat = <<>>)'
  BY MappedStart, PTL
<1> QED BY <1>1, <1>2, <1>3 DEF ImplInv

LEMMA StreamStart ==
  ASSUME Init
  PROVE  /\ ImplInv /\ ~Waiting /\ ~almost_full
         /\ filling = <<>> /\ dirty = FALSE /\ owed = <<>> /\ beat = <<>>
<1>1. ImplInv /\ ~Waiting /\ ~almost_full
  BY ImplInit_Inv DEF Init, Waiting
<1>2. state = "MA" /\ ~initialized /\ w_ptr[1] = 0 /\ skip_fifo[1] = FALSE /\ ~m_tvalid
  BY DEF Init, Fifo
<1> QED BY <1>1, <1>2, MappedStart DEF ImplInv
=============================================================================
