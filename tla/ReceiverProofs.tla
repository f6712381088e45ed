--------------------------- MODULE ReceiverProofs ---------------------------
(***************************************************************************)
(* The receiver delivers the frames it hears, whatever their number and    *)
(* length, the length of a sequence and of the header, and the depth of    *)
(* the buffer, if chips are so far apart that the nibble of one chip has   *)
(* left the pipeline before the next chip comes.                           *)
(***************************************************************************)
EXTENDS Receiver, SequenceTheorems, TLAPS

\* The buffer as PPFifoImplProofs sees it: filling, owed and beat are the words
\* of the burst being written, the beats to be read, and the beat on the bus.
F == INSTANCE PPFifoImplProofs WITH
  Data <- Bytes, Ready <- {TRUE}, Overtake <- {1, 2}, Pausing <- FALSE, taken <- <<>>

Length(nibbles) == Pack!FrameLength(nibbles)

\* A chip passes detector, demapper, packager and its way into the buffer in
\* seven clocks.  A frame fits the buffer below its watermark, and is read out
\* in the time of a header.
Roomy ==
  /\ SPACING >= 7
  /\ DEPTH \in Nat /\ WATERMARK \in Nat /\ WATERMARK + 1 < DEPTH
  /\ Frames \subseteq Seq(Pack!Decoded)
  /\ \A f \in Frames : Len(f) >= 2 => Length(f) + WATERMARK < DEPTH /\ Length(f) <= HEADER

-----------------------------------------------------------------------------
(* Where the last chip is on its way, and what it has brought.             *)

Full   == Pack!Ends(heard)
Fresh  == run = 0 /\ heard # <<>>           \* the last chip completed a sequence
Coming == Fresh /\ Full /\ since <= 6       \* the end of a frame is on its way
At(n)  == Fresh /\ since = n

\* The nibbles that have reached the packager.
got == IF Fresh /\ since <= 4 THEN Len(heard) - 1 ELSE Len(heard)

\* The bytes that have reached the buffer, of the frame that has not ended there.
stored ==
  IF Len(heard) < 4 \/ (Full /\ ~Coming) THEN 0
  ELSE IF Fresh /\ since <= 6 THEN (Len(heard) - 3) \div 2 ELSE (Len(heard) - 2) \div 2

ByteAt(i) == [lo |-> heard[2 * i + 1].value, hi |-> heard[2 * i + 2].value]

\* The frame that is heard.
HeardInv ==
  /\ heard \in Seq(Words) /\ locked \in BOOLEAN /\ since \in 0..SPACING /\ run \in Nat
  /\ (IF locked THEN run < CHIPS ELSE run <= HEADER)
  /\ Len(heard) >= 2 =>
       /\ Length(heard) + WATERMARK < DEPTH /\ Length(heard) <= HEADER
       /\ Len(heard) <= 2 + 2 * Length(heard)
  /\ locked => ~Full
  /\ ~locked => heard = <<>> \/ (Fresh /\ Full)
  /\ since = 0 => heard = <<>> /\ ~locked

\* Valid bits say where the chip is; the detector follows two clocks behind.
DetectorInv ==
  /\ Det!TypeOK
  /\ tvalid_d => since = 1
  /\ tvalid_dd => since = 2
  /\ At(1) => tvalid_d
  /\ At(2) => tvalid_dd
  /\ chip_counter = IF synch_header_found THEN run ELSE 0
  /\ locked /\ ~synch_header_found =>
       /\ heard = <<>> /\ run = 0 /\ shreg.hit
       /\ (since = 1 /\ ~corr_hit) \/ (since = 2 /\ corr_hit)
  /\ locked /\ synch_header_found /\ heard = <<>> /\ run = 0 => since >= 3
  /\ ~locked /\ synch_header_found => Coming /\ ~shreg.hit /\ (since >= 2 => ~corr_hit)
  /\ ~locked /\ ~synch_header_found => ~Coming /\ ~shreg.hit /\ ~corr_hit

\* The nibble in flight.
DemapperInv ==
  /\ hamming \in Words /\ score \in Words
  /\ nibble_valid_d \in BOOLEAN /\ nibble_valid \in BOOLEAN
  /\ nibble_valid_d <=> At(3)
  /\ nibble_valid <=> At(4)
  /\ Fresh => shreg.word = heard[Len(heard)]
  /\ At(2) => chipseq = heard[Len(heard)]
  /\ At(3) => hamming = heard[Len(heard)]
  /\ At(4) => score = heard[Len(heard)]

PackagerTypes ==
  /\ phr_state \in Pack!State /\ byte_counter \in 0..127 /\ crappy_phr \in BOOLEAN
  /\ int_nibble \in 0..15 /\ lo \in 0..15 /\ hi \in 0..15
  /\ byte_valid \in BOOLEAN /\ byte_last \in BOOLEAN /\ frame_done \in BOOLEAN

\* The packager waits for a frame: it has got no nibble of the next one.
Idling == got = 0 \/ (Full /\ ~(Fresh /\ since <= 5))

\* What the packager knows of the nibbles it has got.
PackagerInv ==
  /\ Idling => phr_state = "IDLE"
  /\ ~Idling /\ got = 1 =>
       /\ phr_state = "PHR_PART"
       /\ byte_counter % 16 = heard[1].value /\ crappy_phr = heard[1].crappy
  /\ ~Idling /\ got = 2 => phr_state = "PHR_DONE" /\ byte_counter = Length(heard)
  /\ ~Idling /\ got >= 3 /\ got % 2 = 1 =>
       phr_state = "PL_PART" /\ 2 * byte_counter + got = 2 * Length(heard) + 3
  /\ ~Idling /\ got >= 3 /\ got % 2 = 0 =>
       /\ phr_state = (IF At(5) THEN "PL_DONE" ELSE "PL_IDLE")
       /\ 2 * byte_counter + got = 2 * Length(heard) + 2
  /\ got >= 1 => int_nibble = heard[got].value
  /\ At(5) /\ got >= 3 /\ got % 2 = 0 => lo = heard[got - 1].value

\* The byte on its way, and the signal that the frame has ended.
OutputsInv ==
  /\ byte_valid <=> At(6) /\ Len(heard) >= 4 /\ Len(heard) % 2 = 0
  /\ byte_valid => /\ lo = heard[Len(heard) - 1].value /\ hi = heard[Len(heard)].value
                   /\ byte_last <=> Full
  /\ frame_done => since = 0 \/ (At(6) /\ Full)
  /\ At(6) /\ Full => frame_done

\* The buffer never has to wait; what it holds, and what it has still to output.
BufferInv ==
  /\ F!ImplInv /\ ~F!Waiting /\ ~almost_full /\ (since # 0 => s_tready)
  /\ ~F!dirty
  /\ Len(F!filling) = stored
  /\ \A i \in 1..Len(F!filling) : F!filling[i] = ByteAt(i)
  /\ locked \/ Coming => F!owed = <<>>
  /\ ~locked => Len(F!owed) + run <= HEADER

\* A frame that has ended for the ideal receiver, but not yet for the buffer.
Pending == IF Coming THEN BytesOf(heard) ELSE <<>>

OwedInv == owed = F!beat \o F!owed \o Pending

IInv == /\ HeardInv /\ DetectorInv /\ DemapperInv /\ PackagerTypes /\ PackagerInv
        /\ OutputsInv /\ BufferInv /\ OwedInv

-----------------------------------------------------------------------------
(* Sizes, nibbles and lengths.                                             *)

LEMMA Sizes ==
  ASSUME Roomy
  PROVE  /\ CHIPS \in Nat /\ CHIPS >= 1 /\ HEADER \in Nat /\ HEADER >= 1
         /\ SPACING \in Nat /\ SPACING >= 7
         /\ DEPTH \in Nat /\ WATERMARK \in Nat /\ WATERMARK + 1 < DEPTH
BY SizesAssumption DEF Roomy

LEMMA SizesOfBuffer == ASSUME Roomy PROVE F!DepthAssumption /\ F!EnvAssumption
<1>1. F!DepthAssumption
  <2>1. [lo |-> 0, hi |-> 0] \in Bytes
    BY DEF Bytes
  <2>2. Bytes # {}
    BY <2>1
  <2>3. DEPTH \in Nat \ {0} /\ WATERMARK \in 0..(DEPTH - 1)
    BY DEF Roomy
  <2> QED BY <2>2, <2>3 DEF F!DepthAssumption
<1>2. F!EnvAssumption
  BY DEF F!EnvAssumption, F!Fifo
<1> QED BY <1>1, <1>2

LEMMA NibblesDecoded == ASSUME Roomy PROVE Words \subseteq Pack!Decoded
<1>1. Noise \in Pack!Decoded
  BY DEF Noise, Pack!Decoded, Pack!Nibble
<1>2. ASSUME NEW f \in Frames, NEW i \in DOMAIN f PROVE f[i] \in Pack!Decoded
  <2>1. f \in Seq(Pack!Decoded)
    BY DEF Roomy
  <2> QED BY <2>1, ElementOfSeq, LenProperties
<1> QED BY <1>1, <1>2 DEF Words

LEMMA NibbleParts ==
  ASSUME Roomy, NEW w \in Words
  PROVE  w.value \in 0..15 /\ w.crappy \in BOOLEAN
<1>1. w \in Pack!Decoded
  BY NibblesDecoded
<1> QED BY <1>1 DEF Pack!Decoded, Pack!Nibble

LEMMA Lengths ==
  ASSUME Roomy, NEW s \in Seq(Words), Len(s) >= 2
  PROVE  Length(s) \in 0..127
<1>1. s[1] \in Words /\ s[2] \in Words
  BY ElementOfSeq
<1>2. s[1].value \in 0..15 /\ s[2].value \in 0..15
  BY <1>1, NibbleParts
<1>3. s[2].value % 8 \in 0..7
  BY <1>2
<1> DEFINE u == s[1].value
           v == s[2].value % 8
<1>4. u \in 0..15 /\ v \in 0..7 /\ Length(s) = IF s[1].crappy \/ s[2].crappy THEN 0 ELSE 16 * v + u
  BY <1>2, <1>3, Zenon DEF Length, Pack!FrameLength
<1> HIDE DEF u, v
<1>5. 16 * v + u \in 0..127
  BY <1>4
<1> QED BY <1>4, <1>5

LEMMA LengthOfAppend ==
  ASSUME NEW s \in Seq(Words), NEW w \in Words, Len(s) >= 2
  PROVE  Length(Append(s, w)) = Length(s)
<1>1. Append(s, w)[1] = s[1] /\ Append(s, w)[2] = s[2]
  BY AppendProperties
<1> QED BY <1>1, Zenon DEF Length, Pack!FrameLength

LEMMA EndsMeans ==
  ASSUME NEW s
  PROVE  Pack!Ends(s) <=> Len(s) >= 2 /\ Len(s) = 2 + 2 * Length(s)
BY Zenon DEF Pack!Ends, Length

-----------------------------------------------------------------------------
(* What a chip means to the ideal receiver.                                *)

Hunts(c) ==
  /\ ~locked /\ locked' = c.hit /\ heard' = <<>>
  /\ run' = IF c.hit THEN 0 ELSE IF run < HEADER THEN run + 1 ELSE run
  /\ c.hit => run >= HEADER - 1

Follows(c) == locked /\ run + 1 < CHIPS /\ run' = run + 1 /\ locked' /\ heard' = heard

Completes(c) ==
  /\ locked /\ run + 1 = CHIPS /\ run' = 0 /\ heard' = Append(heard, c.word)
  /\ locked' <=> ~Full'
  /\ Full' => ~c.hit
  /\ c.word \in Expected

LEMMA ExpectedWords ==
  ASSUME Roomy, HeardInv, NEW w \in Expected
  PROVE  /\ w \in Words
         /\ \E f \in Frames : /\ Len(heard) + 1 <= Len(f) /\ w = f[Len(heard) + 1]
                              /\ SubSeq(f, 1, Len(heard)) = heard
<1>1. heard \in Seq(Words) /\ Len(heard) \in Nat
  BY LenProperties DEF HeardInv
<1>2. PICK f \in Frames : /\ Len(heard) + 1 <= Len(f) /\ w = f[Len(heard) + 1]
                          /\ SubSeq(f, 1, (Len(heard) + 1) - 1) = heard
  BY DEF Expected
<1>3. (Len(heard) + 1) - 1 = Len(heard)
  BY <1>1
<1>4. f \in Seq(Pack!Decoded)
  BY DEF Roomy
<1>5. Len(heard) + 1 \in DOMAIN f
  BY <1>1, <1>2, <1>4, LenProperties
<1>6. w \in Words
  BY <1>2, <1>5 DEF Words
<1> QED BY <1>2, <1>3, <1>6

LEMMA ChipCases ==
  ASSUME Roomy, HeardInv, NEW c \in Chips, Hear(c)
  PROVE  /\ c \in Det!Contents /\ c.hit \in BOOLEAN /\ c.word \in Words /\ since' = 1
         /\ EndsFrame(c) <=> Completes(c) /\ Full'
         /\ Hunts(c) \/ Follows(c) \/ Completes(c)
<1> DEFINE W == IF locked /\ run + 1 = CHIPS THEN Expected ELSE {Noise}
<1>1. c \in [hit : BOOLEAN, word : W] /\ c.hit \in BOOLEAN /\ c.word \in W /\ (c.hit => MayHit(c))
  <2>1. c \in [hit : BOOLEAN, word : W] /\ (c.hit => MayHit(c))
    BY Zenon DEF Chips
  <2> HIDE DEF W
  <2> QED BY <2>1
<1>2. c.word \in Words
  <2>1. Noise \in Words
    BY DEF Words
  <2> QED BY <1>1, <2>1, ExpectedWords, Zenon
<1>3. since' = 1
  BY DEF Hear
<1>4. ASSUME ~locked PROVE Hunts(c)
  <2>1. ~Last(c) /\ ~EndsFrame(c)
    BY <1>4, Zenon DEF Last, EndsFrame
  <2>2. /\ locked' = c.hit /\ heard' = <<>>
        /\ run' = IF c.hit THEN 0 ELSE IF run < HEADER THEN run + 1 ELSE run
    BY <1>4, <2>1, Zenon DEF Hear
  <2> QED BY <1>1, <1>4, <2>2, Zenon DEF Hunts, MayHit
<1>5. ASSUME locked, run + 1 = CHIPS PROVE Completes(c)
  <2>1. Last(c)
    BY <1>5 DEF Last
  <2>2. run' = 0 /\ heard' = Append(heard, c.word) /\ locked' = ~EndsFrame(c)
    BY <1>5, <2>1, Zenon DEF Hear, Nibbles
  <2>3. EndsFrame(c) <=> Full'
    BY <2>1, <2>2, Zenon DEF EndsFrame, Full, Nibbles
  <2>4. c.hit => ~EndsFrame(c)
    BY <1>1, <1>5, Zenon DEF MayHit
  <2>5. c.word \in Expected
    BY <1>1, <1>5
  <2> QED BY <1>5, <2>2, <2>3, <2>4, <2>5, Zenon DEF Completes
<1>6. ASSUME locked, run + 1 # CHIPS PROVE Follows(c)
  <2>1. ~Last(c) /\ ~EndsFrame(c)
    BY <1>6, Zenon DEF Last, EndsFrame
  <2>2. run' = run + 1 /\ heard' = heard /\ locked'
    BY <1>6, <2>1, Zenon DEF Hear
  <2>3. run + 1 < CHIPS
    BY <1>6, Sizes DEF HeardInv
  <2> QED BY <1>6, <2>2, <2>3, Zenon DEF Follows
<1>7. c \in Det!Contents
  <2> HIDE DEF W
  <2>1. c = [hit |-> c.hit, word |-> c.word]
    BY <1>1
  <2> QED BY <1>1, <1>2, <2>1 DEF Det!Contents
<1>8. EndsFrame(c) <=> Completes(c) /\ Full'
  <2>1. ASSUME Completes(c) PROVE EndsFrame(c) <=> Full'
    <3>1. Last(c) /\ heard' = Nibbles(c)
      BY <2>1, Zenon DEF Completes, Last, Nibbles
    <3> QED BY <3>1, Zenon DEF EndsFrame, Full
  <2>2. ASSUME EndsFrame(c) PROVE Completes(c)
    BY <1>5, <2>2, Zenon DEF EndsFrame, Last
  <2> QED BY <2>1, <2>2
<1> QED BY <1>1, <1>2, <1>3, <1>4, <1>5, <1>6, <1>7, <1>8

LEMMA Extended ==
  ASSUME HeardInv, NEW c, c.word \in Words, Completes(c)
  PROVE  /\ heard \in Seq(Words) /\ heard' \in Seq(Words) /\ heard' # <<>>
         /\ Len(heard) \in Nat /\ Len(heard') = Len(heard) + 1
         /\ heard'[Len(heard')] = c.word
         /\ \A i \in 1..Len(heard) : heard'[i] = heard[i]
BY AppendProperties, LenProperties DEF HeardInv, Completes

LEMMA HeardChip ==
  ASSUME Roomy, HeardInv, NEW c \in Chips, Hear(c)
  PROVE  HeardInv'
<1>1. /\ c.hit \in BOOLEAN /\ c.word \in Words /\ since' = 1
      /\ Hunts(c) \/ Follows(c) \/ Completes(c)
  BY ChipCases
<1>2. /\ heard \in Seq(Words) /\ locked \in BOOLEAN /\ run \in Nat
      /\ locked => run < CHIPS /\ ~Full
      /\ ~locked => run <= HEADER
  BY DEF HeardInv
<1>3. since' \in 0..SPACING /\ since' # 0
  BY <1>1, Sizes
<1>4. CASE Hunts(c)
  <2>1. heard' = <<>> /\ heard' \in Seq(Words) /\ Len(heard') = 0
    BY <1>4 DEF Hunts
  <2>2. ~Full'
    BY <2>1 DEF Full, Pack!Ends
  <2>3. run' \in Nat /\ run' <= HEADER /\ (c.hit => run' = 0)
    BY <1>2, <1>4, Sizes DEF Hunts
  <2>4. locked' \in BOOLEAN /\ (locked' => run' < CHIPS)
    BY <1>1, <1>4, <2>3, Sizes DEF Hunts
  <2> QED BY <1>3, <2>1, <2>2, <2>3, <2>4 DEF HeardInv
<1>5. CASE Follows(c)
  <2>1. heard' = heard /\ locked' = TRUE /\ locked
    BY <1>5 DEF Follows, HeardInv
  <2>2. run' \in Nat /\ run' < CHIPS
    BY <1>2, <1>5 DEF Follows
  <2>3. ~Full'
    BY <1>2, <2>1, Zenon DEF Full
  <2>4. Len(heard') >= 2 =>
          /\ Length(heard') + WATERMARK < DEPTH /\ Length(heard') <= HEADER
          /\ Len(heard') <= 2 + 2 * Length(heard')
    BY <2>1, Zenon DEF HeardInv
  <2> QED BY <1>2, <1>3, <2>1, <2>2, <2>3, <2>4 DEF HeardInv
<1>6. CASE Completes(c)
  <2>1. heard' \in Seq(Words) /\ heard' # <<>> /\ Len(heard') = Len(heard) + 1
    BY <1>1, <1>2, <1>6, AppendProperties DEF Completes
  <2>2. run' = 0 /\ locked' \in BOOLEAN /\ (locked' <=> ~Full')
    <3>1. locked' = (IF locked THEN ~EndsFrame(c) ELSE c.hit)
      BY Zenon DEF Hear
    <3>2. locked' \in BOOLEAN
      BY <1>1, <3>1
    <3> QED BY <1>6, <3>2, Zenon DEF Completes
  <2>3. Len(heard') >= 2 =>
          /\ Length(heard') + WATERMARK < DEPTH /\ Length(heard') <= HEADER
          /\ Len(heard') <= 2 + 2 * Length(heard')
    <3>1. CASE Len(heard) >= 2
      <4>1. Length(heard') = Length(heard)
        BY <1>1, <1>2, <1>6, <3>1, LengthOfAppend DEF Completes
      <4>2. Len(heard) <= 2 + 2 * Length(heard) /\ Len(heard) # 2 + 2 * Length(heard)
        BY <1>2, <1>6, <3>1, EndsMeans DEF HeardInv, Full, Completes
      <4>3. Length(heard) \in Nat /\ Len(heard) \in Nat
        <5>1. Length(heard) \in 0..127
          BY <1>2, <3>1, Lengths, Zenon
        <5>2. Length(heard) \in Nat
          BY <5>1
        <5>3. Len(heard) \in Nat
          BY <1>2, LenProperties
        <5> QED BY <5>2, <5>3
      <4> QED BY <2>1, <3>1, <4>1, <4>2, <4>3 DEF HeardInv
    <3>2. CASE Len(heard) = 1
      <4>1. PICK f \in Frames : /\ Len(heard) + 1 <= Len(f) /\ c.word = f[Len(heard) + 1]
                                /\ SubSeq(f, 1, Len(heard)) = heard
        BY <1>6, ExpectedWords DEF Completes
      <4>2. f \in Seq(Pack!Decoded)
        BY DEF Roomy
      <4>3. Len(f) >= 2 /\ heard'[2] = f[2]
        <5>1. heard' = Append(heard, c.word)
          BY <1>6, Zenon DEF Completes
        <5>2. heard'[Len(heard) + 1] = c.word
          BY <1>1, <1>2, <5>1, AppendProperties
        <5>3. Len(heard) + 1 = 2
          BY <3>2
        <5> QED BY <4>1, <5>2, <5>3
      <4>4. heard'[1] = f[1]
        <5>1. heard'[1] = heard[1]
          BY <1>1, <1>2, <1>6, <3>2, AppendProperties DEF Completes
        <5>2. heard[1] = f[1]
          BY <3>2, <4>1, <4>2, <4>3, SubSeqProperties
        <5> QED BY <5>1, <5>2
      <4>5. Length(heard') = Length(f)
        BY <4>3, <4>4, Zenon DEF Length, Pack!FrameLength
      <4>6. Length(f) + WATERMARK < DEPTH /\ Length(f) <= HEADER
        BY <4>3 DEF Roomy
      <4>7. Length(heard') \in Nat /\ Len(heard') = 2
        <5>1. Len(heard') = 2
          BY <2>1, <3>2
        <5>2. Len(heard') >= 2
          BY <5>1
        <5>3. Length(heard') \in 0..127
          BY <2>1, <5>2, Lengths, Zenon
        <5> QED BY <5>1, <5>3
      <4> QED BY <4>5, <4>6, <4>7
    <3>3. CASE Len(heard) = 0
      BY <2>1, <3>3
    <3>4. Len(heard) \in Nat
      BY <1>2, LenProperties
    <3>5. Len(heard) >= 2 \/ Len(heard) = 1 \/ Len(heard) = 0
      BY <3>4
    <3> QED BY <3>1, <3>2, <3>3, <3>5, Zenon
  <2> QED BY <1>3, <2>1, <2>2, <2>3, Sizes DEF HeardInv, Fresh
<1> QED BY <1>1, <1>4, <1>5, <1>6

-----------------------------------------------------------------------------
(* Time: what a clock does to the distance from the last chip.             *)

LEMMA QuietTime ==
  ASSUME Roomy, HeardInv, Quiet
  PROVE  /\ heard' = heard /\ locked' = locked /\ run' = run
         /\ since' = IF since < SPACING THEN since + 1 ELSE since
         /\ since' \in Nat /\ since' >= 1
         /\ Fresh' <=> Fresh
         /\ Full' <=> Full
         /\ Fresh => since >= 1
         /\ Coming' <=> Coming /\ ~At(6)
         /\ ~At(1)'
         /\ At(2)' <=> At(1)
         /\ At(3)' <=> At(2)
         /\ At(4)' <=> At(3)
         /\ At(5)' <=> At(4)
         /\ At(6)' <=> At(5)
         /\ HeardInv'
<1>1. /\ heard' = heard /\ locked' = locked /\ run' = run
      /\ since' = IF since < SPACING THEN since + 1 ELSE since
  BY DEF Quiet
<1>2. since \in 0..SPACING
  BY DEF HeardInv
<1>3. since' \in 1..SPACING
  BY <1>1, <1>2, Sizes
<1>4. (Fresh' <=> Fresh) /\ (Full' <=> Full)
  BY <1>1, Zenon DEF Fresh, Full
<1>5. Fresh => since >= 1
  BY <1>2 DEF Fresh, HeardInv
<1>6. since # 0 => \A n \in 1..5 : since' = n + 1 <=> since = n
  BY <1>1, <1>2, Sizes
<1>7. since # 0 => (since' <= 6 <=> since <= 5)
  BY <1>1, <1>2, Sizes
<1>8. Coming' <=> Coming /\ ~At(6)
  <2>1. Fresh => (since' <= 6 <=> since <= 6 /\ since # 6)
    BY <1>2, <1>5, <1>7
  <2> QED BY <1>4, <2>1, Zenon DEF Coming, At
<1>9. \A n \in 1..5 : Fresh => (since' = n + 1 <=> since = n)
  BY <1>2, <1>5, <1>6
<1>10. Fresh => since' # 1
  BY <1>1, <1>2, <1>5, Sizes
<1>11. /\ ~At(1)'
       /\ At(2)' <=> At(1)
       /\ At(3)' <=> At(2)
       /\ At(4)' <=> At(3)
       /\ At(5)' <=> At(4)
       /\ At(6)' <=> At(5)
  BY <1>4, <1>9, <1>10 DEF At
<1>12. HeardInv'
  <2>1. since' \in 0..SPACING /\ since' # 0
    BY <1>3
  <2> QED BY <1>1, <1>4, <2>1, Zenon DEF HeardInv
<1> QED BY <1>1, <1>3, <1>4, <1>5, <1>8, <1>11, <1>12

LEMMA ChipTime ==
  ASSUME Roomy, HeardInv, since = SPACING, since' = 1
  PROVE  /\ since >= 7
         /\ ~At(1) /\ ~At(2) /\ ~At(3) /\ ~At(4) /\ ~At(5) /\ ~At(6) /\ ~Coming
         /\ ~At(2)' /\ ~At(3)' /\ ~At(4)' /\ ~At(5)' /\ ~At(6)'
         /\ Coming' <=> Fresh' /\ Full'
         /\ At(1)' <=> Fresh'
BY Sizes DEF At, Coming

-----------------------------------------------------------------------------
(* The detector and the demapper.                                          *)

\* The end of a frame is signalled six clocks after its last chip.
LEMMA DoneLate ==
  ASSUME HeardInv, OutputsInv, frame_done
  PROVE  ~locked /\ (since = 0 \/ (At(6) /\ Full)) /\ since # 1
BY DEF HeardInv, OutputsInv, At

LEMMA DetectorChip ==
  ASSUME Roomy, HeardInv, DetectorInv, OutputsInv,
         since = SPACING, NEW c \in Chips, Hear(c), Det!Clock(TRUE, c, frame_done)
  PROVE  DetectorInv'
<1>1. /\ c \in Det!Contents /\ c.hit \in BOOLEAN /\ c.word \in Words /\ since' = 1
      /\ Hunts(c) \/ Follows(c) \/ Completes(c)
  BY ChipCases
<1>2. /\ since >= 7 /\ ~At(6) /\ ~Coming
      /\ ~At(2)' /\ (Coming' <=> Fresh' /\ Full') /\ (At(1)' <=> Fresh')
  BY <1>1, ChipTime
<1>3. ~frame_done /\ ~tvalid_d /\ ~tvalid_dd /\ Det!TypeOK
  BY <1>2 DEF DetectorInv, OutputsInv
<1>4. /\ shreg' = c /\ chipseq' = shreg.word /\ (corr_hit' <=> shreg.hit)
      /\ synch_header_found' <=> synch_header_found \/ corr_hit
      /\ chip_counter' = IF ~synch_header_found THEN 0 ELSE (chip_counter + 1) % CHIPS
      /\ tvalid_d' /\ ~tvalid_dd'
  BY <1>3, Zenon DEF Det!Clock, Det!P_CHIP_COUNTER, Det!P_SYNCH_HEADER_FOUND
<1>5. /\ shreg' \in Det!Contents /\ chipseq' \in Words /\ corr_hit' \in BOOLEAN
      /\ synch_header_found' \in BOOLEAN /\ tvalid_d' \in BOOLEAN /\ tvalid_dd' \in BOOLEAN
  <2>1. shreg.word \in Words
    BY <1>3 DEF Det!TypeOK, Det!Contents
  <2>2. /\ corr_hit' \in BOOLEAN /\ synch_header_found' \in BOOLEAN
        /\ tvalid_d' \in BOOLEAN /\ tvalid_dd' \in BOOLEAN
    BY DEF Det!Clock, Det!P_SYNCH_HEADER_FOUND
  <2> QED BY <1>1, <1>4, <2>1, <2>2
<1>6. CASE Hunts(c)
  <2>1. ~locked /\ locked' = c.hit /\ heard' = <<>> /\ (c.hit => run' = 0)
    BY <1>6 DEF Hunts
  <2>2. ~synch_header_found' /\ ~corr_hit' /\ chip_counter' = 0
    BY <1>2, <1>4, <2>1 DEF DetectorInv
  <2>3. chip_counter' \in 0..(CHIPS - 1)
    BY <2>2, Sizes
  <2>4. ~Fresh' /\ ~Coming'
    BY <1>2, <2>1 DEF Fresh
  <2> QED BY <1>1, <1>2, <1>4, <1>5, <2>1, <2>2, <2>3, <2>4 DEF DetectorInv, Det!TypeOK
<1>7. CASE Follows(c) \/ Completes(c)
  <2>1. locked /\ synch_header_found /\ chip_counter = run /\ run \in Nat /\ run < CHIPS
    BY <1>2, <1>7 DEF DetectorInv, HeardInv, Follows, Completes
  <2>2. synch_header_found' /\ chip_counter' = (run + 1) % CHIPS
    BY <1>4, <2>1
  <2>3. chip_counter' = run' /\ run' \in 0..(CHIPS - 1)
    <3>1. CASE Follows(c)
      BY <2>1, <2>2, <3>1, Sizes DEF Follows
    <3>2. CASE Completes(c)
      <4>1. CHIPS % CHIPS = 0
        BY Sizes
      <4> QED BY <2>2, <3>2, <4>1, Sizes DEF Completes
    <3> QED BY <1>7, <3>1, <3>2
  <2>4. heard' # <<>> \/ run' # 0
    <3>1. CASE Follows(c)
      BY <2>1, <3>1 DEF Follows
    <3>2. CASE Completes(c)
      BY <1>1, <3>2, Extended
    <3> QED BY <1>7, <3>1, <3>2
  <2>5. ~locked' => Coming' /\ ~shreg'.hit
    <3>1. ASSUME ~locked' PROVE Coming' /\ ~c.hit
      <4>1. Completes(c)
        BY <1>7, <3>1 DEF Follows
      <4>2. Full' /\ ~c.hit /\ run' = 0
        BY <3>1, <4>1 DEF Completes
      <4>3. heard' # <<>>
        BY <2>4, <4>2
      <4> QED BY <1>2, <4>2, <4>3 DEF Fresh
    <3> QED BY <1>4, <3>1
  <2> QED BY <1>1, <1>2, <1>4, <1>5, <2>2, <2>3, <2>4, <2>5 DEF DetectorInv, Det!TypeOK
<1> QED BY <1>1, <1>6, <1>7

LEMMA DetectorQuiet ==
  ASSUME Roomy, HeardInv, DetectorInv, OutputsInv, Quiet, Det!Clock(FALSE, Det!Empty, frame_done)
  PROVE  DetectorInv'
<1>1. /\ heard' = heard /\ locked' = locked /\ run' = run
      /\ since' = IF since < SPACING THEN since + 1 ELSE since
      /\ since' \in Nat /\ since' >= 1
      /\ Fresh => since >= 1
      /\ Coming' <=> Coming /\ ~At(6)
      /\ ~At(1)' /\ (At(2)' <=> At(1))
  BY QuietTime
<1>2. Det!TypeOK /\ since \in 0..SPACING /\ SPACING >= 7
  BY Sizes DEF DetectorInv, HeardInv
<1>3. /\ shreg' = shreg /\ chipseq' = shreg.word
      /\ corr_hit' <=> ~frame_done /\ shreg.hit
      /\ synch_header_found' <=> ~frame_done /\ (synch_header_found \/ corr_hit)
      /\ chip_counter' = IF frame_done \/ ~synch_header_found THEN 0 ELSE chip_counter
      /\ ~tvalid_d'
      /\ tvalid_dd' <=> ~frame_done /\ tvalid_d
  BY Zenon DEF Det!Clock, Det!P_CHIP_COUNTER, Det!P_SYNCH_HEADER_FOUND
<1>4. /\ shreg' \in Det!Contents /\ chipseq' \in Words /\ corr_hit' \in BOOLEAN
      /\ synch_header_found' \in BOOLEAN /\ tvalid_d' \in BOOLEAN /\ tvalid_dd' \in BOOLEAN
  <2>1. shreg.word \in Words
    BY <1>2 DEF Det!TypeOK, Det!Contents
  <2>2. /\ corr_hit' \in BOOLEAN /\ synch_header_found' \in BOOLEAN
        /\ tvalid_d' \in BOOLEAN /\ tvalid_dd' \in BOOLEAN
    BY DEF Det!Clock, Det!P_SYNCH_HEADER_FOUND
  <2> QED BY <1>2, <1>3, <2>1, <2>2 DEF Det!TypeOK
<1>5. frame_done => ~locked /\ (since = 0 \/ (At(6) /\ Full)) /\ since # 1
  BY DoneLate
<1> DEFINE one == since = 1
           two == since = 2
<1>6. (one => since' = 2) /\ (two => since' = 3)
  <2>1. since' = IF since < SPACING THEN since + 1 ELSE since
    BY <1>1
  <2> QED BY <1>2, <2>1, Sizes
<1>7. tvalid_dd' => since' = 2
  <2>1. tvalid_d => one
    BY Zenon DEF DetectorInv
  <2> QED BY <1>3, <1>6, <2>1, Zenon
<1>8. At(2)' => tvalid_dd'
  BY <1>1, <1>3, <1>5 DEF DetectorInv, At
<1>9. chip_counter' = IF synch_header_found' THEN run' ELSE 0
  <2>1. CASE frame_done
    BY <1>3, <2>1
  <2>2. CASE ~frame_done /\ synch_header_found
    BY <1>1, <1>3, <2>2 DEF DetectorInv
  <2>3. CASE ~frame_done /\ ~synch_header_found
    <3>1. corr_hit => run = 0
      BY <2>3 DEF DetectorInv
    <3> QED BY <1>1, <1>3, <2>3, <3>1
  <2> QED BY <2>1, <2>2, <2>3
<1>10. chip_counter' \in 0..(CHIPS - 1)
  <2>1. chip_counter \in 0..(CHIPS - 1) /\ 0 \in 0..(CHIPS - 1)
    BY <1>2, Sizes DEF Det!TypeOK
  <2> QED BY <1>3, <2>1
<1>11. locked' /\ ~synch_header_found' =>
         /\ heard' = <<>> /\ run' = 0 /\ shreg'.hit
         /\ since' = 2 /\ corr_hit'
  <2>1. ASSUME locked, ~synch_header_found
        PROVE  heard = <<>> /\ run = 0 /\ shreg.hit /\ ((one /\ ~corr_hit) \/ (two /\ corr_hit))
    BY <2>1, Zenon DEF DetectorInv
  <2>2. locked => ~frame_done
    BY <1>5, Zenon
  <2> HIDE DEF one, two
  <2> QED BY <1>1, <1>3, <1>6, <2>1, <2>2, Zenon
<1>12. locked' /\ synch_header_found' /\ heard' = <<>> /\ run' = 0 => since' >= 3
  <2>1. ASSUME locked, synch_header_found \/ corr_hit, heard = <<>>, run = 0
        PROVE  since >= 3 \/ two
    BY <2>1, Zenon DEF DetectorInv
  <2>2. since >= 3 => since' >= 3
    BY <1>1, <1>2
  <2>3. two => since' >= 3
    BY <1>6
  <2> QED BY <1>1, <1>3, <2>1, <2>2, <2>3, Zenon
<1>13. ~locked' /\ synch_header_found' => Coming' /\ ~shreg'.hit /\ ~corr_hit'
  <2>1. ASSUME ~locked, ~frame_done, synch_header_found \/ corr_hit
        PROVE  Coming /\ ~shreg.hit /\ ~At(6)
    <3>1. Coming /\ ~shreg.hit
      BY <2>1 DEF DetectorInv
    <3>2. ~At(6)
      BY <2>1, <3>1 DEF OutputsInv, Coming
    <3> QED BY <3>1, <3>2
  <2> QED BY <1>1, <1>3, <2>1
<1>14. ~locked' /\ ~synch_header_found' => ~Coming' /\ ~shreg'.hit /\ ~corr_hit'
  <2>1. ~locked => ~shreg.hit
    BY DEF DetectorInv
  <2>2. ASSUME ~locked, ~synch_header_found', Coming PROVE At(6)
    <3>1. synch_header_found
      BY <2>2 DEF DetectorInv
    <3>2. frame_done
      BY <1>3, <2>2, <3>1
    <3>3. since # 0
      BY <1>1, <2>2 DEF Coming
    <3> QED BY <1>5, <3>2, <3>3
  <2> QED BY <1>1, <1>3, <2>1, <2>2
<1> QED
  BY <1>1, <1>3, <1>4, <1>7, <1>8, <1>9, <1>10, <1>11, <1>12, <1>13, <1>14
  DEF DetectorInv, Det!TypeOK

LEMMA DemapperChip ==
  ASSUME Roomy, HeardInv, DetectorInv, DemapperInv, OutputsInv,
         since = SPACING, NEW c \in Chips, Hear(c), Det!Clock(TRUE, c, frame_done), Demapper
  PROVE  DemapperInv'
<1>1. /\ c.word \in Words /\ since' = 1
      /\ Hunts(c) \/ Follows(c) \/ Completes(c)
  BY ChipCases
<1>2. /\ since >= 7 /\ ~At(3)
      /\ ~At(2)' /\ ~At(3)' /\ ~At(4)' /\ (At(1)' <=> Fresh')
  BY <1>1, ChipTime
<1>3. ~tvalid_dd /\ chipseq \in Words
  BY <1>2 DEF DetectorInv, Det!TypeOK
<1>4. hamming' \in Words /\ score' \in Words
  BY <1>3 DEF Demapper, DemapperInv
<1>5. nibble_valid_d' = FALSE
  BY <1>3 DEF Demapper, Det!m_chipseq_tvalid
<1>6. nibble_valid' = FALSE
  BY <1>2 DEF Demapper, DemapperInv
<1>7. Fresh' => shreg'.word = heard'[Len(heard')]
  <2>1. shreg' = c
    BY DEF Det!Clock
  <2>2. ASSUME Fresh' PROVE Completes(c)
    BY <1>1, <2>2 DEF Fresh, Hunts, Follows, HeardInv
  <2>3. ASSUME Completes(c) PROVE heard'[Len(heard')] = c.word
    BY <1>1, <2>3, Extended
  <2> QED BY <2>1, <2>2, <2>3
<1> QED BY <1>2, <1>4, <1>5, <1>6, <1>7 DEF DemapperInv

LEMMA DemapperQuiet ==
  ASSUME Roomy, HeardInv, DetectorInv, DemapperInv, OutputsInv, Quiet,
         Det!Clock(FALSE, Det!Empty, frame_done), Demapper
  PROVE  DemapperInv'
<1>1. /\ heard' = heard /\ (Fresh' <=> Fresh) /\ (At(2)' <=> At(1))
      /\ At(3)' <=> At(2)
      /\ At(4)' <=> At(3)
  BY QuietTime
<1>2. chipseq \in Words /\ hamming \in Words
  BY DEF DetectorInv, Det!TypeOK, DemapperInv
<1>3. Det!m_chipseq_tvalid <=> At(2)
  <2>1. ASSUME At(2) PROVE tvalid_dd /\ synch_header_found /\ chip_counter = 0
    <3>1. tvalid_dd /\ run = 0 /\ heard # <<>> /\ since = 2
      BY <2>1 DEF DetectorInv, At, Fresh
    <3>2. CASE locked
      BY <3>1, <3>2 DEF DetectorInv
    <3>3. CASE ~locked
      <4>1. Coming
        BY <2>1, <3>1, <3>3 DEF HeardInv, Coming, At
      <4> QED BY <3>1, <3>3, <4>1 DEF DetectorInv
    <3> QED BY <3>2, <3>3
  <2>2. ASSUME tvalid_dd, synch_header_found, chip_counter = 0 PROVE At(2)
    <3>1. since = 2 /\ run = 0
      BY <2>2 DEF DetectorInv
    <3>2. heard # <<>>
      <4>1. CASE locked
        BY <2>2, <3>1, <4>1 DEF DetectorInv
      <4>2. CASE ~locked
        BY <2>2, <4>2 DEF DetectorInv, Coming, Fresh
      <4> QED BY <4>1, <4>2
    <3> QED BY <3>1, <3>2 DEF At, Fresh
  <2> QED BY <2>1, <2>2 DEF Det!m_chipseq_tvalid
<1>4. /\ nibble_valid_d' \in BOOLEAN /\ (nibble_valid_d' <=> At(3)')
      /\ nibble_valid' \in BOOLEAN /\ (nibble_valid' <=> At(4)')
  <2>1. nibble_valid_d' \in BOOLEAN /\ nibble_valid' \in BOOLEAN
    BY DEF Demapper, Det!m_chipseq_tvalid, DemapperInv
  <2>2. (nibble_valid_d' <=> At(3)') /\ (nibble_valid' <=> At(4)')
    <3>1. (nibble_valid_d' <=> Det!m_chipseq_tvalid) /\ (nibble_valid' <=> nibble_valid_d)
      BY Zenon DEF Demapper
    <3> QED BY <1>1, <1>3, <3>1, Zenon DEF DemapperInv
  <2> QED BY <2>1, <2>2
<1>5. hamming' = chipseq /\ score' = hamming /\ shreg' = shreg /\ chipseq' = shreg.word
  BY DEF Demapper, Det!Clock
<1>6. At(1) => Fresh
  BY DEF At
<1> QED BY <1>1, <1>2, <1>4, <1>5, <1>6 DEF DemapperInv

-----------------------------------------------------------------------------
(* The packager.                                                           *)

LEMMA PackagerHolds ==
  ASSUME NEW rdy \in BOOLEAN, Pack!Clock(<<>>, rdy)
  PROVE  /\ int_nibble' = int_nibble /\ byte_counter' = byte_counter /\ crappy_phr' = crappy_phr
         /\ phr_state = "PHR_DONE" =>
              phr_state' = IF byte_counter = 0 THEN "IDLE" ELSE "PHR_DONE"
         /\ phr_state = "PL_DONE" /\ rdy =>
              phr_state' = IF byte_counter = 0 THEN "IDLE" ELSE "PL_IDLE"
         /\ phr_state = "PL_DONE" /\ ~rdy => phr_state' = "PL_DONE"
         /\ phr_state \notin {"PHR_DONE", "PL_DONE"} => phr_state' = phr_state
BY DEF Pack!Clock, Pack!Idle, Pack!PhrPart, Pack!PhrDone, Pack!PlIdle, Pack!PlPart, Pack!PlDone,
       Pack!Some

LEMMA PackagerMoves ==
  ASSUME PackagerTypes, NEW w \in Pack!Decoded, NEW rdy \in BOOLEAN, Pack!Clock(<<w>>, rdy)
  PROVE  /\ int_nibble' = w.value
         /\ phr_state = "IDLE" => /\ phr_state' = "PHR_PART" /\ crappy_phr' = w.crappy
                                  /\ byte_counter' = 16 * (byte_counter \div 16) + w.value
         /\ phr_state = "PHR_PART" => /\ phr_state' = "PHR_DONE" /\ crappy_phr' = crappy_phr
                                      /\ byte_counter' = Pack!PhrLength(w)
         /\ phr_state = "PHR_DONE" =>
              /\ phr_state' = (IF byte_counter = 0 THEN "PHR_PART" ELSE "PL_PART")
              /\ byte_counter' = byte_counter /\ crappy_phr' = crappy_phr
         /\ phr_state = "PL_IDLE" => /\ phr_state' = "PL_PART"
                                     /\ byte_counter' = byte_counter /\ crappy_phr' = crappy_phr
         /\ phr_state = "PL_PART" => /\ phr_state' = "PL_DONE" /\ crappy_phr' = crappy_phr
                                     /\ byte_counter' = (byte_counter + 127) % 128
         /\ phr_state = "PL_DONE" =>
              /\ phr_state' \in Pack!State
              /\ byte_counter' = byte_counter /\ crappy_phr' = crappy_phr
<1>1. Pack!Some(<<w>>) /\ <<w>>[1] = w
  BY DEF Pack!Some
<1>2. Pack!Idle(<<w>>) \/ Pack!PhrPart(<<w>>) \/ Pack!PhrDone(<<w>>)
        \/ Pack!PlIdle(<<w>>) \/ Pack!PlPart(<<w>>) \/ Pack!PlDone(<<w>>, rdy)
  BY DEF Pack!Clock
<1>3. int_nibble' = w.value
  BY <1>1 DEF Pack!Clock
<1> QED
  BY <1>1, <1>2, <1>3
  DEF Pack!Idle, Pack!PhrPart, Pack!PhrDone, Pack!PlIdle, Pack!PlPart, Pack!PlDone, Pack!State

LEMMA PhrLengths ==
  ASSUME PackagerTypes, NEW w \in Pack!Decoded
  PROVE  /\ Pack!PhrLength(w) \in 0..127
         /\ 16 * (byte_counter \div 16) + w.value \in 0..127
         /\ (16 * (byte_counter \div 16) + w.value) % 16 = w.value
         /\ (byte_counter + 127) % 128 \in 0..127
         /\ byte_counter >= 1 => (byte_counter + 127) % 128 = byte_counter - 1
<1>1. byte_counter \in 0..127 /\ w.value \in 0..15 /\ w.value % 8 \in 0..7
      /\ byte_counter % 16 \in 0..15 /\ byte_counter \div 16 \in 0..7
  BY DEF PackagerTypes, Pack!Decoded, Pack!Nibble
<1> DEFINE v == w.value
           u == v % 8
           b == byte_counter % 16
           d == byte_counter \div 16
<1>2. v \in 0..15 /\ u \in 0..7 /\ b \in 0..15 /\ d \in 0..7
  BY <1>1
<1>3. Pack!PhrLength(w) = IF crappy_phr \/ w.crappy THEN 0 ELSE 16 * u + b
  BY Zenon DEF Pack!PhrLength
<1> HIDE DEF u, v, b, d
<1>4. 16 * u + b \in 0..127 /\ 16 * d + v \in 0..127 /\ (16 * d + v) % 16 = v
  BY <1>2
<1>5. Pack!PhrLength(w) \in 0..127
  BY <1>3, <1>4
<1>6. (byte_counter + 127) % 128 \in 0..127
  BY <1>1
<1>7. byte_counter >= 1 => (byte_counter + 127) % 128 = byte_counter - 1
  BY <1>1
<1> QED BY <1>4, <1>5, <1>6, <1>7 DEF v, d

LEMMA PackagerTypesStep ==
  ASSUME Roomy, PackagerTypes, DemapperInv, NEW rdy \in BOOLEAN, Pack!Clock(Decoded, rdy)
  PROVE  PackagerTypes'
<1>1. /\ byte_valid' \in BOOLEAN /\ byte_last' \in BOOLEAN /\ frame_done' \in BOOLEAN
      /\ lo' \in 0..15 /\ hi' \in 0..15
  BY DEF Pack!Clock, Pack!Decode, Pack!LastByte, Pack!FrameDone, PackagerTypes
<1>2. /\ phr_state' \in Pack!State /\ byte_counter' \in 0..127 /\ crappy_phr' \in BOOLEAN
      /\ int_nibble' \in 0..15
  <2>1. CASE nibble_valid
    <3>1. Decoded = <<score>> /\ score \in Pack!Decoded
      BY <2>1, NibblesDecoded DEF Decoded, DemapperInv
    <3>2. score.value \in 0..15 /\ score.crappy \in BOOLEAN
      BY <3>1 DEF Pack!Decoded, Pack!Nibble
    <3> QED
      BY <3>1, <3>2, PackagerMoves, PhrLengths DEF PackagerTypes, Pack!State
  <2>2. CASE ~nibble_valid
    <3>1. Decoded = <<>>
      BY <2>2 DEF Decoded
    <3> QED BY <3>1, PackagerHolds DEF PackagerTypes, Pack!State
  <2> QED BY <2>1, <2>2
<1> QED BY <1>1, <1>2 DEF PackagerTypes

\* The numbers the invariant talks about.
LEMMA Numbers ==
  ASSUME Roomy, HeardInv
  PROVE  /\ heard \in Seq(Words) /\ Len(heard) \in Nat /\ got \in Nat
         /\ Len(heard) >= 2 =>
              /\ Length(heard) \in Nat /\ Len(heard) <= 2 + 2 * Length(heard)
              /\ Length(heard) + WATERMARK < DEPTH /\ Length(heard) <= HEADER
         /\ Full <=> Len(heard) >= 2 /\ Len(heard) = 2 + 2 * Length(heard)
         /\ Fresh => Len(heard) >= 1
<1> DEFINE L == Length(heard)
           n == Len(heard)
<1>1. heard \in Seq(Words) /\ n \in Nat
  BY LenProperties DEF HeardInv
<1>2. n >= 2 => /\ L \in Nat /\ n <= 2 + 2 * L
                /\ L + WATERMARK < DEPTH /\ L <= HEADER
  <2>1. ASSUME n >= 2 PROVE L \in 0..127
    BY <1>1, <2>1, Lengths, Zenon
  <2>2. n >= 2 => n <= 2 + 2 * L /\ L + WATERMARK < DEPTH /\ L <= HEADER
    BY Zenon DEF HeardInv
  <2> HIDE DEF L, n
  <2> QED BY <2>1, <2>2
<1>3. Full <=> n >= 2 /\ n = 2 + 2 * L
  BY EndsMeans, Zenon DEF Full
<1>4. Fresh => n >= 1
  BY <1>1, EmptySeq DEF Fresh
<1>5. got \in Nat
  BY <1>1, <1>4 DEF got
<1> QED BY <1>1, <1>2, <1>3, <1>4, <1>5

\* The states of the packager, read backwards.
LEMMA PackagerKnows ==
  ASSUME Roomy, HeardInv, PackagerTypes, PackagerInv
  PROVE  /\ phr_state = "PL_DONE" <=> At(5) /\ Len(heard) >= 4 /\ Len(heard) % 2 = 0
         /\ phr_state = "PL_DONE" => got = Len(heard) /\ (byte_counter = 0 <=> Full)
         /\ phr_state = "PHR_DONE" /\ byte_counter = 0 => At(5) /\ Full
         /\ At(5) /\ Full => phr_state = "PL_DONE" \/ (phr_state = "PHR_DONE" /\ byte_counter = 0)
<1> DEFINE L == Length(heard)
           n == Len(heard)
<1>1. n \in Nat /\ since \in Nat /\ byte_counter \in Nat
  BY Numbers, Sizes DEF HeardInv, PackagerTypes
<1>2. n >= 2 => L \in Nat /\ n <= 2 + 2 * L
  BY Numbers
<1>3. Full <=> n >= 2 /\ n = 2 + 2 * L
  BY Numbers, Zenon
<1>4. got = IF Fresh /\ since <= 4 THEN n - 1 ELSE n
  BY DEF got
<1>5. Fresh => n >= 1
  BY Numbers
<1>6. got \in Nat
  BY Numbers
<1>7. At(5) <=> Fresh /\ since = 5
  BY DEF At
<1>8. /\ Idling => phr_state = "IDLE"
      /\ ~Idling /\ got = 1 => phr_state = "PHR_PART"
      /\ ~Idling /\ got = 2 => phr_state = "PHR_DONE" /\ byte_counter = L
      /\ ~Idling /\ got >= 3 /\ got % 2 = 1 => phr_state = "PL_PART"
      /\ ~Idling /\ got >= 3 /\ got % 2 = 0 =>
           /\ phr_state = (IF At(5) THEN "PL_DONE" ELSE "PL_IDLE")
           /\ 2 * byte_counter + got = 2 * L + 2
  BY Zenon DEF PackagerInv
<1> DEFINE five == At(5)
<1> HIDE DEF L, n
<1>9. /\ Idling \/ got = 1 \/ got = 2 \/ (got >= 3 /\ got % 2 = 1) \/ (got >= 3 /\ got % 2 = 0)
      /\ got = 1 \/ got = 2 => ~(got >= 3)
      /\ got % 2 = 1 => got % 2 # 0
  BY <1>6 DEF Idling
<1>10. ASSUME phr_state = "PL_DONE"
       PROVE  ~Idling /\ got >= 3 /\ got % 2 = 0 /\ five
  <2> QED BY <1>8, <1>9, <1>10
<1>11. ASSUME five
       PROVE  ~Idling /\ got = n /\ n >= 1
  BY <1>1, <1>3, <1>4, <1>5, <1>7, <1>11 DEF Idling
<1>12. ASSUME phr_state = "PHR_DONE"
       PROVE  ~Idling /\ got = 2
  <2> QED BY <1>8, <1>9, <1>12
<1>13. phr_state = "PL_DONE" <=> five /\ n >= 4 /\ n % 2 = 0
  <2>1. ASSUME phr_state = "PL_DONE" PROVE five /\ n >= 4 /\ n % 2 = 0
    <3>1. five /\ n = got /\ got >= 3 /\ got % 2 = 0
      BY <1>10, <1>11, <2>1
    <3> QED BY <1>6, <3>1
  <2>2. ASSUME five, n >= 4, n % 2 = 0 PROVE phr_state = "PL_DONE"
    <3>1. ~Idling /\ got >= 3 /\ got % 2 = 0
      BY <1>1, <1>11, <2>2
    <3> QED BY <1>8, <2>2, <3>1
  <2> QED BY <2>1, <2>2
<1>14. ASSUME phr_state = "PL_DONE" PROVE got = n /\ (byte_counter = 0 <=> Full)
  <2>1. got = n /\ ~Idling /\ got >= 3 /\ got % 2 = 0 /\ five
    BY <1>10, <1>11, <1>14
  <2>2. 2 * byte_counter + n = 2 * L + 2
    BY <1>8, <2>1
  <2> QED BY <1>1, <1>2, <1>3, <2>1, <2>2
<1>15. ASSUME phr_state = "PHR_DONE", byte_counter = 0 PROVE five /\ Full
  <2>1. ~Idling /\ got = 2 /\ L = 0
    BY <1>8, <1>12, <1>15
  <2>2. n = 2
    BY <1>1, <1>2, <1>4, <2>1
  <2>3. Full
    BY <1>3, <2>1, <2>2
  <2> QED BY <1>1, <1>4, <1>7, <2>1, <2>2, <2>3 DEF Idling
<1>16. ASSUME five, Full
       PROVE  phr_state = "PL_DONE" \/ (phr_state = "PHR_DONE" /\ byte_counter = 0)
  <2>1. ~Idling /\ got = n /\ n >= 2 /\ n = 2 + 2 * L
    BY <1>3, <1>11, <1>16
  <2>2. L \in Nat
    BY <1>2, <2>1
  <2>3. CASE n = 2
    <3>1. L = 0
      BY <2>1, <2>2, <2>3
    <3> QED BY <1>8, <2>1, <2>3, <3>1
  <2>4. CASE n # 2
    <3>1. n >= 4 /\ n % 2 = 0
      BY <2>1, <2>2, <2>4
    <3> QED BY <1>13, <1>16, <3>1
  <2> QED BY <2>3, <2>4
<1> QED BY <1>13, <1>14, <1>15, <1>16 DEF n

LEMMA PackagerChip ==
  ASSUME Roomy, HeardInv, DemapperInv, PackagerTypes, PackagerInv,
         since = SPACING, NEW c \in Chips, Hear(c), s_tready \in BOOLEAN,
         Pack!Clock(Decoded, s_tready)
  PROVE  PackagerInv'
<1>1. /\ c.word \in Words /\ since' = 1
      /\ Hunts(c) \/ Follows(c) \/ Completes(c)
  BY ChipCases
<1>2. /\ since >= 7 /\ ~At(4) /\ ~At(5) /\ ~At(5)'
  BY <1>1, ChipTime
<1>3. phr_state' = phr_state /\ byte_counter' = byte_counter /\ int_nibble' = int_nibble
      /\ crappy_phr' = crappy_phr
  <2>1. Decoded = <<>>
    BY <1>2 DEF Decoded, DemapperInv
  <2>2. /\ int_nibble' = int_nibble /\ byte_counter' = byte_counter /\ crappy_phr' = crappy_phr
        /\ phr_state = "PHR_DONE" =>
              phr_state' = IF byte_counter = 0 THEN "IDLE" ELSE "PHR_DONE"
        /\ phr_state \notin {"PHR_DONE", "PL_DONE"} => phr_state' = phr_state
    BY <2>1, PackagerHolds
  <2>3. phr_state # "PL_DONE" /\ ~(phr_state = "PHR_DONE" /\ byte_counter = 0)
    BY <1>2, PackagerKnows
  <2> QED BY <2>2, <2>3
<1>4. got = Len(heard) /\ got \in Nat
  BY <1>2, Numbers, Sizes DEF got
<1>5. CASE Hunts(c)
  <2>1. Idling
    <3>1. heard = <<>> \/ Full
      BY <1>5 DEF Hunts, HeardInv
    <3>2. CASE heard = <<>>
      BY <1>4, <3>2 DEF Idling
    <3>3. CASE Full
      BY <1>2, <3>3, Sizes DEF Idling
    <3> QED BY <3>1, <3>2, <3>3
  <2>2. heard' = <<>> /\ Len(heard') = 0 /\ ~Fresh'
    BY <1>5 DEF Hunts, Fresh
  <2>3. got' = 0 /\ Idling'
    BY <2>2 DEF got, Idling
  <2>4. phr_state' = "IDLE"
    BY <1>3, <2>1 DEF PackagerInv
  <2> QED BY <1>2, <2>3, <2>4 DEF PackagerInv
<1>6. CASE Follows(c) \/ Completes(c)
  <2>1. locked /\ ~Full /\ run \in Nat
    BY <1>6 DEF Follows, Completes, HeardInv
  <2>2. got' = got /\ (Full' => Fresh') /\ \A i \in 1..got : heard'[i] = heard[i]
    <3>1. CASE Follows(c)
      <4>1. heard' = heard /\ run' = run + 1
        BY <3>1 DEF Follows
      <4>2. ~Fresh' /\ ~Full'
        BY <2>1, <4>1 DEF Fresh, Full
      <4> QED BY <1>4, <4>1, <4>2 DEF got
    <3>2. CASE Completes(c)
      <4>1. heard' # <<>> /\ Len(heard') = Len(heard) + 1 /\ \A i \in 1..Len(heard) : heard'[i] = heard[i]
        BY <1>1, <3>2, Extended
      <4>2. Fresh'
        BY <3>2, <4>1 DEF Completes, Fresh
      <4> QED BY <1>1, <1>4, <4>1, <4>2 DEF got
    <3> QED BY <1>6, <3>1, <3>2
  <2>3. Idling <=> got = 0
    BY <2>1 DEF Idling
  <2>4. Idling' <=> got = 0
    BY <1>1, <2>2 DEF Idling
  <2>5. got >= 2 => Length(heard') = Length(heard)
    <3>1. ASSUME got >= 2 PROVE heard'[1] = heard[1] /\ heard'[2] = heard[2]
      BY <1>4, <2>2, <3>1
    <3>2. ASSUME heard'[1] = heard[1], heard'[2] = heard[2]
          PROVE  Length(heard') = Length(heard)
      BY <3>2, Zenon DEF Length, Pack!FrameLength
    <3> QED BY <3>1, <3>2
  <2>6. got >= 1 => heard'[1] = heard[1] /\ heard'[got] = heard[got]
    BY <1>4, <2>2
  <2> QED BY <1>2, <1>3, <1>4, <2>2, <2>3, <2>4, <2>5, <2>6 DEF PackagerInv
<1> QED BY <1>1, <1>5, <1>6

LEMMA OutputsChip ==
  ASSUME Roomy, HeardInv, PackagerTypes, PackagerInv, since = SPACING, since' = 1,
         s_tready \in BOOLEAN, Pack!Clock(Decoded, s_tready)
  PROVE  OutputsInv' /\ ~byte_valid'
<1>1. ~At(5) /\ ~At(6)'
  BY ChipTime
<1>2. phr_state # "PL_DONE" /\ ~(phr_state = "PHR_DONE" /\ byte_counter = 0)
  BY <1>1, PackagerKnows
<1>3. byte_valid' = FALSE /\ frame_done' = FALSE
  BY <1>2 DEF Pack!Clock, Pack!Decode, Pack!FrameDone
<1> QED BY <1>1, <1>3 DEF OutputsInv

LEMMA OutputsQuiet ==
  ASSUME Roomy, HeardInv, PackagerTypes, PackagerInv, Quiet, s_tready \in BOOLEAN,
         Pack!Clock(Decoded, s_tready)
  PROVE  OutputsInv'
<1>1. /\ heard' = heard /\ (Full' <=> Full) /\ (At(6)' <=> At(5))
  BY QuietTime
<1>2. byte_valid' = (phr_state = "PL_DONE") /\ byte_last' = (phr_state = "PL_DONE" /\ byte_counter = 0)
      /\ frame_done' = (phr_state \in {"PHR_DONE", "PL_DONE"} /\ byte_counter = 0)
  BY Zenon DEF Pack!Clock, Pack!Decode, Pack!LastByte, Pack!FrameDone
<1>3. byte_valid' <=> At(6)' /\ Len(heard') >= 4 /\ Len(heard') % 2 = 0
  BY <1>1, <1>2, PackagerKnows, Zenon
<1>4. byte_valid' => lo' = heard'[Len(heard') - 1].value /\ hi' = heard'[Len(heard')].value
  <2> DEFINE n == Len(heard)
  <2>1. ASSUME byte_valid' PROVE lo' = heard[n - 1].value /\ hi' = heard[n].value
    <3>1. phr_state = "PL_DONE" /\ At(5) /\ n >= 4 /\ n % 2 = 0 /\ got = n /\ n \in Nat
      BY <1>2, <2>1, PackagerKnows, Numbers
    <3>2. lo = heard[n - 1].value /\ int_nibble = heard[n].value
      BY <3>1 DEF PackagerInv
    <3>3. lo' = lo /\ hi' = int_nibble
      BY <3>1 DEF Pack!Clock, Pack!Decode
    <3> QED BY <3>2, <3>3
  <2> QED BY <1>1, <2>1
<1>5. byte_valid' => (byte_last' <=> Full')
  BY <1>1, <1>2, PackagerKnows
<1>6. frame_done' => At(6)' /\ Full'
  BY <1>1, <1>2, PackagerKnows
<1>7. At(6)' /\ Full' => frame_done'
  BY <1>1, <1>2, PackagerKnows
<1> QED BY <1>3, <1>4, <1>5, <1>6, <1>7, Zenon DEF OutputsInv

LEMMA PackagerQuiet ==
  ASSUME Roomy, HeardInv, DemapperInv, PackagerTypes, PackagerInv, Quiet,
         s_tready \in BOOLEAN, since # 0 => s_tready, Pack!Clock(Decoded, s_tready)
  PROVE  PackagerInv'
<1> DEFINE n == Len(heard)
           L == Length(heard)
<1>1. /\ heard' = heard /\ (Fresh' <=> Fresh) /\ (Full' <=> Full)
      /\ At(4)' <=> At(3)
      /\ At(5)' <=> At(4)
      /\ Fresh => since >= 1
      /\ since' = IF since < SPACING THEN since + 1 ELSE since
  BY QuietTime
<1>2. since \in 0..SPACING /\ SPACING \in Nat /\ SPACING >= 7
  BY Sizes DEF HeardInv
<1>3. Length(heard') = L /\ Len(heard') = n
  BY <1>1, Zenon DEF Length
<1>4. /\ n \in Nat /\ got \in Nat
      /\ n >= 2 => L \in Nat /\ n <= 2 + 2 * L
      /\ Full <=> n >= 2 /\ n = 2 + 2 * L
      /\ Fresh => n >= 1
  BY Numbers
<1>5. byte_counter \in 0..127
  BY DEF PackagerTypes
<1>6. CASE At(4)
  <2>1. Fresh /\ since = 4 /\ n >= 1
    BY <1>4, <1>6 DEF At
  <2>2. since' = 5
    <3>1. since' = IF since < SPACING THEN since + 1 ELSE since
      BY <1>1
    <3> QED BY <1>2, <2>1, <3>1
  <2>3. got = n - 1 /\ got' = n
    BY <1>1, <1>3, <2>1, <2>2 DEF got
  <2>4. ~Idling'
    BY <1>1, <1>4, <2>1, <2>2, <2>3 DEF Idling
  <2>5. Idling <=> got = 0
    BY <2>1 DEF Idling
  <2>6. Decoded = <<score>> /\ score \in Pack!Decoded /\ score = heard[n]
    BY <1>6, NibblesDecoded DEF Decoded, DemapperInv
  <2>7. int_nibble' = heard[n].value
    BY <2>6, PackagerMoves
  <2>8. At(5)' /\ ~At(5)
    BY <1>1, <1>6, <2>1 DEF At
  <2>9. CASE got = 0
    <3>1. phr_state = "IDLE"
      BY <2>5, <2>9 DEF PackagerInv
    <3>2. /\ phr_state' = "PHR_PART" /\ crappy_phr' = heard[n].crappy
          /\ byte_counter' = 16 * (byte_counter \div 16) + heard[n].value
      BY <2>6, <3>1, PackagerMoves
    <3>3. byte_counter' % 16 = heard[n].value
      BY <2>6, <3>2, PhrLengths
    <3>4. n = 1 /\ got' = 1
      BY <1>4, <2>3, <2>9
    <3> QED BY <1>1, <2>4, <2>7, <3>2, <3>3, <3>4 DEF PackagerInv
  <2>10. CASE got = 1
    <3>1. /\ phr_state = "PHR_PART" /\ ~Idling
          /\ byte_counter % 16 = heard[1].value /\ crappy_phr = heard[1].crappy
      BY <2>5, <2>10 DEF PackagerInv
    <3>2. n = 2 /\ got' = 2
      BY <1>4, <2>3, <2>10
    <3>3. phr_state' = "PHR_DONE" /\ byte_counter' = Pack!PhrLength(heard[2])
      BY <2>6, <3>1, <3>2, PackagerMoves
    <3>4. Pack!PhrLength(heard[2]) = L
      BY <3>1, Zenon DEF Pack!PhrLength, Length, Pack!FrameLength
    <3> HIDE DEF L
    <3> QED BY <1>1, <1>3, <2>4, <2>7, <3>2, <3>3, <3>4 DEF PackagerInv
  <2>11. CASE got = 2
    <3>1. phr_state = "PHR_DONE" /\ byte_counter = L
      BY <2>5, <2>11 DEF PackagerInv
    <3>2. n = 3 /\ got' = 3
      BY <1>4, <2>3, <2>11
    <3> HIDE DEF L, n
    <3>3. byte_counter # 0
      BY <1>4, <3>1, <3>2
    <3>4. phr_state' = "PL_PART" /\ byte_counter' = byte_counter
      BY <2>6, <3>1, <3>3, PackagerMoves
    <3>5. 2 * byte_counter' + got' = 2 * Length(heard') + 3
      BY <1>3, <1>5, <3>1, <3>2, <3>4
    <3> QED BY <1>1, <2>4, <2>7, <3>2, <3>4, <3>5 DEF PackagerInv
  <2>12. CASE got >= 3 /\ got % 2 = 1
    <3>1. phr_state = "PL_PART" /\ 2 * byte_counter + got = 2 * L + 3
      BY <2>5, <2>12 DEF PackagerInv
    <3> HIDE DEF L, n
    <3>2. byte_counter >= 1 /\ got' = got + 1 /\ got' >= 3 /\ got' % 2 = 0
      BY <1>4, <1>5, <2>3, <2>12, <3>1
    <3>3. phr_state' = "PL_DONE" /\ byte_counter' = byte_counter - 1
      <4>1. phr_state' = "PL_DONE" /\ byte_counter' = (byte_counter + 127) % 128
        BY <2>6, <3>1, PackagerMoves
      <4> QED BY <2>6, <3>2, <4>1, PhrLengths
    <3>4. 2 * byte_counter' + got' = 2 * Length(heard') + 2
      BY <1>3, <1>4, <1>5, <2>3, <2>12, <3>1, <3>2, <3>3
    <3>5. lo' = heard'[got' - 1].value
      <4>1. lo' = int_nibble
        BY <3>1 DEF Pack!Clock, Pack!Decode
      <4>2. int_nibble = heard[got].value
        <5>1. got >= 1
          BY <1>4, <2>12
        <5> QED BY <5>1 DEF PackagerInv
      <4>3. got' - 1 = got
        BY <1>4, <3>2
      <4> QED BY <1>1, <4>1, <4>2, <4>3
    <3>6. int_nibble' = heard'[got'].value
      BY <1>1, <2>3, <2>7
    <3> QED BY <2>4, <2>8, <3>2, <3>3, <3>4, <3>5, <3>6 DEF PackagerInv
  <2>13. CASE got >= 3 /\ got % 2 = 0
    <3>1. phr_state = "PL_IDLE" /\ 2 * byte_counter + got = 2 * L + 2
      BY <2>5, <2>8, <2>13 DEF PackagerInv
    <3> HIDE DEF L, n
    <3>2. got' = got + 1 /\ got' >= 3 /\ got' % 2 = 1
      BY <1>4, <2>3, <2>13
    <3>3. phr_state' = "PL_PART" /\ byte_counter' = byte_counter
      BY <2>6, <3>1, PackagerMoves
    <3>4. 2 * byte_counter' + got' = 2 * Length(heard') + 3
      BY <1>3, <1>4, <1>5, <2>3, <2>13, <3>1, <3>2, <3>3
    <3>5. int_nibble' = heard'[got'].value
      BY <1>1, <2>3, <2>7
    <3> QED BY <2>4, <3>2, <3>3, <3>4, <3>5 DEF PackagerInv
  <2>14. got = 0 \/ got = 1 \/ got = 2 \/ (got >= 3 /\ got % 2 = 1) \/ (got >= 3 /\ got % 2 = 0)
    BY <1>4
  <2> QED BY <2>9, <2>10, <2>11, <2>12, <2>13, <2>14
<1>7. ASSUME ~At(4)
      PROVE  /\ got' = got /\ int_nibble' = int_nibble /\ byte_counter' = byte_counter
             /\ crappy_phr' = crappy_phr /\ ~At(5)'
             /\ phr_state = "PHR_DONE" =>
                  phr_state' = IF byte_counter = 0 THEN "IDLE" ELSE "PHR_DONE"
             /\ phr_state = "PL_DONE" =>
                  phr_state' = IF byte_counter = 0 THEN "IDLE" ELSE "PL_IDLE"
             /\ phr_state \notin {"PHR_DONE", "PL_DONE"} => phr_state' = phr_state
  <2>1. Decoded = <<>>
    BY <1>7 DEF Decoded, DemapperInv
  <2>2. phr_state = "PL_DONE" => s_tready
    BY PackagerKnows DEF At
  <2>3. got' = got
    <3>1. Fresh => (since' <= 4 <=> since <= 4)
      <4>1. Fresh => since >= 1 /\ since # 4
        BY <1>1, <1>7 DEF At
      <4>2. since' = IF since < SPACING THEN since + 1 ELSE since
        BY <1>1
      <4> QED BY <1>2, <4>1, <4>2
    <3> QED BY <1>1, <3>1, Zenon DEF got
  <2> QED BY <1>1, <1>7, <2>1, <2>2, <2>3, PackagerHolds
<1>8. CASE At(5)
  <2>1. Fresh /\ since = 5 /\ ~At(4)
    BY <1>8 DEF At
  <2>2. got = n /\ n >= 1 /\ ~Idling
    BY <1>4, <2>1 DEF got, Idling
  <2>3. since' = 6
    <3>1. since' = IF since < SPACING THEN since + 1 ELSE since
      BY <1>1
    <3> QED BY <1>2, <2>1, <3>1
  <2>4. Idling' <=> Full
    BY <1>1, <1>7, <2>1, <2>2, <2>3 DEF Idling
  <2>5. int_nibble' = heard'[got'].value
    BY <1>1, <1>7, <2>1, <2>2 DEF PackagerInv
  <2>6. CASE got = 1
    <3> HIDE DEF L, n
    <3>1. ~Full
      BY <1>4, <2>2, <2>6
    <3>2. /\ phr_state = "PHR_PART"
          /\ byte_counter % 16 = heard[1].value /\ crappy_phr = heard[1].crappy
      BY <2>2, <2>6 DEF PackagerInv
    <3> QED BY <1>1, <1>7, <2>1, <2>4, <2>5, <2>6, <3>1, <3>2 DEF PackagerInv
  <2>7. CASE got = 2
    <3>1. phr_state = "PHR_DONE" /\ byte_counter = L
      BY <2>2, <2>7 DEF PackagerInv
    <3> HIDE DEF L, n
    <3>2. L = 0 <=> Full
      BY <1>4, <2>2, <2>7
    <3>3. got' = 2 /\ byte_counter' = L /\ phr_state' = IF Full THEN "IDLE" ELSE "PHR_DONE"
      BY <1>7, <2>1, <2>7, <3>1, <3>2
    <3> QED BY <1>3, <2>4, <2>5, <3>3 DEF PackagerInv
  <2>8. CASE got >= 3 /\ got % 2 = 1
    <3>1. phr_state = "PL_PART" /\ 2 * byte_counter + got = 2 * L + 3
      BY <2>2, <2>8 DEF PackagerInv
    <3> HIDE DEF L, n
    <3>2. ~Full
      BY <1>4, <2>2, <2>8
    <3>3. got' = got /\ phr_state' = "PL_PART" /\ 2 * byte_counter' + got' = 2 * Length(heard') + 3
      BY <1>3, <1>7, <2>1, <3>1
    <3> QED BY <2>4, <2>5, <2>8, <3>2, <3>3 DEF PackagerInv
  <2>9. CASE got >= 3 /\ got % 2 = 0
    <3>1. phr_state = "PL_DONE" /\ 2 * byte_counter + got = 2 * L + 2
      BY <1>8, <2>2, <2>9 DEF PackagerInv
    <3>2. byte_counter = 0 <=> Full
      BY <3>1, PackagerKnows
    <3> HIDE DEF L, n
    <3>3. /\ got' = got /\ phr_state' = (IF Full THEN "IDLE" ELSE "PL_IDLE") /\ ~At(5)'
          /\ 2 * byte_counter' + got' = 2 * Length(heard') + 2
      BY <1>3, <1>7, <2>1, <3>1, <3>2
    <3> QED BY <2>4, <2>5, <2>9, <3>3 DEF PackagerInv
  <2>10. got = 1 \/ got = 2 \/ (got >= 3 /\ got % 2 = 1) \/ (got >= 3 /\ got % 2 = 0)
    BY <1>4, <2>2
  <2> QED BY <2>6, <2>7, <2>8, <2>9, <2>10
<1>9. CASE ~At(4) /\ ~At(5)
  <2>1. phr_state' = phr_state
    <3>1. phr_state # "PL_DONE" /\ ~(phr_state = "PHR_DONE" /\ byte_counter = 0)
      BY <1>9, PackagerKnows
    <3> QED BY <1>7, <1>9, <3>1
  <2>2. Idling' <=> Idling
    <3>1. Fresh => (since' <= 5 <=> since <= 5)
      <4>1. Fresh => since >= 1 /\ since # 5
        BY <1>1, <1>9 DEF At
      <4>2. since' = IF since < SPACING THEN since + 1 ELSE since
        BY <1>1
      <4> QED BY <1>2, <4>1, <4>2
    <3> QED BY <1>1, <1>7, <1>9, <3>1, Zenon DEF Idling
  <2> QED BY <1>1, <1>3, <1>7, <1>9, <2>1, <2>2 DEF PackagerInv
<1> QED BY <1>6, <1>8, <1>9

-----------------------------------------------------------------------------
(* The buffer.                                                             *)

\* Both instances of the buffer speak of the same registers.
LEMMA Pairs == ASSUME NEW x PROVE <<x, x>> = [f \in {1, 2} |-> x]
<1>1. <<x, x>> = [f \in 1..2 |-> <<x, x>>[f]]
  OBVIOUS
<1>2. 1..2 = {1, 2}
  OBVIOUS
<1>3. \A f \in 1..2 : <<x, x>>[f] = x
  OBVIOUS
<1> QED BY <1>1, <1>2, <1>3, Zenon

LEMMA SameStart == FifoInit => F!Init
<1>1. ASSUME FifoInit PROVE F!Init
  <2> DEFINE zero == [lo |-> 0, hi |-> 0]
  <2>1. zero \in Bytes
    BY DEF Bytes
  <2>2. /\ w_ptr = [f \in F!Fifo |-> 0] /\ r_ptr = [f \in F!Fifo |-> 0]
        /\ skip_fifo = [f \in F!Fifo |-> FALSE] /\ dob = [f \in F!Fifo |-> zero]
    BY <1>1, Pairs, Zenon DEF FifoInit, F!Fifo
  <2>3. ram = [f \in F!Fifo |-> [a \in F!Addr |-> zero]]
    <3>1. 1..2 = {1, 2}
      OBVIOUS
    <3> QED BY <1>1, <3>1, Zenon DEF FifoInit, F!Fifo, F!Addr, F!END
  <2> QED BY <1>1, <2>1, <2>2, <2>3 DEF FifoInit, F!Init
<1> QED BY <1>1

LEMMA SameClock ==
  ASSUME NEW valid, NEW last, NEW d, Fifo!Clock(TRUE, valid, last, FALSE, d)
  PROVE  F!Clock(TRUE, valid, last, FALSE, d)
BY Zenon
DEF F!Clock, F!Both, F!WriteOnly, F!ReadOnly, F!Decode, F!Memory, F!Fifo, F!Other, F!AtEnd,
    F!EndsBurst, F!ChangeMode, F!LatchSkip, F!END, F!Concurrent, F!ReadDone, F!WriteDone,
    F!WriteEnable, F!BeingRead, F!AlmostFull, F!Writing, F!Reading, F!control,
    Fifo!Clock, Fifo!Both, Fifo!WriteOnly, Fifo!ReadOnly, Fifo!Decode, Fifo!Memory, Fifo!Fifo,
    Fifo!Other, Fifo!AtEnd, Fifo!EndsBurst, Fifo!ChangeMode, Fifo!LatchSkip, Fifo!END,
    Fifo!Concurrent, Fifo!ReadDone, Fifo!WriteDone, Fifo!WriteEnable, Fifo!BeingRead,
    Fifo!AlmostFull, Fifo!Writing, Fifo!Reading, Fifo!control

LEMMA SameReset ==
  ASSUME NEW valid, NEW d, Fifo!Reset(valid, d)
  PROVE  F!Reset(valid, d)
BY Zenon
DEF F!Reset, F!Memory, F!Fifo, F!Concurrent, F!ReadDone, F!WriteEnable,
    Fifo!Reset, Fifo!Memory, Fifo!Fifo, Fifo!Concurrent, Fifo!ReadDone, Fifo!WriteEnable

LEMMA SameTypes == F!TypeOK <=> Fifo!TypeOK
BY Zenon DEF F!TypeOK, F!Fifo, F!Addr, F!END, F!State,
             Fifo!TypeOK, Fifo!Fifo, Fifo!Addr, Fifo!END, Fifo!State

\* What is stored leaves room below the watermark, and a byte that comes is the next one.
LEMMA Stored ==
  ASSUME Roomy, HeardInv
  PROVE  /\ stored \in Nat /\ stored + WATERMARK + 1 < DEPTH
         /\ 2 * stored + 2 <= Len(heard) \/ stored = 0
         /\ At(6) /\ Len(heard) >= 4 /\ Len(heard) % 2 = 0 =>
              /\ 2 * stored + 4 = Len(heard)
              /\ Full => stored + 1 = Length(heard)
<1> DEFINE n == Len(heard)
           L == Length(heard)
<1>1. /\ n \in Nat
      /\ n >= 2 => L \in Nat /\ n <= 2 + 2 * L /\ L + WATERMARK < DEPTH
      /\ Full <=> n >= 2 /\ n = 2 + 2 * L
      /\ Fresh => n >= 1
  BY Numbers
<1>2. stored = IF n < 4 \/ (Full /\ ~Coming) THEN 0
               ELSE IF Fresh /\ since <= 6 THEN (n - 3) \div 2 ELSE (n - 2) \div 2
  BY DEF stored
<1>3. WATERMARK \in Nat /\ DEPTH \in Nat /\ WATERMARK + 1 < DEPTH
  BY Sizes
<1>4. Coming => Full /\ Fresh /\ since <= 6
  BY DEF Coming
<1>5. At(6) => Fresh /\ since <= 6
  BY DEF At
<1>6. At(6) /\ Full => Coming
  BY DEF At, Coming
<1> HIDE DEF n, L
<1>7. CASE stored = 0
  <2>1. ASSUME At(6), n >= 4, n % 2 = 0
        PROVE  2 * stored + 4 = n /\ (Full => stored + 1 = L)
    <3>1. (n - 3) \div 2 = 0
      BY <1>1, <1>2, <1>5, <1>6, <1>7, <2>1
    <3>2. n = 4
      BY <1>1, <2>1, <3>1
    <3> QED BY <1>1, <1>7, <3>2
  <2> QED BY <1>3, <1>7, <2>1 DEF n, L
<1>8. CASE stored # 0
  <2>1. n >= 4 /\ ~(Full /\ ~Coming)
    BY <1>1, <1>2, <1>8
  <2>2. stored = IF Fresh /\ since <= 6 THEN (n - 3) \div 2 ELSE (n - 2) \div 2
    BY <1>1, <1>2, <2>1
  <2>3. Full => stored = (n - 3) \div 2
    BY <1>4, <2>1, <2>2
  <2>4. stored \in Nat /\ 2 * stored + 2 <= n
    BY <1>1, <2>1, <2>2
  <2>5. stored <= L - 1 /\ L \in Nat /\ L + WATERMARK < DEPTH
    <3>1. L \in Nat /\ n <= 2 + 2 * L /\ L + WATERMARK < DEPTH
      BY <1>1, <2>1
    <3>2. CASE n = 2 + 2 * L
      BY <1>1, <2>1, <2>3, <3>1, <3>2
    <3>3. CASE n # 2 + 2 * L
      BY <1>1, <2>4, <3>1, <3>3
    <3> QED BY <3>2, <3>3
  <2>6. stored + WATERMARK + 1 < DEPTH
    BY <1>3, <2>4, <2>5
  <2>7. ASSUME At(6), n >= 4, n % 2 = 0
        PROVE  2 * stored + 4 = n /\ (Full => stored + 1 = L)
    <3>1. stored = (n - 3) \div 2
      BY <1>5, <2>2, <2>7
    <3>2. 2 * stored + 4 = n
      BY <1>1, <2>7, <3>1
    <3> QED BY <1>1, <2>4, <2>5, <3>2
  <2> QED BY <2>4, <2>6, <2>7 DEF n, L
<1> QED BY <1>7, <1>8

LEMMA BufferStep ==
  ASSUME Roomy, HeardInv, PackagerTypes, OutputsInv, BufferInv,
         Fifo!Clock(TRUE, byte_valid, byte_last, FALSE, [lo |-> lo, hi |-> hi])
  PROVE  /\ F!ImplInv' /\ ~F!Waiting' /\ ~almost_full' /\ s_tready' /\ ~F!dirty'
         /\ F!beat' = IF F!owed = <<>> THEN <<>> ELSE <<Head(F!owed)>>
         /\ byte_valid /\ Full =>
              /\ F!filling' = <<>> /\ F!owed = <<>>
              /\ F!owed' = F!Burst(Append(F!filling, [lo |-> lo, hi |-> hi]))
         /\ byte_valid /\ ~Full =>
              F!filling' = Append(F!filling, [lo |-> lo, hi |-> hi]) /\ F!owed' = F!left
         /\ ~byte_valid => F!filling' = F!filling /\ F!owed' = F!left
<1> DEFINE d == [lo |-> lo, hi |-> hi]
<1>1. d \in Bytes /\ byte_valid \in BOOLEAN /\ byte_last \in BOOLEAN
  BY DEF PackagerTypes, Bytes
<1>2. F!Clock(TRUE, byte_valid, byte_last, FALSE, d)
  BY SameClock
<1>3. F!ImplInv /\ ~F!Waiting /\ ~F!dirty /\ Len(F!filling) = stored
  BY DEF BufferInv
<1>4. stored \in Nat /\ stored + WATERMARK + 1 < DEPTH
  BY Stored
<1>5. byte_valid => (F!Ends(byte_last) <=> Full)
  <2>1. Len(F!filling) + 1 # DEPTH
    BY <1>3, <1>4, Sizes
  <2> QED BY <2>1 DEF F!Ends, OutputsInv
<1>6. byte_valid /\ Full => F!owed = <<>>
  BY DEF OutputsInv, BufferInv, Coming, At
<1>7. byte_valid /\ F!Ends(byte_last) => Len(F!owed) <= 1
  BY <1>5, <1>6
<1>8. F!DepthAssumption /\ F!EnvAssumption
  BY SizesOfBuffer
<1>9. FALSE \in BOOLEAN
  OBVIOUS
<1> HIDE DEF d
<1>10. /\ F!ImplInv' /\ ~F!Waiting'
       /\ F!beat' = IF F!owed = <<>> THEN <<>> ELSE <<Head(F!owed)>>
       /\ byte_valid /\ F!Ends(byte_last) =>
            /\ F!filling' = <<>> /\ F!dirty' = FALSE
            /\ F!owed' = IF F!dirty \/ FALSE THEN F!left
                         ELSE F!left \o F!Burst(Append(F!filling, d))
       /\ byte_valid /\ ~F!Ends(byte_last) =>
            F!filling' = Append(F!filling, d) /\ F!dirty' = (F!dirty \/ FALSE) /\ F!owed' = F!left
       /\ ~byte_valid => F!filling' = F!filling /\ F!dirty' = F!dirty /\ F!owed' = F!left
       /\ almost_full' = (Len(F!filling) + WATERMARK >= F!END) /\ s_tready'
  BY <1>1, <1>2, <1>3, <1>7, <1>8, <1>9, F!StreamStep, Zenon
<1>11. ~almost_full'
  <2>1. ~(Len(F!filling) + WATERMARK >= F!END)
    BY <1>3, <1>4, Sizes DEF F!END
  <2> QED BY <1>10, <2>1
<1>12. ~F!dirty'
  BY <1>3, <1>10, Zenon
<1>13. ASSUME byte_valid, Full
       PROVE  F!filling' = <<>> /\ F!owed = <<>> /\ F!owed' = F!Burst(Append(F!filling, d))
  <2>1. F!filling' = <<>> /\ F!owed' = F!left \o F!Burst(Append(F!filling, d))
    BY <1>3, <1>5, <1>10, <1>13, Zenon
  <2>2. F!owed = <<>> /\ F!left = <<>>
    BY <1>6, <1>13 DEF F!left
  <2>3. F!filling \in Seq(Bytes)
    BY <1>3, <1>8, F!StreamTypes, Zenon
  <2>4. <<>> \o F!Burst(Append(F!filling, d)) = F!Burst(Append(F!filling, d))
    <3>1. Append(F!filling, d) \in Seq(Bytes)
      BY <1>1, <2>3 DEF d
    <3>2. Len(Append(F!filling, d)) \in Nat
      BY <3>1
    <3> DEFINE t == Append(F!filling, d)
    <3> HIDE DEF t
    <3>3. F!Burst(t) = [i \in 1..Len(t) |-> [data |-> t[i], last |-> i = Len(t)]]
      BY DEF F!Burst
    <3>4. F!Burst(t) \in Seq([data : {t[i] : i \in 1..Len(t)}, last : BOOLEAN])
      <4>1. F!Burst(t) \in [1..Len(t) -> [data : {t[i] : i \in 1..Len(t)}, last : BOOLEAN]]
        BY <3>3
      <4> QED BY <3>2, <4>1, SeqDef DEF t
    <3> QED BY <3>4, ConcatEmptySeq DEF t
  <2> QED BY <2>1, <2>2, <2>4
<1>14. ASSUME byte_valid, ~Full
       PROVE  F!filling' = Append(F!filling, d) /\ F!owed' = F!left
  BY <1>5, <1>10, <1>14, Zenon
<1> QED BY <1>10, <1>11, <1>12, <1>13, <1>14, Zenon DEF d

LEMMA Left ==
  ASSUME Roomy, BufferInv
  PROVE  /\ F!filling \in Seq(Bytes) /\ F!owed \in Seq(Beat) /\ F!left \in Seq(Beat)
         /\ Len(F!owed) \in Nat /\ Len(F!left) \in Nat
         /\ F!owed = <<>> => F!left = <<>> /\ Len(F!owed) = 0 /\ Len(F!left) = 0
         /\ F!owed # <<>> => Len(F!left) = Len(F!owed) - 1
         /\ Len(F!owed) <= 1 => F!left = <<>>
<1>1. F!DepthAssumption /\ F!EnvAssumption /\ F!ImplInv /\ ~F!Waiting
  BY SizesOfBuffer DEF BufferInv
<1>2. F!filling \in Seq(Bytes) /\ F!owed \in Seq([data : Bytes, last : BOOLEAN])
  BY <1>1, F!StreamTypes, Zenon
<1> DEFINE o == F!owed
<1>3. o \in Seq(Beat)
  BY <1>2 DEF Beat
<1>4. F!left = IF o = <<>> THEN <<>> ELSE Tail(o)
  BY DEF F!left
<1> HIDE DEF o
<1>5. o = <<>> => Len(o) = 0 /\ Len(F!left) = 0 /\ F!left = <<>> /\ F!left \in Seq(Beat)
  BY <1>4
<1>6. o # <<>> => /\ F!left \in Seq(Beat) /\ Len(F!left) = Len(o) - 1
                  /\ Len(o) \in Nat /\ Len(F!left) \in Nat
  BY <1>3, <1>4, HeadTailProperties, LenProperties
<1>7. Len(o) <= 1 => F!left = <<>>
  BY <1>5, <1>6, EmptySeq
<1> QED BY <1>2, <1>3, <1>5, <1>6, <1>7 DEF o

LEMMA BufferChip ==
  ASSUME Roomy, HeardInv, PackagerTypes, OutputsInv, BufferInv,
         since = SPACING, NEW c \in Chips, Hear(c),
         Fifo!Clock(TRUE, byte_valid, byte_last, FALSE, [lo |-> lo, hi |-> hi])
  PROVE  BufferInv'
<1>1. /\ c.word \in Words /\ c.hit \in BOOLEAN /\ since' = 1
      /\ Hunts(c) \/ Follows(c) \/ Completes(c)
  BY ChipCases
<1>2. since >= 7 /\ ~At(6) /\ ~Coming /\ (Coming' <=> Fresh' /\ Full')
  BY <1>1, ChipTime
<1>3. ~byte_valid
  BY <1>2 DEF OutputsInv
<1>4. /\ F!ImplInv' /\ ~F!Waiting' /\ ~almost_full' /\ s_tready' /\ ~F!dirty'
      /\ F!filling' = F!filling /\ F!owed' = F!left
  BY <1>3, BufferStep, Zenon
<1>5. /\ Len(F!owed) \in Nat /\ Len(F!left) \in Nat
      /\ F!owed = <<>> => F!left = <<>> /\ Len(F!owed) = 0 /\ Len(F!left) = 0
      /\ F!owed # <<>> => Len(F!left) = Len(F!owed) - 1
      /\ Len(F!owed) <= 1 => F!left = <<>>
  BY Left, Zenon
<1>6. /\ Len(F!filling) = stored
      /\ \A i \in 1..Len(F!filling) : F!filling[i] = ByteAt(i)
      /\ locked => F!owed = <<>>
      /\ ~locked => Len(F!owed) + run <= HEADER
  BY DEF BufferInv
<1>7. /\ Len(heard) \in Nat /\ stored \in Nat
      /\ 2 * stored + 2 <= Len(heard) \/ stored = 0
      /\ stored = IF Len(heard) < 4 \/ Full THEN 0 ELSE (Len(heard) - 2) \div 2
  <2>1. ~(Fresh /\ since <= 6)
    BY <1>2, Sizes
  <2> QED BY <1>2, <2>1, Numbers, Stored DEF stored
<1>8. run \in Nat /\ HEADER \in Nat /\ HEADER >= 1
  BY Sizes DEF HeardInv
<1>9. CASE Hunts(c)
  <2>1. heard' = <<>> /\ ~locked /\ ~Full' /\ ~Fresh' /\ ~Coming' /\ Len(heard') = 0
    BY <1>2, <1>9 DEF Hunts, Fresh, Full, Pack!Ends
  <2>2. stored' = 0
    BY <2>1 DEF stored
  <2>3. stored = 0
    <3>1. heard = <<>> \/ Full
      BY <1>9 DEF Hunts, HeardInv
    <3>2. CASE heard = <<>>
      BY <1>7, <3>2
    <3>3. CASE Full
      BY <1>7, <3>3
    <3> QED BY <3>1, <3>2, <3>3
  <2>4. locked' => F!left = <<>>
    <3>1. ASSUME locked' PROVE Len(F!owed) <= 1
      <4>1. run >= HEADER - 1
        BY <1>9, <3>1 DEF Hunts
      <4>2. Len(F!owed) + run <= HEADER
        BY <1>6, <2>1
      <4> QED BY <1>5, <1>8, <4>1, <4>2
    <3> QED BY <1>5, <3>1
  <2>5. ~locked' => Len(F!left) + run' <= HEADER
    <3>1. ASSUME ~locked' PROVE run' = IF run < HEADER THEN run + 1 ELSE run
      BY <1>9, <3>1 DEF Hunts
    <3>2. Len(F!owed) + run <= HEADER
      BY <1>6, <2>1
    <3>3. ASSUME run' = IF run < HEADER THEN run + 1 ELSE run
          PROVE  Len(F!left) + run' <= HEADER
      <4>1. CASE F!owed = <<>>
        BY <1>5, <1>8, <3>2, <3>3, <4>1
      <4>2. CASE F!owed # <<>>
        BY <1>5, <1>8, <3>2, <3>3, <4>2
      <4> QED BY <4>1, <4>2
    <3> QED BY <3>1, <3>3
  <2>6. \A i \in 1..Len(F!filling) : F!filling[i] = ByteAt(i)'
    BY <1>6, <2>3
  <2> QED BY <1>4, <1>6, <2>1, <2>2, <2>3, <2>4, <2>5, <2>6, Zenon DEF BufferInv
<1>10. CASE Follows(c) \/ Completes(c)
  <2>1. locked /\ ~Full /\ F!owed = <<>> /\ F!left = <<>> /\ Len(F!left) = 0
    BY <1>5, <1>6, <1>10 DEF Follows, Completes, HeardInv
  <2>2. stored' = stored /\ \A i \in 1..Len(heard) : heard'[i] = heard[i]
    <3>1. CASE Follows(c)
      <4>1. heard' = heard /\ run' # 0
        BY <1>8, <3>1 DEF Follows
      <4>2. ~Fresh' /\ ~Full'
        BY <2>1, <4>1 DEF Fresh, Full
      <4> QED BY <1>7, <2>1, <4>1, <4>2 DEF stored
    <3>2. CASE Completes(c)
      <4>1. heard' # <<>> /\ Len(heard') = Len(heard) + 1 /\ \A i \in 1..Len(heard) : heard'[i] = heard[i]
        BY <1>1, <3>2, Extended
      <4>2. Fresh' /\ (Full' => Coming')
        BY <1>2, <3>2, <4>1 DEF Completes, Fresh
      <4>3. stored' = IF Len(heard') < 4 THEN 0 ELSE (Len(heard') - 3) \div 2
        BY <1>1, <4>2 DEF stored
      <4> QED BY <1>7, <2>1, <4>1, <4>3
    <3> QED BY <1>10, <3>1, <3>2
  <2>3. \A i \in 1..Len(F!filling) : F!filling[i] = ByteAt(i)'
    <3> SUFFICES ASSUME NEW i \in 1..Len(F!filling)
                 PROVE  F!filling[i] = ByteAt(i)'
      OBVIOUS
    <3>1. 2 * i + 1 \in 1..Len(heard) /\ 2 * i + 2 \in 1..Len(heard)
      BY <1>6, <1>7
    <3>2. heard'[2 * i + 1] = heard[2 * i + 1] /\ heard'[2 * i + 2] = heard[2 * i + 2]
      BY <2>2, <3>1
    <3> QED BY <1>6, <3>2 DEF ByteAt
  <2>4. ~locked' => Len(F!left) + run' <= HEADER
    <3>1. ~locked' => run' = 0
      BY <1>10 DEF Follows, Completes
    <3> QED BY <1>8, <2>1, <3>1
  <2> QED BY <1>4, <1>6, <2>1, <2>2, <2>3, <2>4, Zenon DEF BufferInv
<1> QED BY <1>1, <1>9, <1>10

LEMMA BufferQuiet ==
  ASSUME Roomy, HeardInv, PackagerTypes, OutputsInv, BufferInv, Quiet,
         Fifo!Clock(TRUE, byte_valid, byte_last, FALSE, [lo |-> lo, hi |-> hi])
  PROVE  BufferInv'
<1> DEFINE n == Len(heard)
           d == [lo |-> lo, hi |-> hi]
<1>1. /\ heard' = heard /\ locked' = locked /\ run' = run
      /\ (Fresh' <=> Fresh) /\ (Full' <=> Full) /\ (Coming' <=> Coming /\ ~At(6))
      /\ Fresh => since >= 1
  BY QuietTime
<1>2. /\ F!ImplInv' /\ ~F!Waiting' /\ ~almost_full' /\ s_tready' /\ ~F!dirty'
      /\ byte_valid /\ Full =>
           /\ F!filling' = <<>> /\ F!owed = <<>>
           /\ F!owed' = F!Burst(Append(F!filling, d))
      /\ byte_valid /\ ~Full => F!filling' = Append(F!filling, d) /\ F!owed' = F!left
      /\ ~byte_valid => F!filling' = F!filling /\ F!owed' = F!left
  BY BufferStep, Zenon
<1>3. /\ F!filling \in Seq(Bytes) /\ Len(F!owed) \in Nat /\ Len(F!left) \in Nat
      /\ F!owed = <<>> => F!left = <<>> /\ Len(F!owed) = 0 /\ Len(F!left) = 0
      /\ F!owed # <<>> => Len(F!left) = Len(F!owed) - 1
  BY Left, Zenon
<1>4. /\ Len(F!filling) = stored
      /\ \A i \in 1..Len(F!filling) : F!filling[i] = ByteAt(i)
      /\ locked \/ Coming => F!owed = <<>>
      /\ ~locked => Len(F!owed) + run <= HEADER
  BY DEF BufferInv
<1>5. /\ n \in Nat /\ stored \in Nat
      /\ At(6) /\ n >= 4 /\ n % 2 = 0 =>
           2 * stored + 4 = n /\ (Full => stored + 1 = Length(heard))
      /\ n >= 2 => Length(heard) \in Nat /\ Length(heard) <= HEADER
      /\ Full <=> n >= 2 /\ n = 2 + 2 * Length(heard)
  BY Numbers, Stored
<1>6. since' = (IF since < SPACING THEN since + 1 ELSE since) /\ since \in 0..SPACING
      /\ SPACING \in Nat /\ SPACING >= 7 /\ HEADER \in Nat /\ run \in Nat
  BY Sizes DEF HeardInv, Quiet
<1>7. byte_valid <=> At(6) /\ n >= 4 /\ n % 2 = 0
  BY DEF OutputsInv
<1>8. stored' = IF n < 4 \/ (Full /\ ~Coming') THEN 0
                ELSE IF Fresh /\ since' <= 6 THEN (n - 3) \div 2 ELSE (n - 2) \div 2
  BY <1>1, Zenon DEF stored
<1>9. stored = IF n < 4 \/ (Full /\ ~Coming) THEN 0
               ELSE IF Fresh /\ since <= 6 THEN (n - 3) \div 2 ELSE (n - 2) \div 2
  BY Zenon DEF stored
<1>10. At(6) <=> Fresh /\ since = 6
  BY DEF At
<1>11. Coming <=> Fresh /\ Full /\ since <= 6
  BY DEF Coming
<1>12. \A i : ByteAt(i)' = ByteAt(i)
  BY <1>1, Zenon DEF ByteAt
<1>13. Fresh => (since' <= 6 <=> since <= 6 /\ since # 6)
  BY <1>1, <1>6
<1> DEFINE L == Length(heard)
<1> HIDE DEF n, L, d
<1>14. CASE byte_valid /\ Full
  <2>1. At(6) /\ n >= 4 /\ stored + 1 = L /\ F!owed = <<>> /\ ~Coming'
    BY <1>1, <1>2, <1>5, <1>7, <1>14 DEF L, n
  <2>2. stored' = 0
    BY <1>8, <1>14, <2>1
  <2>3. F!filling' = <<>> /\ Len(F!filling') = 0 /\ F!owed' = F!Burst(Append(F!filling, d))
    BY <1>2, <1>14
  <2>4. Len(F!Burst(Append(F!filling, d))) = stored + 1
    <3>1. Len(Append(F!filling, d)) = stored + 1
      BY <1>3, <1>4
    <3> QED BY <1>5, <3>1 DEF F!Burst
  <2>5. ~locked /\ run = 0
    BY <1>10, <1>14, <2>1 DEF HeardInv, Fresh
  <2>6. Len(F!owed') + run' <= HEADER
    <3>1. Len(F!owed') = L
      BY <2>1, <2>3, <2>4
    <3>2. L \in Nat /\ L <= HEADER
      BY <1>5, <2>1 DEF n, L
    <3> QED BY <1>1, <2>5, <3>1, <3>2
  <2>7. \A i \in 1..Len(F!filling') : F!filling'[i] = ByteAt(i)'
    BY <2>3
  <2> QED BY <1>1, <1>2, <2>1, <2>2, <2>3, <2>5, <2>6, <2>7, Zenon DEF BufferInv
<1>15. CASE byte_valid /\ ~Full
  <2>1. At(6) /\ n >= 4 /\ n % 2 = 0 /\ 2 * stored + 4 = n /\ Fresh /\ since' > 6
    BY <1>5, <1>6, <1>7, <1>10, <1>15 DEF n
  <2>2. stored' = stored + 1
    BY <1>5, <1>6, <1>8, <1>15, <2>1 DEF n
  <2>3. F!filling' = Append(F!filling, d) /\ F!owed' = F!left
    BY <1>2, <1>15
  <2>4. /\ Len(Append(F!filling, d)) = stored + 1
        /\ Append(F!filling, d)[stored + 1] = d
        /\ \A i \in 1..stored : Append(F!filling, d)[i] = F!filling[i]
    BY <1>3, <1>4, AppendProperties
  <2>5. d = ByteAt(stored + 1)
    <3>1. lo = heard[n - 1].value /\ hi = heard[n].value
      BY <1>15 DEF OutputsInv, n
    <3>2. 2 * (stored + 1) + 1 = n - 1 /\ 2 * (stored + 1) + 2 = n
      BY <1>5, <2>1 DEF n
    <3> QED BY <3>1, <3>2 DEF ByteAt, d
  <2>6. \A i \in 1..Len(F!filling') : F!filling'[i] = ByteAt(i)
    <3> SUFFICES ASSUME NEW i \in 1..Len(F!filling')
                 PROVE  F!filling'[i] = ByteAt(i)
      OBVIOUS
    <3>1. i \in 1..stored \/ i = stored + 1
      BY <1>5, <2>3, <2>4
    <3> QED BY <1>4, <2>3, <2>4, <2>5, <3>1
  <2>7. Len(F!filling') = stored'
    BY <2>2, <2>3, <2>4
  <2>8. locked' \/ Coming' => F!left = <<>>
    BY <1>1, <1>3, <1>4
  <2>9. ~locked' => Len(F!left) + run' <= HEADER
    BY <1>1, <1>3, <1>4, <1>6
  <2> QED BY <1>2, <1>12, <2>3, <2>6, <2>7, <2>8, <2>9, Zenon DEF BufferInv
<1>16. CASE ~byte_valid
  <2>1. stored' = stored
    <3>1. CASE At(6)
      <4>1. n < 4 \/ n % 2 = 1
        BY <1>5, <1>7, <1>16, <3>1 DEF n
      <4>2. CASE n < 4
        BY <1>8, <1>9, <4>2
      <4>3. CASE n >= 4 /\ n % 2 = 1
        <5>1. ~Full
          BY <1>5, <4>3 DEF n
        <5>2. ~(since' <= 6) /\ Fresh /\ since <= 6
          BY <1>10, <1>13, <3>1
        <5>3. stored' = (n - 2) \div 2 /\ stored = (n - 3) \div 2
          BY <1>8, <1>9, <4>3, <5>1, <5>2, <1>5 DEF n
        <5> QED BY <1>5, <4>3, <5>3 DEF n
      <4> QED BY <1>5, <4>1, <4>2, <4>3 DEF n
    <3>2. CASE ~At(6)
      <4>1. Coming' <=> Coming
        BY <1>1, <3>2
      <4>2. Fresh => (since' <= 6 <=> since <= 6)
        BY <1>10, <1>13, <3>2
      <4> QED BY <1>8, <1>9, <4>1, <4>2, Zenon
    <3> QED BY <3>1, <3>2
  <2>2. F!filling' = F!filling /\ F!owed' = F!left
    BY <1>2, <1>16
  <2>3. locked' \/ Coming' => F!left = <<>>
    BY <1>1, <1>3, <1>4
  <2>4. ~locked' => Len(F!left) + run' <= HEADER
    BY <1>1, <1>3, <1>4, <1>6
  <2> QED BY <1>2, <1>4, <1>12, <2>1, <2>2, <2>3, <2>4, Zenon DEF BufferInv
<1> QED BY <1>14, <1>15, <1>16

-----------------------------------------------------------------------------
(* What the host is owed.                                                  *)

LEMMA BytesBeats ==
  ASSUME Roomy, HeardInv, Full
  PROVE  BytesOf(heard) \in Seq(Beat) /\ Len(BytesOf(heard)) = Length(heard)
<1> DEFINE L == Length(heard)
           n == Len(heard)
<1>1. heard \in Seq(Words) /\ L \in Nat /\ n = 2 + 2 * L
  BY Numbers
<1>2. BytesOf(heard) = [i \in 1..L |-> [data |-> ByteAt(i), last |-> i = L]]
  BY Zenon DEF BytesOf, ByteAt, Length
<1>3. ASSUME NEW i \in 1..L PROVE [data |-> ByteAt(i), last |-> i = L] \in Beat
  <2>1. 2 * i + 1 \in 1..n /\ 2 * i + 2 \in 1..n
    BY <1>1, <1>3
  <2>2. heard[2 * i + 1] \in Words /\ heard[2 * i + 2] \in Words
    BY <1>1, <2>1, ElementOfSeq
  <2>3. ByteAt(i) \in Bytes
    BY <2>2, NibbleParts DEF ByteAt, Bytes
  <2>4. (i = L) \in BOOLEAN
    OBVIOUS
  <2> QED BY <2>3, <2>4, Zenon DEF Beat
<1> HIDE DEF L, n
<1>4. BytesOf(heard) \in [1..L -> Beat]
  BY <1>2, <1>3, Zenon
<1> QED BY <1>1, <1>4, SeqDef, LenProperties DEF L

LEMMA PendingBeats == ASSUME Roomy, HeardInv PROVE Pending \in Seq(Beat)
BY BytesBeats DEF Pending, Coming

LEMMA BeatOnBus ==
  ASSUME BufferInv
  PROVE  /\ m_tvalid \in BOOLEAN /\ [data |-> dob[sel_fifo], last |-> m_tlast] \in Beat
         /\ F!beat = IF m_tvalid THEN <<[data |-> dob[sel_fifo], last |-> m_tlast]>> ELSE <<>>
<1>1. F!TypeOK
  BY DEF BufferInv, F!ImplInv, F!IInv
<1>2. m_tvalid \in BOOLEAN /\ m_tlast \in BOOLEAN /\ dob[sel_fifo] \in Bytes
  BY <1>1 DEF F!TypeOK
<1>3. [data |-> dob[sel_fifo], last |-> m_tlast] \in Beat
  BY <1>2 DEF Beat
<1> QED BY <1>2, <1>3, Zenon DEF F!beat

\* The beat that the host sees at this clock is the first it is owed.
LEMMA FirstOwed ==
  ASSUME Roomy, HeardInv, BufferInv, OwedInv
  PROVE  /\ owed \in Seq(Beat) /\ Unseen = F!owed \o Pending
         /\ m_tvalid => owed # <<>> /\ Head(owed) = [data |-> dob[sel_fifo], last |-> m_tlast]
<1> DEFINE o == F!owed
           p == Pending
           b == [data |-> dob[sel_fifo], last |-> m_tlast]
<1>1. o \in Seq(Beat) /\ p \in Seq(Beat) /\ b \in Beat /\ m_tvalid \in BOOLEAN
  BY Left, PendingBeats, BeatOnBus, Zenon
<1>2. owed = (IF m_tvalid THEN <<b>> ELSE <<>>) \o o \o p
  BY BeatOnBus, Zenon DEF OwedInv
<1> HIDE DEF o, p, b
<1>3. o \o p \in Seq(Beat)
  BY <1>1, ConcatProperties
<1>4. CASE m_tvalid
  <2>1. <<b>> \in Seq(Beat) /\ <<b>> # <<>> /\ Len(<<b>>) = 1 /\ <<b>>[1] = b
    BY <1>1
  <2>2. owed = <<b>> \o (o \o p)
    BY <1>1, <1>2, <1>4, <2>1, ConcatAssociative
  <2>3. owed \in Seq(Beat) /\ Head(owed) = b /\ Tail(owed) = o \o p /\ owed # <<>>
    BY <1>1, <1>3, <2>1, <2>2, ConcatProperties, HeadTailProperties
  <2> QED BY <1>4, <2>3, Zenon DEF Unseen, o, p, b
<1>5. CASE ~m_tvalid
  <2>1. owed = o \o p
    BY <1>1, <1>2, <1>5, ConcatEmptySeq
  <2> QED BY <1>3, <1>5, <2>1, Zenon DEF Unseen, o, p
<1> QED BY <1>1, <1>4, <1>5

\* What the buffer does not take it offers or keeps.
LEMMA OfferedOrLeft ==
  ASSUME Roomy, BufferInv, F!beat' = (IF F!owed = <<>> THEN <<>> ELSE <<Head(F!owed)>>),
         F!owed' = F!left
  PROVE  F!beat' \o F!owed' = F!owed
<1> DEFINE o == F!owed
<1>1. o \in Seq(Beat)
  BY Left, Zenon
<1>2. /\ o = <<>> => F!beat' = <<>> /\ F!left = <<>>
      /\ o # <<>> => F!beat' = <<Head(o)>> /\ F!left = Tail(o)
  BY Zenon DEF F!left
<1> HIDE DEF o
<1>3. o = <<>> => <<>> \o <<>> = o
  OBVIOUS
<1>4. o # <<>> => <<Head(o)>> \o Tail(o) = o
  BY <1>1, HeadTailProperties
<1> QED BY <1>2, <1>3, <1>4, Zenon DEF o

LEMMA OwedChip ==
  ASSUME Roomy, HeardInv, PackagerTypes, OutputsInv, BufferInv, OwedInv,
         since = SPACING, NEW c \in Chips, Hear(c),
         Fifo!Clock(TRUE, byte_valid, byte_last, FALSE, [lo |-> lo, hi |-> hi])
  PROVE  OwedInv'
<1>1. /\ since' = 1 /\ (EndsFrame(c) <=> Completes(c) /\ Full')
      /\ Hunts(c) \/ Follows(c) \/ Completes(c)
      /\ c.word \in Words
  BY ChipCases
<1>2. ~At(6) /\ ~Coming /\ (Coming' <=> Fresh' /\ Full')
  BY <1>1, ChipTime
<1>3. ~byte_valid
  BY <1>2 DEF OutputsInv
<1>4. F!beat' \o F!owed' = F!owed
  <2>1. F!beat' = (IF F!owed = <<>> THEN <<>> ELSE <<Head(F!owed)>>) /\ F!owed' = F!left
    BY <1>3, BufferStep, Zenon
  <2> QED BY <2>1, OfferedOrLeft
<1>5. Unseen = F!owed
  <2>1. Unseen = F!owed \o Pending /\ Pending = <<>>
    BY <1>2, FirstOwed, Zenon DEF Pending
  <2>2. F!owed \in Seq(Beat)
    BY Left
  <2> QED BY <2>1, <2>2, ConcatEmptySeq
<1>6. owed' = Unseen \o Pending'
  <2>1. owed' = Unseen \o (IF EndsFrame(c) THEN BytesOf(Nibbles(c)) ELSE <<>>)
    BY Zenon DEF Hear
  <2>2. EndsFrame(c) <=> Coming'
    <3>1. Completes(c) => Fresh'
      BY <1>1, Extended DEF Completes, Fresh
    <3>2. Fresh' => Completes(c)
      BY <1>1 DEF Fresh, Hunts, Follows, HeardInv
    <3> QED BY <1>1, <1>2, <3>1, <3>2
  <2>3. EndsFrame(c) => Nibbles(c) = heard'
    BY <1>1, Zenon DEF Completes, Nibbles
  <2> QED BY <2>1, <2>2, <2>3, Zenon DEF Pending
<1> QED BY <1>4, <1>5, <1>6, Zenon DEF OwedInv

LEMMA OwedQuiet ==
  ASSUME Roomy, HeardInv, PackagerTypes, OutputsInv, BufferInv, OwedInv, Quiet,
         Fifo!Clock(TRUE, byte_valid, byte_last, FALSE, [lo |-> lo, hi |-> hi])
  PROVE  OwedInv'
<1> DEFINE d == [lo |-> lo, hi |-> hi]
           t == Append(F!filling, d)
           L == Length(heard)
<1>1. owed' = F!owed \o Pending
  BY FirstOwed, Zenon DEF Quiet
<1>2. heard' = heard /\ (Coming' <=> Coming /\ ~At(6))
  BY QuietTime
<1>3. /\ F!beat' = IF F!owed = <<>> THEN <<>> ELSE <<Head(F!owed)>>
      /\ byte_valid /\ Full => F!owed = <<>> /\ F!owed' = F!Burst(t)
      /\ byte_valid /\ ~Full => F!owed' = F!left
      /\ ~byte_valid => F!owed' = F!left
  BY BufferStep, Zenon
<1>4. CASE byte_valid /\ Full
  <2>1. At(6) /\ Len(heard) >= 4 /\ Len(heard) % 2 = 0
    BY <1>4 DEF OutputsInv
  <2>2. Coming /\ ~Coming'
    BY <1>2, <1>4, <2>1 DEF Coming, At
  <2>3. Len(F!filling) = stored /\ stored + 1 = L /\ L \in Nat /\ stored \in Nat
        /\ 2 * stored + 4 = Len(heard)
    BY <1>4, <2>1, Stored, Numbers DEF BufferInv
  <2>4. /\ Len(t) = L /\ t[L] = d
        /\ \A i \in 1..stored : t[i] = F!filling[i]
    <3>1. F!filling \in Seq(Bytes)
      BY Left
    <3> QED BY <2>3, <3>1, AppendProperties
  <2>5. \A i \in 1..L : t[i] = ByteAt(i)
    <3>1. \A i \in 1..stored : t[i] = ByteAt(i)
      BY <2>3, <2>4 DEF BufferInv
    <3>2. t[L] = ByteAt(L)
      <4>1. lo = heard[Len(heard) - 1].value /\ hi = heard[Len(heard)].value
        BY <1>4 DEF OutputsInv
      <4>2. 2 * L + 1 = Len(heard) - 1 /\ 2 * L + 2 = Len(heard)
        BY <2>3
      <4>3. d = [lo |-> heard[2 * L + 1].value, hi |-> heard[2 * L + 2].value]
        BY <4>1, <4>2
      <4> HIDE DEF d, t, L
      <4> QED BY <2>4, <4>3 DEF ByteAt
    <3>3. \A i \in 1..L : i \in 1..stored \/ i = L
      BY <2>3
    <3> HIDE DEF L, t
    <3> QED BY <3>1, <3>2, <3>3
  <2>6. F!Burst(t) = BytesOf(heard)
    <3>1. F!Burst(t) = [i \in 1..Len(t) |-> [data |-> t[i], last |-> i = Len(t)]]
      BY Zenon DEF F!Burst
    <3>2. BytesOf(heard) = [i \in 1..L |-> [data |-> ByteAt(i), last |-> i = L]]
      BY Zenon DEF BytesOf, ByteAt, Length
    <3> HIDE DEF t, L
    <3> QED BY <2>4, <2>5, <3>1, <3>2, Zenon
  <2>7. F!beat' = <<>> /\ F!owed' = BytesOf(heard) /\ F!owed = <<>>
    BY <1>3, <1>4, <2>6, Zenon
  <2>8. Pending' = <<>> /\ Pending = BytesOf(heard)
    BY <2>2, Zenon DEF Pending
  <2>9. BytesOf(heard) \in Seq(Beat)
    BY <1>4, BytesBeats
  <2>10. <<>> \o BytesOf(heard) = BytesOf(heard) /\ BytesOf(heard) \o <<>> = BytesOf(heard)
    BY <2>9, ConcatEmptySeq
  <2> QED BY <1>1, <2>7, <2>8, <2>10, Zenon DEF OwedInv
<1>5. CASE ~(byte_valid /\ Full)
  <2>1. F!beat' \o F!owed' = F!owed
    <3>1. F!owed' = F!left
      BY <1>3, <1>5, Zenon
    <3> QED BY <1>3, <3>1, OfferedOrLeft
  <2>2. Pending' = Pending
    <3>1. CASE Coming /\ At(6)
      <4>1. Full /\ ~byte_valid /\ ~Coming'
        BY <1>2, <1>5, <3>1 DEF Coming
      <4>2. L = 0
        <5> DEFINE n == Len(heard)
        <5>1. n < 4 \/ n % 2 # 0
          BY <3>1, <4>1, Numbers DEF OutputsInv
        <5>2. n \in Nat /\ n >= 2 /\ n = 2 + 2 * L /\ L \in Nat
          BY <4>1, Numbers
        <5> HIDE DEF n, L
        <5> QED BY <5>1, <5>2
      <4>3. Len(BytesOf(heard)) = 0 /\ BytesOf(heard) \in Seq(Beat)
        BY <4>1, <4>2, BytesBeats
      <4>4. BytesOf(heard) = <<>>
        BY <4>3, EmptySeq
      <4> QED BY <4>1, <4>4, Zenon DEF Pending
    <3>2. CASE ~(Coming /\ At(6))
      <4>1. Coming' <=> Coming
        BY <1>2, <3>2
      <4> QED BY <1>2, <4>1, Zenon DEF Pending
    <3> QED BY <3>1, <3>2
  <2> QED BY <1>1, <2>1, <2>2, Zenon DEF OwedInv
<1> QED BY <1>4, <1>5

-----------------------------------------------------------------------------
(* The beginning, and a reset.                                             *)

Cleared ==
  /\ locked = FALSE /\ run = 0 /\ heard = <<>> /\ owed = <<>> /\ since = 0
  /\ Det!Init
  /\ hamming = Noise /\ score = Noise /\ nibble_valid_d = FALSE /\ nibble_valid = FALSE
  /\ PackagerTypes /\ phr_state = "IDLE" /\ ~byte_valid
  /\ F!ImplInv /\ ~F!Waiting /\ ~almost_full
  /\ F!filling = <<>> /\ F!dirty = FALSE /\ F!owed = <<>> /\ F!beat = <<>>

LEMMA ClearedInv == Roomy /\ Cleared => IInv
<1> SUFFICES ASSUME Roomy, Cleared PROVE IInv
  OBVIOUS
<1>1. locked = FALSE /\ run = 0 /\ heard = <<>> /\ owed = <<>> /\ since = 0 /\ Len(heard) = 0
  BY DEF Cleared
<1>2. ~Fresh /\ ~Full /\ ~Coming /\ \A k : ~At(k)
  BY <1>1 DEF Fresh, Full, Coming, At, Pack!Ends
<1>3. HeardInv
  <2>1. heard \in Seq(Words)
    BY <1>1
  <2>2. since \in 0..SPACING /\ run \in Nat /\ run <= HEADER /\ ~(Len(heard) >= 2)
    BY <1>1, Sizes
  <2>3. locked \in BOOLEAN /\ ~locked
    BY <1>1
  <2> QED BY <1>1, <2>1, <2>2, <2>3, Zenon DEF HeardInv
<1>4. Noise \in Words
  BY DEF Words
<1>5. DetectorInv
  <2>1. 0 \in 0..(CHIPS - 1)
    BY Sizes
  <2> QED BY <1>1, <1>2, <1>4, <2>1 DEF Cleared, Det!Init, Det!TypeOK, Det!Contents, Det!Empty, DetectorInv
<1>6. DemapperInv
  BY <1>2, <1>4 DEF Cleared, DemapperInv
<1>7. got = 0 /\ Idling /\ stored = 0
  BY <1>1, <1>2 DEF got, Idling, stored
<1>8. PackagerTypes /\ PackagerInv
  BY <1>2, <1>7 DEF Cleared, PackagerInv
<1>9. OutputsInv
  BY <1>1, <1>2 DEF Cleared, OutputsInv
<1>10. BufferInv
  BY <1>1, <1>2, <1>7, Sizes DEF Cleared, BufferInv
<1>11. OwedInv
  BY <1>1, <1>2 DEF Cleared, OwedInv, Pending
<1> QED BY <1>3, <1>5, <1>6, <1>8, <1>9, <1>10, <1>11 DEF IInv

LEMMA InitCleared == ASSUME Roomy, Init PROVE Cleared
<1>1. F!DepthAssumption /\ F!EnvAssumption
  BY SizesOfBuffer
<1>2. F!Init
  BY SameStart DEF Init
<1>3. /\ F!ImplInv /\ ~F!Waiting /\ ~almost_full
      /\ F!filling = <<>> /\ F!dirty = FALSE /\ F!owed = <<>> /\ F!beat = <<>>
  BY <1>1, <1>2, F!StreamStart, Zenon
<1>4. PackagerTypes /\ phr_state = "IDLE" /\ ~byte_valid
  <2>1. /\ phr_state = "IDLE" /\ byte_counter = 0 /\ crappy_phr = FALSE
        /\ int_nibble = 0 /\ lo = 0 /\ hi = 0
        /\ byte_valid = FALSE /\ byte_last = FALSE /\ frame_done = FALSE
    BY Zenon DEF Init, Pack!RegistersInit
  <2>2. "IDLE" \in Pack!State /\ 0 \in 0..127 /\ 0 \in 0..15 /\ FALSE \in BOOLEAN
    BY DEF Pack!State
  <2> QED BY <2>1, <2>2 DEF PackagerTypes
<1> QED BY <1>3, <1>4, Zenon DEF Init, HistoryInit, Cleared

LEMMA ResetClears == ASSUME Roomy, IInv, ResetEdge PROVE Cleared'
<1>1. F!DepthAssumption /\ F!EnvAssumption
  BY SizesOfBuffer
<1>2. byte_valid \in BOOLEAN /\ [lo |-> lo, hi |-> hi] \in Bytes /\ F!ImplInv
  BY DEF IInv, PackagerTypes, Bytes, BufferInv
<1>3. F!Reset(byte_valid, [lo |-> lo, hi |-> hi])
  BY SameReset DEF ResetEdge
<1>4. /\ F!ImplInv' /\ ~F!Waiting' /\ ~almost_full'
      /\ F!filling' = <<>> /\ F!dirty' = FALSE /\ F!owed' = <<>> /\ F!beat' = <<>>
  BY <1>1, <1>2, <1>3, F!StreamReset, Zenon
<1>5. PackagerTypes' /\ phr_state' = "IDLE" /\ ~byte_valid'
  <2>1. /\ phr_state' = "IDLE" /\ byte_counter' = 0 /\ crappy_phr' = FALSE /\ int_nibble' = 0
        /\ byte_valid' = (phr_state = "PL_DONE") /\ byte_last' = Pack!LastByte
        /\ frame_done' = Pack!FrameDone
        /\ lo' = (IF phr_state = "PL_PART" THEN int_nibble ELSE lo)
        /\ hi' = (IF phr_state = "PL_DONE" THEN int_nibble ELSE hi)
        /\ phr_state # "PL_DONE"
    BY Zenon DEF ResetEdge, Pack!Reset, Pack!Decode
  <2>2. "IDLE" \in Pack!State /\ 0 \in 0..127 /\ 0 \in 0..15 /\ FALSE \in BOOLEAN
    BY DEF Pack!State
  <2>3. int_nibble \in 0..15 /\ lo \in 0..15 /\ hi \in 0..15
    BY DEF IInv, PackagerTypes
  <2>4. byte_valid' \in BOOLEAN /\ byte_last' \in BOOLEAN /\ frame_done' \in BOOLEAN /\ ~byte_valid'
    BY <2>1 DEF Pack!LastByte, Pack!FrameDone
  <2> QED BY <2>1, <2>2, <2>3, <2>4 DEF PackagerTypes
<1>6. (Det!Init)'
  BY DEF ResetEdge, Det!Reset, Det!Init
<1> QED BY <1>4, <1>5, <1>6, Zenon DEF ResetEdge, Cleared

-----------------------------------------------------------------------------
(* The invariant.                                                          *)

LEMMA ChipStep == ASSUME Roomy, IInv, Chip PROVE IInv'
<1>1. PICK c \in Chips : Edge(TRUE, c) /\ Hear(c)
  BY Zenon DEF Chip
<1>2. since = SPACING
  BY DEF Chip
<1>3. /\ HeardInv /\ DetectorInv /\ DemapperInv /\ PackagerTypes /\ PackagerInv
      /\ OutputsInv /\ BufferInv /\ OwedInv
  BY DEF IInv
<1>4. /\ Det!Clock(TRUE, c, frame_done) /\ Demapper /\ Pack!Clock(Decoded, s_tready)
      /\ Fifo!Clock(TRUE, byte_valid, byte_last, FALSE, [lo |-> lo, hi |-> hi])
  BY <1>1, Zenon DEF Edge
<1>5. s_tready \in BOOLEAN /\ since' = 1
  BY <1>1, <1>3 DEF BufferInv, F!ImplInv, F!IInv, F!TypeOK, Hear
<1>6. HeardInv' /\ DetectorInv' /\ DemapperInv'
  BY <1>1, <1>2, <1>3, <1>4, HeardChip, DetectorChip, DemapperChip
<1>7. PackagerTypes' /\ PackagerInv' /\ OutputsInv'
  BY <1>1, <1>2, <1>3, <1>4, <1>5, PackagerTypesStep, PackagerChip, OutputsChip
<1>8. BufferInv' /\ OwedInv'
  BY <1>1, <1>2, <1>3, <1>4, BufferChip, OwedChip
<1> QED BY <1>6, <1>7, <1>8 DEF IInv

LEMMA NoChipStep == ASSUME Roomy, IInv, NoChip PROVE IInv'
<1>1. Edge(FALSE, Det!Empty) /\ Quiet
  BY DEF NoChip
<1>2. /\ HeardInv /\ DetectorInv /\ DemapperInv /\ PackagerTypes /\ PackagerInv
      /\ OutputsInv /\ BufferInv /\ OwedInv
  BY DEF IInv
<1>3. /\ Det!Clock(FALSE, Det!Empty, frame_done) /\ Demapper /\ Pack!Clock(Decoded, s_tready)
      /\ Fifo!Clock(TRUE, byte_valid, byte_last, FALSE, [lo |-> lo, hi |-> hi])
  BY <1>1, Zenon DEF Edge
<1>4. s_tready \in BOOLEAN /\ (since # 0 => s_tready)
  BY <1>2 DEF BufferInv, F!ImplInv, F!IInv, F!TypeOK
<1>5. HeardInv' /\ DetectorInv' /\ DemapperInv'
  BY <1>1, <1>2, <1>3, QuietTime, DetectorQuiet, DemapperQuiet
<1>6. PackagerTypes' /\ PackagerInv' /\ OutputsInv'
  BY <1>1, <1>2, <1>3, <1>4, PackagerTypesStep, PackagerQuiet, OutputsQuiet
<1>7. BufferInv' /\ OwedInv'
  BY <1>1, <1>2, <1>3, BufferQuiet, OwedQuiet
<1> QED BY <1>5, <1>6, <1>7 DEF IInv

LEMMA ResetStep == ASSUME Roomy, IInv, ResetEdge PROVE IInv'
<1>1. Cleared'
  BY ResetClears
<1>2. (Roomy /\ Cleared => IInv)'
  BY ClearedInv, PTL
<1>3. Roomy'
  BY Zenon DEF Roomy, Length, Pack!FrameLength, Pack!Decoded, Pack!Nibble
<1> QED BY <1>1, <1>2, <1>3, Zenon

LEMMA StutterStep == ASSUME IInv, UNCHANGED vars PROVE IInv'
<1>1. UNCHANGED <<detector, demapper, packager, buffer, history>>
  BY DEF vars
<1>2. /\ shreg' = shreg /\ chipseq' = chipseq /\ corr_hit' = corr_hit
      /\ synch_header_found' = synch_header_found /\ chip_counter' = chip_counter
      /\ tvalid_d' = tvalid_d /\ tvalid_dd' = tvalid_dd
      /\ hamming' = hamming /\ score' = score
      /\ nibble_valid_d' = nibble_valid_d /\ nibble_valid' = nibble_valid
      /\ phr_state' = phr_state /\ byte_counter' = byte_counter /\ crappy_phr' = crappy_phr
      /\ int_nibble' = int_nibble /\ lo' = lo /\ hi' = hi
      /\ byte_valid' = byte_valid /\ byte_last' = byte_last /\ frame_done' = frame_done
  BY <1>1 DEF detector, demapper, packager
<1>3. /\ locked' = locked /\ run' = run /\ heard' = heard /\ owed' = owed /\ since' = since
  BY <1>1 DEF history
<1>4. /\ state' = state /\ w_ptr' = w_ptr /\ r_ptr' = r_ptr /\ skip_fifo' = skip_fifo
      /\ initialized' = initialized /\ ram' = ram /\ dob' = dob /\ m_tvalid' = m_tvalid
      /\ m_tlast' = m_tlast /\ s_tready' = s_tready /\ almost_full' = almost_full
      /\ sel_fifo' = sel_fifo
  BY <1>1 DEF buffer
<1>5. /\ Fresh' <=> Fresh
      /\ Full' <=> Full
      /\ Coming' <=> Coming
      /\ got' = got /\ stored' = stored
      /\ Pending' = Pending
      /\ Idling' <=> Idling
  BY <1>3, Zenon DEF Fresh, Full, Coming, got, stored, Pending, Idling
<1>6. /\ \A k : At(k)' <=> At(k)
      /\ \A k : ByteAt(k)' = ByteAt(k)
  BY <1>3, Zenon DEF At, Fresh, ByteAt
<1>7. HeardInv' /\ DetectorInv'
  BY <1>2, <1>3, <1>5, <1>6, Zenon DEF IInv, HeardInv, DetectorInv, Det!TypeOK
<1>8. DemapperInv' /\ PackagerTypes' /\ PackagerInv' /\ OutputsInv'
  <2>1. DemapperInv'
    BY <1>2, <1>3, <1>5, <1>6, Zenon DEF IInv, DemapperInv
  <2>2. PackagerTypes'
    BY <1>2, Zenon DEF IInv, PackagerTypes
  <2>3. PackagerInv'
    BY <1>2, <1>3, <1>5, <1>6, Zenon DEF IInv, PackagerInv, Length
  <2>4. OutputsInv'
    BY <1>2, <1>3, <1>5, <1>6, Zenon DEF IInv, OutputsInv
  <2> QED BY <2>1, <2>2, <2>3, <2>4
<1>9. /\ F!owed' = F!owed /\ F!beat' = F!beat /\ F!filling' = F!filling /\ F!dirty' = F!dirty
      /\ F!Waiting' <=> F!Waiting
  BY <1>4, Zenon DEF F!owed, F!beat, F!filling, F!dirty, F!Waiting, F!HasUnread, F!BeingRead,
                     F!Unread, F!Parked, F!Writing, F!Reading
<1>10. F!ImplInv'
  BY <1>4, Zenon DEF IInv, BufferInv, F!ImplInv, F!IInv, F!TypeOK, F!ReaderBehind, F!SkipOfWriter,
                     F!Started, F!WriterUnread, F!Writing, F!Reading
<1>11. BufferInv' /\ OwedInv'
  BY <1>3, <1>4, <1>5, <1>6, <1>9, <1>10, Zenon DEF IInv, BufferInv, OwedInv
<1> QED BY <1>7, <1>8, <1>11 DEF IInv

LEMMA Invariance == Roomy => (Spec => []IInv)
<1> SUFFICES ASSUME Roomy PROVE Spec => []IInv
  OBVIOUS
<1>1. Init => IInv
  BY InitCleared, ClearedInv
<1>2. IInv /\ [Next]_vars => IInv'
  BY ChipStep, NoChipStep, ResetStep, StutterStep DEF Next
<1> QED BY <1>1, <1>2, PTL DEF Spec

-----------------------------------------------------------------------------
(* What follows from it.                                                   *)

\* Every register of the receiver stays in its range, the pointers of the
\* buffer included.
THEOREM TypeCorrect == Roomy => (Spec => []TypeOK)
<1> SUFFICES ASSUME Roomy PROVE Spec => []TypeOK
  OBVIOUS
<1>1. IInv => TypeOK
  <2> SUFFICES ASSUME IInv PROVE TypeOK
    OBVIOUS
  <2>1. HeardInv /\ PackagerTypes /\ BufferInv /\ OwedInv
    BY DEF IInv
  <2>2. Det!TypeOK /\ hamming \in Words /\ score \in Words
        /\ nibble_valid_d \in BOOLEAN /\ nibble_valid \in BOOLEAN
    BY DEF IInv, DetectorInv, DemapperInv
  <2>3. Pack!TypeOK
    <3>1. heard \in Seq(Pack!Decoded)
      BY <2>1, NibblesDecoded, SeqMonotonic DEF HeardInv
    <3>2. <<>> \in Seq(Pack!Beat)
      OBVIOUS
    <3>3. 0 \in 0..1
      OBVIOUS
    <3> QED BY <2>1, <3>1, <3>2, <3>3 DEF Pack!TypeOK, PackagerTypes, Pack!Nibble
  <2>4. Fifo!TypeOK
    BY <2>1, SameTypes DEF BufferInv, F!ImplInv, F!IInv
  <2>5. owed \in Seq(Beat)
    BY <2>1, FirstOwed
  <2>6. locked \in BOOLEAN /\ since \in 0..SPACING /\ run \in 0..(CHIPS + HEADER)
    BY <2>1, Sizes DEF HeardInv
  <2> QED BY <2>2, <2>3, <2>4, <2>5, <2>6 DEF TypeOK
<1> QED BY <1>1, Invariance, PTL

\* What the host is offered is the next byte of the frames that were heard, the
\* last one of a frame marked: neither the detector's latch and counter, nor
\* the packager's length, nor the swap of the buffer's halves loses, repeats or
\* invents a byte, whatever the frames, resets included.
THEOREM FramesOffered == Roomy => (Spec => []OffersFrames)
<1> SUFFICES ASSUME Roomy PROVE Spec => []OffersFrames
  OBVIOUS
<1>1. IInv => OffersFrames
  BY FirstOwed DEF IInv, OffersFrames
<1> QED BY <1>1, Invariance, PTL

\* The buffer is never caught with both halves full, in which states the code
\* reads with the wrong pointer, and never asks the synchronizer to stop.
THEOREM BufferNeverBusy == Roomy => (Spec => []NeverBusy)
<1> SUFFICES ASSUME Roomy PROVE Spec => []NeverBusy
  OBVIOUS
<1>1. IInv => NeverBusy
  BY DEF IInv, BufferInv, NeverBusy, F!Waiting
<1> QED BY <1>1, Invariance, PTL
=============================================================================
