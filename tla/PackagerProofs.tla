---------------------------- MODULE PackagerProofs ----------------------------
(* Proofs about Packager for frames of every length, whatever their nibbles.   *)
(* The buffer is ready, as Receiver finds it to be, and a nibble never follows *)
(* another in the next clock.                                                  *)
EXTENDS Packager, Integers, TLAPS

Nibbles == {<<>>} \union {<<n>> : n \in Decoded}

Undisturbed == Ready = {TRUE} /\ Spacing >= 2

(* How much of the frame the state and the counter stand for: byte_counter is  *)
(* what is left of the length that the first two nibbles give.                 *)
Left == FrameLength(heard) - byte_counter

Progress ==
    /\ state = "IDLE" => heard = <<>>
    /\ state = "PHR_PART" =>
          /\ Len(heard) = 1
          /\ byte_counter % 16 = heard[1].value /\ crappy_phr = heard[1].crappy
    /\ state = "PHR_DONE" =>
          IF byte_counter = 0 THEN heard = <<>>
          ELSE Len(heard) = 2 /\ Left = 0
    /\ state = "PL_PART" =>
          /\ byte_counter > 0 /\ Left \in Nat /\ Len(heard) = 3 + 2 * Left
          /\ int_nibble = heard[Len(heard)].value
    /\ state = "PL_IDLE" => byte_counter > 0 /\ Left \in Nat \ {0} /\ Len(heard) = 2 + 2 * Left
    /\ state = "PL_DONE" =>
          IF byte_counter = 0 THEN heard = <<>>
          ELSE Left \in Nat \ {0} /\ Len(heard) = 2 + 2 * Left

(* No nibble can come in the clock in which a byte or a frame is done.         *)
Paced ==
    /\ state = "PL_DONE" \/ FrameDone => age = 1
    /\ frame_done => ~FrameDone

(* At most one byte is owed: it is in PL_DONE first, and in the output         *)
(* registers a clock later.                                                    *)
OneByte ==
    /\ state = "PL_DONE" => ~m_tvalid /\ due = InFlight
    /\ m_tvalid => /\ state \in {"IDLE", "PL_IDLE"}
                   /\ due = <<[lo |-> lo, hi |-> hi, last |-> m_tlast]>>
    /\ state # "PL_DONE" /\ ~m_tvalid => due = <<>>

IInv == TypeOK /\ Progress /\ Paced /\ OneByte

-------------------------------------------------------------------------------
(* Sequences of nibbles. *)

LEMMA LengthBounded ==
    ASSUME NEW h \in Seq(Decoded), Len(h) >= 2
    PROVE  FrameLength(h) \in 0..127
<1>1. h[1] \in Decoded /\ h[2] \in Decoded
    OBVIOUS
<1>2. h[1].value \in 0..15 /\ h[2].value \in 0..15
    BY <1>1 DEF Decoded, Nibble
<1>3. h[2].value % 8 \in 0..7
    BY <1>2
<1>4. 16 * (h[2].value % 8) + h[1].value \in 0..127
    <2>1. \A v \in 0..7, w \in 0..15 : 16 * v + w \in 0..127
        OBVIOUS
    <2>2. h[1].value \in 0..15
        BY <1>2
    <2> QED BY <2>1, <2>2, <1>3, Zenon
<1> QED BY <1>4 DEF FrameLength

LEMMA Appended ==
    ASSUME NEW h \in Seq(Decoded), NEW n \in Decoded
    PROVE  /\ h \o <<n>> \in Seq(Decoded)
           /\ Len(h \o <<n>>) = Len(h) + 1
           /\ (h \o <<n>>)[Len(h) + 1] = n
           /\ \A i \in 1..Len(h) : (h \o <<n>>)[i] = h[i]
           /\ h \o <<n>> # <<>>
OBVIOUS

LEMMA LengthKept ==
    ASSUME NEW h \in Seq(Decoded), NEW n \in Decoded, Len(h) >= 2
    PROVE  FrameLength(h \o <<n>>) = FrameLength(h)
<1>1. (h \o <<n>>)[1] = h[1] /\ (h \o <<n>>)[2] = h[2]
    BY Appended
<1> QED BY <1>1 DEF FrameLength

LEMMA EndsAt ==
    ASSUME NEW h, FrameLength(h) \in 0..127, Len(h) \in Nat, Len(h) >= 2
    PROVE  Ends(h) <=> Len(h) = 2 + 2 * FrameLength(h)
BY DEF Ends

LEMMA CompletedType ==
    ASSUME NEW h \in Seq(Decoded)
    PROVE  Completed(h) \in Seq(Beat)
<1>1. CASE Len(h) < 4 \/ Len(h) % 2 = 1
    BY <1>1 DEF Completed
<1>2. CASE ~(Len(h) < 4 \/ Len(h) % 2 = 1)
    <2> DEFINE beat == [lo |-> h[Len(h) - 1].value, hi |-> h[Len(h)].value, last |-> Ends(h)]
    <2>1. h[Len(h) - 1] \in Decoded /\ h[Len(h)] \in Decoded
        BY <1>2
    <2>2. h[Len(h) - 1].value \in Nibble /\ h[Len(h)].value \in Nibble
        BY <2>1 DEF Decoded
    <2>3. Ends(h) \in BOOLEAN
        BY DEF Ends
    <2>4. beat \in Beat
        BY <2>2, <2>3 DEF Beat
    <2>5. Completed(h) = <<beat>>
        BY <1>2, Zenon DEF Completed
    <2> HIDE DEF beat
    <2> QED BY <2>4, <2>5
<1> QED BY <1>1, <1>2

(* What is heard is an unfinished frame. *)
LEMMA Unfinished ==
    ASSUME IInv
    PROVE  ~Ends(heard)
<1> DEFINE L == FrameLength(heard)
<1>0. heard \in Seq(Decoded) /\ Len(heard) \in Nat
    BY DEF IInv, TypeOK
<1>1. CASE Len(heard) < 2
    BY <1>0, <1>1 DEF Ends
<1>2. CASE Len(heard) >= 2
    <2>1. L \in 0..127
        BY <1>0, <1>2, LengthBounded
    <2>2. byte_counter \in 0..127 /\ heard # <<>>
        BY <1>2 DEF IInv, TypeOK
    <2>3. \/ byte_counter > 0 /\ Len(heard) = 2 + 2 * (L - byte_counter)
          \/ byte_counter > 0 /\ Len(heard) = 3 + 2 * (L - byte_counter)
        <3> HIDE DEF L
        <3>1. Left = L - byte_counter
            BY DEF L, Left
        <3>2. state \in State
            BY DEF IInv, TypeOK
        <3>3. state # "IDLE"
            BY <2>2, Zenon DEF IInv, Progress
        <3>4. state # "PHR_PART"
            <4>1. state = "PHR_PART" => Len(heard) = 1
                BY Zenon DEF IInv, Progress
            <4> QED BY <1>2, <4>1
        <3>7. CASE state = "PHR_DONE"
            <4>1. byte_counter # 0 /\ Len(heard) = 2 /\ Left = 0
                BY <2>2, <3>7, Zenon DEF IInv, Progress
            <4> QED BY <2>1, <2>2, <3>1, <4>1
        <3>5. CASE state = "PL_PART"
            BY <3>1, <3>5 DEF IInv, Progress
        <3>6. CASE state \in {"PL_IDLE", "PL_DONE"}
            BY <2>2, <3>1, <3>6 DEF IInv, Progress
        <3> QED BY <3>2, <3>3, <3>4, <3>5, <3>6, <3>7 DEF State
    <2>4. Len(heard) # 2 + 2 * L
        <3> HIDE DEF L
        <3> QED BY <1>0, <2>1, <2>2, <2>3
    <2> QED BY <2>4 DEF Ends
<1> QED BY <1>0, <1>1, <1>2

-------------------------------------------------------------------------------
(* A clock with and one without a nibble. *)

Silent == Clock(<<>>, TRUE) /\ Hear(<<>>, TRUE)
Heard(n) == age = Spacing /\ Clock(<<n>>, TRUE) /\ Hear(<<n>>, TRUE)

LEMMA Remembered ==
    ASSUME IInv, Silent
    PROVE  /\ heard' = heard /\ int_nibble' = int_nibble
           /\ due' = IF m_tvalid THEN <<>> ELSE due
           /\ age' \in 0..Spacing
<1>1. heard \o <<>> = heard
    BY DEF IInv, TypeOK
<1>2. heard' = heard
    BY <1>1, Unfinished DEF Silent, Hear
<1>3. due' = Taken(TRUE)
    <2>1. Taken(TRUE) \in Seq(Beat)
        BY DEF Taken, IInv, TypeOK
    <2> QED BY <2>1 DEF Silent, Hear, Some
<1>4. Taken(TRUE) = IF m_tvalid THEN <<>> ELSE due
    <2>1. CASE m_tvalid
        <3>1. PICK b : due = <<b>>
            BY <2>1 DEF IInv, OneByte
        <3> QED BY <2>1, <3>1 DEF Taken
    <2>2. CASE ~m_tvalid
        BY <2>2 DEF Taken
    <2> QED BY <2>1, <2>2
<1>5. age' \in 0..Spacing
    BY SpacingAssumption DEF Silent, Hear, Some, IInv, TypeOK
<1>6. int_nibble' = int_nibble
    BY DEF Silent, Clock, Some
<1> QED BY <1>2, <1>3, <1>4, <1>5, <1>6

LEMMA SilentMoves ==
    ASSUME IInv, Silent
    PROVE  /\ state' = IF FrameDone THEN "IDLE" ELSE IF state = "PL_DONE" THEN "PL_IDLE" ELSE state
           /\ byte_counter' = byte_counter /\ crappy_phr' = crappy_phr
           /\ Decode
<1>1. ~Some(<<>>)
    BY DEF Some
<1>2. Decode
    BY DEF Silent, Clock
<1>3. \/ Idle(<<>>) \/ PhrPart(<<>>) \/ PhrDone(<<>>)
      \/ PlIdle(<<>>) \/ PlPart(<<>>) \/ PlDone(<<>>, TRUE)
    BY DEF Silent, Clock
<1>4. CASE Idle(<<>>)
    BY <1>1, <1>2, <1>4 DEF Idle, FrameDone
<1>5. CASE PhrPart(<<>>)
    BY <1>1, <1>2, <1>5 DEF PhrPart, FrameDone
<1>6. CASE PhrDone(<<>>)
    BY <1>1, <1>2, <1>6 DEF PhrDone, FrameDone
<1>7. CASE PlIdle(<<>>)
    BY <1>1, <1>2, <1>7 DEF PlIdle, FrameDone
<1>8. CASE PlPart(<<>>)
    BY <1>1, <1>2, <1>8 DEF PlPart, FrameDone
<1>9. CASE PlDone(<<>>, TRUE)
    BY <1>1, <1>2, <1>9 DEF PlDone, FrameDone
<1> QED BY <1>3, <1>4, <1>5, <1>6, <1>7, <1>8, <1>9

LEMMA HeardAppended ==
    ASSUME IInv, NEW n \in Decoded, NEW nibbles, nibbles = heard \o <<n>>
    PROVE  /\ nibbles \in Seq(Decoded)
           /\ Len(heard) \in Nat /\ Len(nibbles) = Len(heard) + 1
           /\ nibbles[Len(heard) + 1] = n
           /\ \A i \in 1..Len(heard) : nibbles[i] = heard[i]
BY Appended DEF IInv, TypeOK

(* What may happen in each state that a nibble can find. *)
LEMMA HeardMoves ==
    ASSUME IInv, Undisturbed, NEW n \in Decoded, Heard(n)
    PROVE  /\ state # "PL_DONE" /\ ~FrameDone
           /\ \/ Idle(<<n>>) \/ PhrPart(<<n>>) \/ PhrDone(<<n>>)
              \/ PlIdle(<<n>>) \/ PlPart(<<n>>)
           /\ Some(<<n>>) /\ age' = 1 /\ int_nibble' = n.value /\ Decode
           /\ heard' = IF Ends(heard \o <<n>>) THEN <<>> ELSE heard \o <<n>>
           /\ due' = Completed(heard \o <<n>>)
<1>1. age # 1
    BY DEF Undisturbed, Heard
<1>2. state # "PL_DONE" /\ ~FrameDone
    BY <1>1 DEF IInv, Paced
<1>3. Some(<<n>>)
    BY DEF Some
<1>4. \/ Idle(<<n>>) \/ PhrPart(<<n>>) \/ PhrDone(<<n>>)
      \/ PlIdle(<<n>>) \/ PlPart(<<n>>)
    BY <1>2 DEF Heard, Clock, PlDone
<1>5. age' = 1 /\ heard' = IF Ends(heard \o <<n>>) THEN <<>> ELSE heard \o <<n>>
    BY <1>3 DEF Heard, Hear
<1>6. int_nibble' = n.value /\ Decode
    BY <1>3 DEF Heard, Clock
<1>7. due' = Completed(heard \o <<n>>)
    <2>1. due' = Taken(TRUE) \o Completed(heard \o <<n>>)
        BY <1>3 DEF Heard, Hear
    <2>2. Taken(TRUE) = <<>>
        <3>1. CASE m_tvalid
            <4>1. PICK b : due = <<b>>
                BY <3>1 DEF IInv, OneByte
            <4> QED BY <3>1, <4>1 DEF Taken
        <3>2. CASE ~m_tvalid
            BY <1>2, <3>2 DEF Taken, IInv, OneByte
        <3> QED BY <3>1, <3>2
    <2>3. Completed(heard \o <<n>>) \in Seq(Beat)
        BY CompletedType, Appended DEF IInv, TypeOK
    <2>4. \A s \in Seq(Beat) : <<>> \o s = s
        OBVIOUS
    <2> QED BY <2>1, <2>2, <2>3, <2>4, Zenon
<1> QED BY <1>2, <1>3, <1>4, <1>5, <1>6, <1>7

-------------------------------------------------------------------------------
(* A clock without a nibble keeps the invariant. *)

LEMMA DecodeTypes ==
    ASSUME IInv, Decode
    PROVE  /\ lo' \in Nibble /\ hi' \in Nibble
           /\ m_tvalid' \in BOOLEAN /\ m_tlast' \in BOOLEAN /\ frame_done' \in BOOLEAN
BY DEF Decode, IInv, TypeOK, LastByte, FrameDone

LEMMA SilentTypes ==
    ASSUME IInv, Silent
    PROVE  TypeOK'
<1>1. state' \in State
    BY SilentMoves DEF IInv, TypeOK, State
<1>2. due' \in Seq(Beat)
    <2>1. <<>> \in Seq(Beat) /\ due \in Seq(Beat)
        BY DEF IInv, TypeOK
    <2> QED BY <2>1, Remembered, Zenon
<1> QED BY <1>1, <1>2, SilentMoves, Remembered, DecodeTypes DEF IInv, TypeOK

LEMMA SilentProgress ==
    ASSUME IInv, Silent
    PROVE  Progress'
<1>1. heard' = heard /\ int_nibble' = int_nibble
    BY Remembered
<1>2. byte_counter' = byte_counter /\ crappy_phr' = crappy_phr
    BY SilentMoves
<1>3. Left' = Left
    BY <1>1, <1>2 DEF Left, FrameLength
<1>4. CASE FrameDone
    <2>1. state' = "IDLE"
        BY <1>4, SilentMoves
    <2>2. heard = <<>>
        BY <1>4, Zenon DEF FrameDone, IInv, Progress
    <2> QED BY <1>1, <2>1, <2>2 DEF Progress
<1>5. CASE ~FrameDone /\ state = "PL_DONE"
    <2>1. state' = "PL_IDLE"
        BY <1>5, SilentMoves
    <2>2. byte_counter # 0 /\ Left \in Nat \ {0} /\ Len(heard) = 2 + 2 * Left
        BY <1>5, Zenon DEF FrameDone, IInv, Progress
    <2>3. byte_counter > 0
        BY <2>2 DEF IInv, TypeOK
    <2> QED BY <1>1, <1>2, <1>3, <2>1, <2>2, <2>3 DEF Progress
<1>6. CASE ~FrameDone /\ state # "PL_DONE"
    <2>1. state' = state
        BY <1>6, SilentMoves
    <2>2. Progress
        BY DEF IInv
    <2> QED BY <1>1, <1>2, <1>3, <2>1, <2>2 DEF Progress
<1> QED BY <1>4, <1>5, <1>6

LEMMA SilentPaced ==
    ASSUME IInv, Silent
    PROVE  Paced'
<1>1. state' # "PL_DONE" /\ ~FrameDone'
    BY SilentMoves DEF FrameDone
<1> QED BY <1>1 DEF Paced

LEMMA SilentOneByte ==
    ASSUME IInv, Silent
    PROVE  OneByte'
<1>1. state' # "PL_DONE"
    BY SilentMoves DEF FrameDone
<1>2. CASE state = "PL_DONE"
    <2>1. ~m_tvalid /\ due = InFlight
        BY <1>2 DEF IInv, OneByte
    <2>2. due' = <<[lo |-> lo, hi |-> int_nibble, last |-> LastByte]>>
        BY <1>2, <2>1, Remembered DEF InFlight
    <2>3. lo' = lo /\ hi' = int_nibble /\ m_tlast' = LastByte /\ m_tvalid'
        BY <1>2, SilentMoves DEF Decode
    <2>4. state' \in {"IDLE", "PL_IDLE"}
        BY <1>2, SilentMoves
    <2> QED BY <1>1, <2>2, <2>3, <2>4 DEF OneByte
<1>3. CASE state # "PL_DONE"
    <2>1. m_tvalid' = FALSE
        BY <1>3, SilentMoves DEF Decode
    <2>2. due' = <<>>
        BY <1>3, Remembered DEF IInv, OneByte
    <2> QED BY <1>1, <2>1, <2>2 DEF OneByte
<1> QED BY <1>2, <1>3

-------------------------------------------------------------------------------
(* A clock with a nibble keeps the invariant, whatever the frame has come to.  *)

LEMMA HeardTypes ==
    ASSUME IInv, Undisturbed, NEW n \in Decoded, Heard(n)
    PROVE  TypeOK'
<1>1. n.value \in Nibble /\ n.crappy \in BOOLEAN
    BY DEF Decoded
<1>2. heard \o <<n>> \in Seq(Decoded) /\ <<>> \in Seq(Decoded)
    BY Appended DEF IInv, TypeOK
<1>3. heard' \in Seq(Decoded)
    BY <1>2, HeardMoves, Zenon
<1>4. due' \in Seq(Beat)
    BY <1>2, HeardMoves, CompletedType
<1>5. age' \in 0..Spacing
    <2>1. age' = 1
        BY HeardMoves
    <2> QED BY <2>1, SpacingAssumption
<1>6. state' \in State /\ byte_counter' \in 0..127 /\ crappy_phr' \in BOOLEAN
    <2>0. Some(<<n>>) /\ byte_counter \in 0..127 /\ crappy_phr \in BOOLEAN
        BY HeardMoves DEF IInv, TypeOK
    <2>1. CASE Idle(<<n>>)
        <3>1. state' = "PHR_PART" /\ crappy_phr' = n.crappy
              /\ byte_counter' = 16 * (byte_counter \div 16) + n.value
            BY <2>0, <2>1 DEF Idle
        <3>2. \A b \in 0..127, v \in 0..15 : 16 * (b \div 16) + v \in 0..127
            OBVIOUS
        <3> QED BY <1>1, <2>0, <3>1, <3>2 DEF State, Nibble
    <2>2. CASE PhrPart(<<n>>)
        <3>1. state' = "PHR_DONE" /\ byte_counter' = PhrLength(n) /\ crappy_phr' = crappy_phr
            BY <2>0, <2>2 DEF PhrPart
        <3>2. \A b \in 0..127, v \in 0..15 : 16 * (v % 8) + (b % 16) \in 0..127
            OBVIOUS
        <3>3. PhrLength(n) \in 0..127
            BY <1>1, <2>0, <3>2 DEF PhrLength, Nibble
        <3> QED BY <2>0, <3>1, <3>3 DEF State
    <2>3. CASE PhrDone(<<n>>)
        BY <2>0, <2>3 DEF PhrDone, State
    <2>4. CASE PlIdle(<<n>>)
        BY <2>0, <2>4 DEF PlIdle, State
    <2>5. CASE PlPart(<<n>>)
        BY <2>0, <2>5 DEF PlPart, State
    <2> QED BY <2>1, <2>2, <2>3, <2>4, <2>5, HeardMoves
<1> QED BY <1>1, <1>3, <1>4, <1>5, <1>6, HeardMoves, DecodeTypes DEF IInv, TypeOK

LEMMA HeardPaced ==
    ASSUME IInv, Undisturbed, NEW n \in Decoded, Heard(n)
    PROVE  Paced'
BY HeardMoves DEF Paced, Decode

(* The rest of the invariant, state by state. *)
LEMMA FirstOfPhr ==
    ASSUME IInv, Undisturbed, NEW n \in Decoded, Heard(n), Idle(<<n>>)
    PROVE  Progress' /\ OneByte'
<1>1. state = "IDLE" /\ state' = "PHR_PART" /\ crappy_phr' = n.crappy
      /\ byte_counter' = 16 * (byte_counter \div 16) + n.value
    BY HeardMoves DEF Idle
<1>2. heard = <<>>
    BY <1>1 DEF IInv, Progress
<1>3. heard \o <<n>> = <<n>>
    BY <1>2
<1>4. heard' = <<n>>
    BY <1>3, HeardMoves DEF Ends
<1>5. due' = <<>>
    BY <1>3, HeardMoves DEF Completed
<1>6. byte_counter' % 16 = n.value
    <2>1. n.value \in 0..15 /\ byte_counter \in 0..127
        BY DEF Decoded, Nibble, IInv, TypeOK
    <2>2. \A b \in 0..127, v \in 0..15 : (16 * (b \div 16) + v) % 16 = v
        OBVIOUS
    <2> QED BY <1>1, <2>1, <2>2
<1>7. ~m_tvalid'
    BY HeardMoves DEF Decode
<1>8. Progress'
    BY <1>1, <1>4, <1>6 DEF Progress
<1> QED BY <1>1, <1>5, <1>7, <1>8 DEF OneByte

LEMMA SecondOfPhr ==
    ASSUME IInv, Undisturbed, NEW n \in Decoded, Heard(n), PhrPart(<<n>>)
    PROVE  Progress' /\ OneByte'
<1>1. state = "PHR_PART" /\ state' = "PHR_DONE" /\ byte_counter' = PhrLength(n)
    BY HeardMoves DEF PhrPart
<1>2. Len(heard) = 1 /\ byte_counter % 16 = heard[1].value /\ crappy_phr = heard[1].crappy
    BY <1>1, Zenon DEF IInv, Progress
<1>3. PICK nibbles : nibbles = heard \o <<n>>
    OBVIOUS
<1>4. nibbles \in Seq(Decoded) /\ Len(nibbles) = 2 /\ nibbles[1] = heard[1] /\ nibbles[2] = n
    <2>1. /\ nibbles \in Seq(Decoded)
          /\ Len(heard) \in Nat /\ Len(nibbles) = Len(heard) + 1
          /\ nibbles[Len(heard) + 1] = n
          /\ \A i \in 1..Len(heard) : nibbles[i] = heard[i]
        BY <1>3, HeardAppended
    <2>2. Len(nibbles) = 2 /\ nibbles[2] = n
        BY <1>2, <2>1
    <2>3. 1 \in 1..Len(heard)
        BY <1>2
    <2> QED BY <2>1, <2>2, <2>3
<1>5. FrameLength(nibbles) = PhrLength(n)
    BY <1>2, <1>4 DEF FrameLength, PhrLength
<1>6. FrameLength(nibbles) \in 0..127
    <2>1. Len(nibbles) >= 2
        BY <1>4
    <2> QED BY <1>4, <2>1, LengthBounded
<1>7. heard' = IF byte_counter' = 0 THEN <<>> ELSE nibbles
    <2>0. Len(nibbles) \in Nat /\ Len(nibbles) >= 2
        BY <1>4
    <2>1. Ends(nibbles) <=> Len(nibbles) = 2 + 2 * FrameLength(nibbles)
        BY <1>6, <2>0, EndsAt
    <2>2. \A L \in 0..127 : 2 = 2 + 2 * L <=> L = 0
        OBVIOUS
    <2>3. Ends(nibbles) <=> byte_counter' = 0
        BY <1>1, <1>4, <1>5, <1>6, <2>1, <2>2, Zenon
    <2> QED BY <1>3, <2>3, HeardMoves
<1>8. due' = <<>>
    BY <1>3, <1>4, HeardMoves DEF Completed
<1>9. ~m_tvalid'
    BY <1>1, HeardMoves DEF Decode
<1>10. Progress'
    <2>1. CASE byte_counter' = 0
        BY <1>1, <1>7, <2>1 DEF Progress
    <2>2. CASE byte_counter' # 0
        <3>1. heard' = nibbles
            BY <1>7, <2>2
        <3>2. Left' = FrameLength(nibbles) - byte_counter'
            BY <3>1 DEF Left
        <3>3. Left' = 0
            BY <1>1, <1>5, <1>6, <3>2
        <3> QED BY <1>1, <1>4, <2>2, <3>1, <3>3 DEF Progress
    <2> QED BY <2>1, <2>2
<1> QED BY <1>1, <1>8, <1>9, <1>10 DEF OneByte

LEMMA PayloadAppended ==
    ASSUME IInv, NEW n \in Decoded, NEW nibbles, nibbles = heard \o <<n>>, Len(heard) >= 2
    PROVE  /\ FrameLength(nibbles) = FrameLength(heard) /\ FrameLength(heard) \in 0..127
           /\ Ends(nibbles) <=> Len(heard) + 1 = 2 + 2 * FrameLength(heard)
<1>1. heard \in Seq(Decoded)
    BY DEF IInv, TypeOK
<1>2. FrameLength(nibbles) = FrameLength(heard)
    BY <1>1, LengthKept
<1>3. FrameLength(heard) \in 0..127
    BY <1>1, LengthBounded
<1>4. Len(nibbles) = Len(heard) + 1 /\ Len(heard) \in Nat
    BY HeardAppended
<1>5. Len(nibbles) \in Nat /\ Len(nibbles) >= 2 /\ FrameLength(nibbles) \in 0..127
    BY <1>2, <1>3, <1>4
<1>6. Ends(nibbles) <=> Len(nibbles) = 2 + 2 * FrameLength(nibbles)
    BY <1>5, EndsAt
<1> QED BY <1>2, <1>3, <1>4, <1>6

(* The first nibble of a byte. *)
LEMMA FirstOfByte ==
    ASSUME IInv, Undisturbed, NEW n \in Decoded, Heard(n), PhrDone(<<n>>) \/ PlIdle(<<n>>)
    PROVE  Progress' /\ OneByte'
<1>1. state \in {"PHR_DONE", "PL_IDLE"} /\ state' = "PL_PART" /\ byte_counter' = byte_counter
    BY HeardMoves DEF PhrDone, PlIdle, FrameDone
<1>2. byte_counter # 0
    <2>1. CASE state = "PHR_DONE"
        BY <2>1, HeardMoves DEF FrameDone
    <2>2. CASE state = "PL_IDLE"
        BY <2>2 DEF IInv, Progress
    <2> QED BY <1>1, <2>1, <2>2
<1>3. byte_counter \in 1..127
    BY <1>2 DEF IInv, TypeOK
<1>4. Left \in Nat /\ Len(heard) = 2 + 2 * Left
    <2>1. CASE state = "PHR_DONE"
        <3>1. Left = 0 /\ Len(heard) = 2
            BY <1>2, <2>1, Zenon DEF IInv, Progress
        <3> QED BY <3>1
    <2>2. CASE state = "PL_IDLE"
        <3>1. Left \in Nat \ {0} /\ Len(heard) = 2 + 2 * Left
            BY <2>2, Zenon DEF IInv, Progress
        <3> QED BY <3>1
    <2> QED BY <1>1, <2>1, <2>2
<1>5. PICK nibbles : nibbles = heard \o <<n>>
    OBVIOUS
<1>6. /\ Len(heard) \in Nat /\ Len(nibbles) = Len(heard) + 1
      /\ nibbles[Len(heard) + 1] = n
    BY <1>5, HeardAppended
<1>7. Len(heard) >= 2
    BY <1>4
<1>8. /\ FrameLength(nibbles) = FrameLength(heard) /\ FrameLength(heard) \in 0..127
      /\ Ends(nibbles) <=> Len(heard) + 1 = 2 + 2 * FrameLength(heard)
    BY <1>5, <1>7, PayloadAppended
<1>9. Len(heard) + 1 # 2 + 2 * FrameLength(heard)
    <2>1. \A j \in Nat, k \in 0..127 : 2 + 2 * j + 1 # 2 + 2 * k
        OBVIOUS
    <2> QED BY <1>4, <1>8, <2>1, Zenon
<1>10. heard' = nibbles
    BY <1>5, <1>8, <1>9, HeardMoves
<1>11. Left' = Left
    <2>1. Left' = FrameLength(nibbles) - byte_counter'
        BY <1>10 DEF Left
    <2> QED BY <1>1, <1>8, <2>1 DEF Left
<1>12. due' = <<>>
    <2>1. Len(nibbles) % 2 = 1
        <3>1. \A k \in Int : (3 + 2 * k) % 2 = 1
            OBVIOUS
        <3>2. Len(nibbles) = 3 + 2 * Left
            BY <1>4, <1>6
        <3> QED BY <1>4, <3>1, <3>2
    <2> QED BY <1>5, <2>1, HeardMoves DEF Completed
<1>13. int_nibble' = nibbles[Len(nibbles)].value
    BY <1>6, HeardMoves
<1>14. ~m_tvalid'
    BY <1>1, HeardMoves DEF Decode
<1>15. Len(nibbles) = 3 + 2 * Left /\ byte_counter' > 0
    BY <1>1, <1>3, <1>4, <1>6
<1>16. Progress'
    BY <1>1, <1>4, <1>10, <1>11, <1>13, <1>15 DEF Progress
<1> QED BY <1>1, <1>12, <1>14, <1>16 DEF OneByte

(* The second one, which may be the last of the frame. *)
LEMMA SecondOfByte ==
    ASSUME IInv, Undisturbed, NEW n \in Decoded, Heard(n), PlPart(<<n>>)
    PROVE  Progress' /\ OneByte'
<1>1. state = "PL_PART" /\ state' = "PL_DONE" /\ byte_counter' = (byte_counter + 127) % 128
    BY HeardMoves DEF PlPart
<1>2. /\ byte_counter > 0 /\ Left \in Nat /\ Len(heard) = 3 + 2 * Left
      /\ int_nibble = heard[Len(heard)].value
    BY <1>1, Zenon DEF IInv, Progress
<1>3. byte_counter' = byte_counter - 1 /\ byte_counter' \in 0..126
    <2>1. byte_counter \in 1..127
        BY <1>2 DEF IInv, TypeOK
    <2>2. \A b \in 1..127 : (b + 127) % 128 = b - 1 /\ b - 1 \in 0..126
        OBVIOUS
    <2> QED BY <1>1, <2>1, <2>2
<1>4. PICK nibbles : nibbles = heard \o <<n>>
    OBVIOUS
<1>5. /\ Len(heard) \in Nat /\ Len(nibbles) = Len(heard) + 1
      /\ nibbles[Len(heard) + 1] = n
      /\ \A i \in 1..Len(heard) : nibbles[i] = heard[i]
    BY <1>4, HeardAppended
<1>6. Len(heard) >= 2 /\ Len(nibbles) = 4 + 2 * Left
    BY <1>2, <1>5
<1>7. /\ FrameLength(nibbles) = FrameLength(heard) /\ FrameLength(heard) \in 0..127
      /\ Ends(nibbles) <=> Len(heard) + 1 = 2 + 2 * FrameLength(heard)
    BY <1>4, <1>6, PayloadAppended
<1>8. Ends(nibbles) <=> byte_counter' = 0
    <2>1. byte_counter \in Int /\ Left = FrameLength(heard) - byte_counter
        BY DEF Left, IInv, TypeOK
    <2>2. \A b \in Int, f \in 0..127 :
              3 + 2 * (f - b) + 1 = 2 + 2 * f <=> b - 1 = 0
        OBVIOUS
    <2>3. Len(heard) + 1 = 2 + 2 * FrameLength(heard) <=> byte_counter - 1 = 0
        BY <1>2, <1>7, <2>1, <2>2, Zenon
    <2> QED BY <1>3, <1>7, <2>3, Zenon
<1>9. heard' = IF byte_counter' = 0 THEN <<>> ELSE nibbles
    BY <1>4, <1>8, HeardMoves
<1>10. Progress'
    <2>1. CASE byte_counter' = 0
        BY <1>1, <1>9, <2>1 DEF Progress
    <2>2. CASE byte_counter' # 0
        <3>1. heard' = nibbles
            BY <1>9, <2>2
        <3>2. Left' = FrameLength(nibbles) - byte_counter'
            BY <3>1 DEF Left
        <3>3. Left' = Left + 1
            <4>1. byte_counter \in Int /\ Left = FrameLength(heard) - byte_counter
                BY DEF Left, IInv, TypeOK
            <4>2. Left' = FrameLength(heard) - (byte_counter - 1)
                BY <1>3, <1>7, <3>2
            <4>3. \A f \in 0..127, b \in Int : f - (b - 1) = (f - b) + 1
                OBVIOUS
            <4> QED BY <1>7, <4>1, <4>2, <4>3
        <3>4. Left' \in Nat \ {0} /\ Len(nibbles) = 2 + 2 * Left'
            BY <1>2, <1>6, <3>3
        <3> QED BY <1>1, <2>2, <3>1, <3>4 DEF Progress
    <2> QED BY <2>1, <2>2
<1>11. due' = <<[lo |-> int_nibble, hi |-> n.value, last |-> Ends(nibbles)]>>
    <2>1. ~(Len(nibbles) < 4 \/ Len(nibbles) % 2 = 1)
        <3>1. \A k \in Nat : ~(4 + 2 * k < 4 \/ (4 + 2 * k) % 2 = 1)
            OBVIOUS
        <3> QED BY <1>2, <1>6, <3>1, Zenon
    <2>2. Completed(nibbles) = <<[lo |-> nibbles[Len(nibbles) - 1].value,
                                  hi |-> nibbles[Len(nibbles)].value, last |-> Ends(nibbles)]>>
        BY <2>1, Zenon DEF Completed
    <2>3. Len(nibbles) - 1 = Len(heard) /\ Len(heard) \in 1..Len(heard)
        BY <1>5, <1>6
    <2>4. nibbles[Len(nibbles) - 1] = heard[Len(heard)] /\ nibbles[Len(nibbles)] = n
        BY <1>5, <2>3
    <2>5. due' = Completed(nibbles)
        BY <1>4, HeardMoves
    <2> QED BY <1>2, <2>2, <2>4, <2>5
<1>12. lo' = int_nibble /\ int_nibble' = n.value /\ m_tvalid' = FALSE
    BY <1>1, HeardMoves DEF Decode
<1>13. LastByte' = Ends(nibbles)
    <2>1. LastByte' \in BOOLEAN /\ Ends(nibbles) \in BOOLEAN
        BY DEF LastByte, Ends
    <2>2. LastByte' <=> byte_counter' = 0
        BY <1>1 DEF LastByte
    <2> QED BY <1>8, <2>1, <2>2, Zenon
<1>14. due' = InFlight'
    BY <1>1, <1>11, <1>12, <1>13 DEF InFlight
<1> QED BY <1>1, <1>10, <1>12, <1>14 DEF OneByte

-------------------------------------------------------------------------------
(* A reset: what is left of a byte in flight is owed still. *)

LEMMA ResetKeeps ==
    ASSUME IInv, ResetEdge
    PROVE  IInv'
<1>1. /\ state' = "IDLE" /\ byte_counter' = 0 /\ crappy_phr' = FALSE /\ int_nibble' = 0
      /\ heard' = <<>> /\ due' = InFlight /\ age' = 0 /\ Decode
    BY DEF ResetEdge, Reset
<1>2. InFlight \in Seq(Beat)
    <2>1. [lo |-> lo, hi |-> int_nibble, last |-> LastByte] \in Beat
        BY DEF Beat, LastByte, IInv, TypeOK
    <2>2. <<[lo |-> lo, hi |-> int_nibble, last |-> LastByte]>> \in Seq(Beat)
        <3> DEFINE b == [lo |-> lo, hi |-> int_nibble, last |-> LastByte]
        <3>1. b \in Beat
            BY <2>1
        <3> HIDE DEF b
        <3>2. <<b>> \in Seq(Beat)
            BY <3>1
        <3> QED BY <3>2 DEF b
    <2>3. <<>> \in Seq(Beat)
        OBVIOUS
    <2> QED BY <2>2, <2>3, Zenon DEF InFlight
<1>3. TypeOK'
    <2>1. heard' \in Seq(Decoded) /\ age' \in 0..Spacing /\ int_nibble' \in Nibble
        BY <1>1, SpacingAssumption DEF Nibble
    <2>2. state' \in State /\ byte_counter' \in 0..127 /\ crappy_phr' \in BOOLEAN
        <3>1. "IDLE" \in State /\ 0 \in 0..127 /\ FALSE \in BOOLEAN
            BY DEF State
        <3> QED BY <1>1, <3>1, Zenon
    <2>3. due' \in Seq(Beat)
        BY <1>1, <1>2, Zenon
    <2>4. /\ lo' \in Nibble /\ hi' \in Nibble
          /\ m_tvalid' \in BOOLEAN /\ m_tlast' \in BOOLEAN /\ frame_done' \in BOOLEAN
        BY <1>1, DecodeTypes
    <2> QED BY <2>1, <2>2, <2>3, <2>4, Zenon DEF TypeOK
<1>4. Progress'
    BY <1>1 DEF Progress
<1>5. Paced'
    BY <1>1 DEF Paced, FrameDone
<1>6. OneByte'
    <2>1. CASE state = "PL_DONE"
        <3>1. due' = <<[lo |-> lo, hi |-> int_nibble, last |-> LastByte]>>
            BY <1>1, <2>1 DEF InFlight
        <3>2. lo' = lo /\ hi' = int_nibble /\ m_tlast' = LastByte /\ m_tvalid'
            BY <1>1, <2>1 DEF Decode
        <3> QED BY <1>1, <3>1, <3>2 DEF OneByte
    <2>2. CASE state # "PL_DONE"
        BY <1>1, <2>2 DEF Decode, InFlight, OneByte
    <2> QED BY <2>1, <2>2
<1> QED BY <1>3, <1>4, <1>5, <1>6 DEF IInv

-------------------------------------------------------------------------------
(* The theorems. *)

LEMMA Initially == Init => IInv
<1> SUFFICES ASSUME Init PROVE IInv
    OBVIOUS
<1> USE DEF Init, RegistersInit
<1>1. TypeOK
    <2>1. 0 \in 0..127 /\ 0 \in Nibble /\ 0 \in 0..Spacing
        BY SpacingAssumption DEF Nibble
    <2>2. "IDLE" \in State /\ FALSE \in BOOLEAN
        BY DEF State
    <2>3. <<>> \in Seq(Decoded) /\ <<>> \in Seq(Beat)
        OBVIOUS
    <2> QED BY <2>1, <2>2, <2>3, Zenon DEF TypeOK
<1>2. Progress /\ Paced /\ OneByte
    BY DEF Progress, Paced, FrameDone, OneByte
<1> QED BY <1>1, <1>2 DEF IInv

LEMMA TickKeeps ==
    ASSUME IInv, Undisturbed, Tick
    PROVE  IInv'
<1>1. Decodable \subseteq Decoded
    BY NibblesAssumption DEF Decodable
<1>2. PICK nibble \in {<<>>} \union {<<n>> : n \in Decodable}, rdy \in Ready :
          /\ Some(nibble) => age = Spacing
          /\ Clock(nibble, rdy) /\ Hear(nibble, rdy)
    BY Zenon DEF Tick
<1>3. rdy = TRUE
    BY DEF Undisturbed
<1>4. CASE nibble = <<>>
    <2>1. Silent
        BY <1>2, <1>3, <1>4 DEF Silent
    <2> QED BY <2>1, SilentTypes, SilentProgress, SilentPaced, SilentOneByte DEF IInv
<1>5. CASE nibble # <<>>
    <2>1. PICK n \in Decoded : nibble = <<n>>
        BY <1>1, <1>5
    <2>2. Heard(n)
        BY <1>2, <1>3, <2>1 DEF Heard, Some
    <2>3. Progress' /\ OneByte'
        BY <2>2, HeardMoves, FirstOfPhr, SecondOfPhr, FirstOfByte, SecondOfByte
    <2> QED BY <2>2, <2>3, HeardTypes, HeardPaced DEF IInv
<1> QED BY <1>4, <1>5

LEMMA StutterKeeps == IInv /\ UNCHANGED vars => IInv'
<1> SUFFICES ASSUME IInv, UNCHANGED vars PROVE IInv'
    OBVIOUS
<1> USE DEF vars, fsm, outputs, IInv
<1>1. TypeOK'
    BY DEF TypeOK
<1>2. Progress'
    BY DEF Progress, Left, FrameLength
<1>3. Paced'
    BY DEF Paced, FrameDone
<1>4. OneByte'
    BY DEF OneByte, InFlight, LastByte
<1> QED BY <1>1, <1>2, <1>3, <1>4

(* IInv holds in every state of the packager, with resets at any time          *)
(* (P_FSM, P_FSM_DECODE, P_INT_NIBBLE).                                        *)
THEOREM Invariance ==
    ASSUME Undisturbed
    PROVE  Spec => []IInv
<1>1. IInv /\ [Next]_vars => IInv'
    BY TickKeeps, ResetKeeps, StutterKeeps DEF Next
<1> QED BY <1>1, Initially, PTL DEF Spec

(* The registers stay in their ranges, and so does what is remembered of the   *)
(* frame and owed to the buffer (zluudg_packager.vhd).                         *)
THEOREM TypeCorrect ==
    ASSUME Undisturbed
    PROVE  Spec => []TypeOK
<1>1. IInv => TypeOK
    BY DEF IInv
<1> QED BY <1>1, Invariance, PTL

(* For frames of every length and nibbles at any pace but back to back, what   *)
(* is written to the buffer are the bytes of the frame, the last one marked    *)
(* (P_FSM_DECODE); byte_counter never wraps, or there would be more of them.   *)
THEOREM FrameWritten ==
    ASSUME Undisturbed
    PROVE  Spec => []WritesFrame
<1>1. IInv => WritesFrame
    <2> SUFFICES ASSUME IInv, m_tvalid
                 PROVE  due # <<>> /\ Head(due) = [lo |-> lo, hi |-> hi, last |-> m_tlast]
        BY DEF WritesFrame
    <2> DEFINE beat == [lo |-> lo, hi |-> hi, last |-> m_tlast]
    <2>1. due = <<beat>>
        BY DEF IInv, OneByte
    <2> HIDE DEF beat
    <2>2. due # <<>> /\ Head(due) = beat
        BY <2>1
    <2> QED BY <2>2 DEF beat
<1> QED BY <1>1, Invariance, PTL

(* The detector is released at the end of every frame, also of one without a   *)
(* payload, and for one clock only (frame_done).                               *)
THEOREM DetectorReleased ==
    ASSUME Undisturbed
    PROVE  Spec => []ReleasedAtEnd
<1>1. IInv => ReleasedAtEnd
    <2> SUFFICES ASSUME IInv PROVE ReleasedAtEnd
        OBVIOUS
    <2>1. frame_done => ~FrameDone
        BY DEF IInv, Paced
    <2>2. state = "IDLE" \/ FrameDone => heard = <<>>
        BY Zenon DEF IInv, Progress, FrameDone
    <2>3. ~(state = "IDLE" \/ FrameDone) => heard # <<>>
        <3> SUFFICES ASSUME state # "IDLE", ~FrameDone, heard = <<>>
                     PROVE  FALSE
            BY Zenon
        <3>1. Len(heard) = 0 /\ state \in State
            BY DEF IInv, TypeOK
        <3>2. CASE state = "PHR_PART"
            <4>1. Len(heard) = 1
                BY <3>2, Zenon DEF IInv, Progress
            <4> QED BY <3>1, <4>1
        <3>3. CASE state = "PHR_DONE"
            <4>1. Len(heard) = 2
                BY <3>3, Zenon DEF IInv, Progress, FrameDone
            <4> QED BY <3>1, <4>1
        <3>4. CASE state = "PL_PART"
            <4>1. Left \in Nat /\ Len(heard) = 3 + 2 * Left
                BY <3>4, Zenon DEF IInv, Progress
            <4> QED BY <3>1, <4>1
        <3>5. CASE state \in {"PL_IDLE", "PL_DONE"}
            <4>1. state = "PL_DONE" => byte_counter # 0
                BY DEF FrameDone
            <4>2. Left \in Nat \ {0} /\ Len(heard) = 2 + 2 * Left
                BY <3>5, <4>1 DEF IInv, Progress
            <4> QED BY <3>1, <4>2
        <3> QED BY <3>1, <3>2, <3>3, <3>4, <3>5 DEF State
    <2> QED BY <2>1, <2>2, <2>3, Zenon DEF ReleasedAtEnd
<1> QED BY <1>1, Invariance, PTL
===============================================================================
