------------------------------ MODULE Packager ------------------------------
(***************************************************************************)
(* zluudg_packager.vhd, the last stage of the receiver: it reads the frame *)
(* length from the first two nibbles after a synchronization header (the   *)
(* PHR), packs the following nibbles into bytes, marks the last byte of    *)
(* the frame, and pulses frame_done so that the detector hunts for the     *)
(* next header.  One step is one rising edge of aclk; the outputs are      *)
(* registers loaded from the state BEFORE the edge, and no reset clears    *)
(* them.                                                                   *)
(*                                                                         *)
(* heard, due and age are history variables: the nibbles of the frame that *)
(* has not ended, the bytes it owes the buffer, the clocks since a nibble. *)
(***************************************************************************)
EXTENDS Naturals, Sequences

CONSTANTS
  Lengths, Highs, Payload,   \* the nibbles decoded first, second and later in a frame
  Spacing,   \* nibbles are at least so many clocks apart
  Ready      \* the values the buffer may drive on m_outbyte_tready

Nibble  == 0..15
Decoded == [value : Nibble, crappy : BOOLEAN]   \* s_nibble_tdata(3 downto 0) and (4)

ASSUME NibblesAssumption == Lengths \union Highs \union Payload \subseteq Decoded
ASSUME SpacingAssumption == Spacing \in Nat \ {0} /\ Ready \subseteq BOOLEAN

VARIABLES
  state, byte_counter, crappy_phr,
  int_nibble,                          \* int_nibble_tdata(3 downto 0)
  lo, hi,                              \* the nibbles of m_outbyte_tdata
  m_tvalid, m_tlast, frame_done,
  heard, due, age

fsm     == <<state, byte_counter, crappy_phr, int_nibble>>
outputs == <<lo, hi, m_tvalid, m_tlast, frame_done>>
vars    == <<fsm, outputs, heard, due, age>>

State  == {"IDLE", "PHR_PART", "PHR_DONE", "PL_IDLE", "PL_PART", "PL_DONE"}
Beat   == [lo : Nibble, hi : Nibble, last : BOOLEAN]

TypeOK ==
  /\ state \in State /\ byte_counter \in 0..127 /\ crappy_phr \in BOOLEAN
  /\ int_nibble \in Nibble /\ lo \in Nibble /\ hi \in Nibble
  /\ m_tvalid \in BOOLEAN /\ m_tlast \in BOOLEAN /\ frame_done \in BOOLEAN
  /\ heard \in Seq(Decoded) /\ due \in Seq(Beat) /\ age \in 0..Spacing

RegistersInit ==
  /\ state = "IDLE" /\ byte_counter = 0 /\ crappy_phr = FALSE
  /\ int_nibble = 0 /\ lo = 0 /\ hi = 0
  /\ m_tvalid = FALSE /\ m_tlast = FALSE /\ frame_done = FALSE

Init == RegistersInit /\ heard = <<>> /\ due = <<>> /\ age = 0

-----------------------------------------------------------------------------
(* P_FSM.  A nibble is a sequence of at most one nibble: what the demapper *)
(* drives on s_nibble_tdata in a clock with s_nibble_tvalid.               *)

Some(nibble) == nibble # <<>>

Idle(nibble) ==
  /\ state = "IDLE"
  /\ \/ /\ Some(nibble)
        /\ state' = "PHR_PART" /\ crappy_phr' = nibble[1].crappy
        /\ byte_counter' = 16 * (byte_counter \div 16) + nibble[1].value
     \/ ~Some(nibble) /\ UNCHANGED <<state, byte_counter, crappy_phr>>

\* Mutants: the reserved bit counts; a crappy PHR nibble is only noticed when it is the second one.
PhrLength_FirstTrusted(nibble) ==
  IF nibble.crappy THEN 0 ELSE 16 * (nibble.value % 8) + (byte_counter % 16)

PhrLength_Reserved(nibble) ==
  IF crappy_phr \/ nibble.crappy THEN 0 ELSE 16 * nibble.value + (byte_counter % 16)

\* Bit 3 of the second nibble is reserved; a doubtful length counts as zero.
PhrLength(nibble) ==
  IF crappy_phr \/ nibble.crappy THEN 0
  ELSE 16 * (nibble.value % 8) + (byte_counter % 16)

PhrPart(nibble) ==
  /\ state = "PHR_PART"
  /\ \/ Some(nibble) /\ state' = "PHR_DONE" /\ byte_counter' = PhrLength(nibble[1])
     \/ ~Some(nibble) /\ UNCHANGED <<state, byte_counter>>
  /\ UNCHANGED crappy_phr

\* Mutant: a payload that does not start at once is given up.
PhrDone_GivesUp(nibble) ==
  /\ state = "PHR_DONE"
  /\ state' = IF Some(nibble) THEN IF byte_counter = 0 THEN "PHR_PART" ELSE "PL_PART" ELSE "IDLE"
  /\ UNCHANGED <<byte_counter, crappy_phr>>

\* A nibble that comes in the clock after a frame has ended is taken for the
\* first of a PHR, but is not loaded into byte_counter and crappy_phr.
PhrDone(nibble) ==
  /\ state = "PHR_DONE"
  /\ state' = IF byte_counter = 0 THEN IF Some(nibble) THEN "PHR_PART" ELSE "IDLE"
              ELSE IF Some(nibble) THEN "PL_PART" ELSE "PHR_DONE"
  /\ UNCHANGED <<byte_counter, crappy_phr>>

PlIdle(nibble) ==
  /\ state = "PL_IDLE"
  /\ state' = IF Some(nibble) THEN "PL_PART" ELSE "PL_IDLE"
  /\ UNCHANGED <<byte_counter, crappy_phr>>

PlPart(nibble) ==
  /\ state = "PL_PART"
  /\ \/ Some(nibble) /\ state' = "PL_DONE" /\ byte_counter' = (byte_counter + 127) % 128
     \/ ~Some(nibble) /\ UNCHANGED <<state, byte_counter>>
  /\ UNCHANGED crappy_phr

PlDone(nibble, rdy) ==
  /\ state = "PL_DONE"
  /\ state' = IF ~rdy THEN "PL_DONE"
              ELSE IF byte_counter = 0 THEN IF Some(nibble) THEN "PHR_PART" ELSE "IDLE"
              ELSE IF Some(nibble) THEN "PL_PART" ELSE "PL_IDLE"
  /\ UNCHANGED <<byte_counter, crappy_phr>>

\* Mutant: the detector is not told of a frame without a payload.
FrameDone_NotEmpty == state = "PL_DONE" /\ byte_counter = 0

FrameDone == state \in {"PHR_DONE", "PL_DONE"} /\ byte_counter = 0

\* Mutant: the last byte is sought one too early.
LastByte_TooEarly == state = "PL_DONE" /\ byte_counter = 1

LastByte == state = "PL_DONE" /\ byte_counter = 0

\* P_FSM_DECODE, from the state before the edge.
Decode ==
  /\ m_tvalid' = (state = "PL_DONE")
  /\ m_tlast' = LastByte
  /\ frame_done' = FrameDone
  /\ lo' = IF state = "PL_PART" THEN int_nibble ELSE lo
  /\ hi' = IF state = "PL_DONE" THEN int_nibble ELSE hi

\* A rising edge with areset low.
Clock(nibble, rdy) ==
  /\ \/ Idle(nibble) \/ PhrPart(nibble) \/ PhrDone(nibble)
     \/ PlIdle(nibble) \/ PlPart(nibble) \/ PlDone(nibble, rdy)
  /\ int_nibble' = IF Some(nibble) THEN nibble[1].value ELSE int_nibble
  /\ Decode

\* A rising edge with areset high.
Reset == /\ state' = "IDLE" /\ byte_counter' = 0 /\ crappy_phr' = FALSE /\ int_nibble' = 0
         /\ Decode

-----------------------------------------------------------------------------
(* A frame as IEEE 802.15.4 lays it out, nibble by nibble.                 *)

\* The payload length that a PHR gives; zero when a nibble of it is doubtful.
FrameLength(phr) ==
  IF phr[1].crappy \/ phr[2].crappy THEN 0 ELSE 16 * (phr[2].value % 8) + phr[1].value

Ends(nibbles) ==
  Len(nibbles) >= 2 /\ Len(nibbles) = 2 + 2 * FrameLength(nibbles)

\* The byte that the last two nibbles of an unfinished or finished frame make.
Completed(nibbles) ==
  LET n == Len(nibbles) IN
  IF n < 4 \/ n % 2 = 1 THEN <<>>
  ELSE << [lo |-> nibbles[n - 1].value, hi |-> nibbles[n].value, last |-> Ends(nibbles)] >>

\* What the registers still hold of a byte when a reset hits.
InFlight ==
  IF state = "PL_DONE" THEN <<[lo |-> lo, hi |-> int_nibble, last |-> LastByte]>>
  ELSE <<>>

Taken(rdy) == IF m_tvalid /\ rdy /\ due # <<>> THEN Tail(due) ELSE due

Hear(nibble, rdy) ==
  LET nibbles == heard \o nibble IN
  /\ heard' = IF Ends(nibbles) THEN <<>> ELSE nibbles
  /\ due' = Taken(rdy) \o (IF Some(nibble) THEN Completed(nibbles) ELSE <<>>)
  /\ age' = IF Some(nibble) THEN 1 ELSE IF age < Spacing THEN age + 1 ELSE age

Decodable == IF heard = <<>> THEN Lengths ELSE IF Len(heard) = 1 THEN Highs ELSE Payload

Tick ==
  \E nibble \in {<<>>} \union {<<n>> : n \in Decodable}, rdy \in Ready :
    /\ Some(nibble) => age = Spacing
    /\ Clock(nibble, rdy) /\ Hear(nibble, rdy)

ResetEdge == Reset /\ heard' = <<>> /\ due' = InFlight /\ age' = 0

Next == Tick \/ ResetEdge

Spec     == Init /\ [][Next]_vars
FairSpec == Spec /\ WF_vars(Tick)

-----------------------------------------------------------------------------
\* The bytes written to the buffer are those of the frame, in order, each once
\* and the last one marked; a frame of length zero, or with a doubtful nibble in
\* its PHR, writes none.  What a reset can leave behind is the byte in flight,
\* which the unreset output register writes into the buffer after the reset.
WritesFrame ==
  m_tvalid => due # <<>> /\ Head(due) = [lo |-> lo, hi |-> hi, last |-> m_tlast]

\* Every byte that has been received is written.
BytesWritten == (due # <<>>) ~> (due = <<>>)

\* The detector is released exactly when a frame has ended, a frame without a
\* payload included, and for one clock only, lest the next header be dropped.
ReleasedAtEnd ==
  /\ (heard = <<>>) <=> (state = "IDLE" \/ FrameDone)
  /\ frame_done => ~FrameDone
=============================================================================
