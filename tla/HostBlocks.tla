------------------------------ MODULE HostBlocks ------------------------------
(* What the message handlers of the software blocks softcrc and dummycoord     *)
(* make of a PDU, as functions of its bytes.                                   *)
EXTENDS CrcTables, Integers, Sequences

CONSTANTS
    pan_id, src_addr, epid,  \* the arguments of dummycoord, as bytes, low first
    short_addr_mode,
    CharMin  \* the least value of a char: the compiler's choice

ASSUME HostAssumption ==
    /\ pan_id \in [1..2 -> Byte] /\ epid \in [1..8 -> Byte]
    /\ src_addr \in [1..8 -> Byte] /\ short_addr_mode \in BOOLEAN
    /\ CharMin \in {-128, 0}

-------------------------------------------------------------------------------
(* softcrc *)

(* Receive mode: the PDUs it publishes for one of at least two bytes, which    *)
(* every frame with a checksum has. (For one without, the length would wrap.)  *)
SoftcrcRx(pdu) ==
    IF SoftCrc16(pdu) = 0 THEN <<SubSeq(pdu, 1, Len(pdu) - 2)>> ELSE <<>>

(* Transmit mode: the second byte is the checksum shifted by one bit. *)
(* Mutant: the first byte is shifted as well. *)
SoftcrcTx_BothShifted(pdu) ==
    LET crc == SoftCrc16(pdu) IN pdu \o <<(crc \div 2) % 256, (crc \div 2) % 256>>
SoftcrcTx(pdu) ==
    LET crc == SoftCrc16(pdu) IN pdu \o <<crc % 256, (crc \div 2) % 256>>

-------------------------------------------------------------------------------
(* dummycoord *)

FRAME_TYPE_MASK == 8
COMMAND_FRAME == 3
frame_type(pdu) == pdu[1] % FRAME_TYPE_MASK

(* The command is not told from a beacon request: the condition assigns it.    *)
IsAnswered(pdu) == frame_type(pdu) = COMMAND_FRAME

(* The number of a beacon is a char, with a sign or without. It is incremented *)
(* as an int that is made a char again, and sent as an unsigned byte.          *)
Char == CharMin..(CharMin + 255)
ToChar(n) == CharMin + ((n - CharMin) % 256)
ToByte(n) == n % 256
(* Mutant: the count starts again at its initial value, not at the least char. *)
NextBsn_StartsAgain(bsn) == IF bsn = CharMin + 255 THEN 1 ELSE bsn + 1
NextBsn(bsn) == ToChar(bsn + 1)

BsnIndex == 3
Beacon(bsn) ==
    <<0, IF short_addr_mode THEN 128 ELSE 192, ToByte(bsn)>>
    \o pan_id \o SubSeq(src_addr, 1, IF short_addr_mode THEN 2 ELSE 8)
    \o <<255, 207, 0, 0, 0, 32, 132>> \o epid \o <<255, 255, 255, 0>>

pub_output(pdu) == pdu \o CrcBytes(SoftCrc16(pdu))
===============================================================================
