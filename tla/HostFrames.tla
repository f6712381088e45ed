------------------------------ MODULE HostFrames ------------------------------
(* Frames of the host: those that CrcAgreement builds byte by byte, and the    *)
(* beacons with which dummycoord answers what softcrc lets through. Each is    *)
(* fed to the FPGA's register and to the software's.                           *)
EXTENDS CrcAgreement, HostBlocks

CONSTANTS
    Received,  \* PDUs the radio may hand to softcrc, checksum included
    REQUESTS   \* bound on the commands that are heard

(* Shorter PDUs than these: see SoftcrcRx. *)
ASSUME FramesAssumption ==
    /\ \A pdu \in Received : pdu \in Seq(Byte) /\ Len(pdu) >= 3
    /\ REQUESTS \in Nat

VARIABLES
    _macBsn,
    requests   \* history: the commands heard undamaged so far
hostVars == <<vars, _macBsn, requests>>

HostInit == Init /\ _macBsn = 1 /\ requests = 0

Build == Next /\ UNCHANGED <<_macBsn, requests>>

(* (A function is applied for the reason given at SoftNextCrc.) *)
HardCrc16(pdu) ==
    LET after[i \in 0..Len(pdu)] ==
          IF i = 0 THEN 0 ELSE [crc \in Word16 |-> NextCrc(crc, pdu[i])][after[i - 1]]
    IN after[Len(pdu)]

(* A beacon is longer than what is built byte by byte. *)
Sent == Len(bytes) > 3

(* handle_pdu of softcrc and then of dummycoord: a beacon, or nothing.         *)
Handle(pdu) ==
    IF \E i \in DOMAIN SoftcrcRx(pdu) : IsAnswered(SoftcrcRx(pdu)[i])
    THEN /\ bytes' = Beacon(_macBsn)
         /\ hard' = HardCrc16(Beacon(_macBsn)) /\ soft' = SoftCrc16(Beacon(_macBsn))
         /\ _macBsn' = NextBsn(_macBsn)
    ELSE UNCHANGED <<vars, _macBsn>>

(* What the history counts: a command that the checksum of the FPGA, another   *)
(* algorithm than that of softcrc, finds undamaged.                            *)
IsRequest(pdu) == HardCrc16(pdu) = 0 /\ pdu[1] % 8 = 3

Receive ==
    /\ bytes = <<>> \/ Sent
    /\ requests < REQUESTS
    /\ \E pdu \in Received :
          /\ Handle(pdu)
          /\ requests' = requests + (IF IsRequest(pdu) THEN 1 ELSE 0)

HostNext == Build \/ Receive
HostSpec == HostInit /\ [][HostNext]_hostVars

-------------------------------------------------------------------------------
(* Properties *)

(* What a block of the host has sent with pub_output goes through the receive  *)
(* mode of softcrc, which takes away the checksum and nothing else.            *)
SentIsReceived == SoftcrcRx(pub_output(bytes)) = <<bytes>>

(* A frame from the transmit mode of softcrc passes its own receive mode only  *)
(* if the second byte of the checksum happens to be the middle of it, where    *)
(* the code takes it from (softcrc_impl.cc:79); it is never taken for another. *)
OwnModeRejects ==
    LET middle == (soft \div 2) % 256
    IN SoftcrcRx(SoftcrcTx(bytes)) = IF middle = soft \div 256 THEN <<bytes>> ELSE <<>>

(* The last beacon carries the number of undamaged commands heard so far,      *)
(* modulo 256, although the counter is a char that may have a sign: no number  *)
(* is skipped or used twice where it passes 127 or 255, and a damaged frame or *)
(* one of another type uses up none (dummycoord_impl.cc:130-131,               *)
(* softcrc_impl.cc:68).                                                        *)
BeaconsNumbered ==
    /\ Sent <=> requests > 0
    /\ Sent => bytes[BsnIndex] = requests % 256
===============================================================================
