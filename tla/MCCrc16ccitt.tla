---------------------------- MODULE MCCrc16ccitt ----------------------------
(* Frames for model checking Crc16ccitt: one payload byte, two payload     *)
(* bytes, a corrupted frame, and one too short to hold a checksum.  They   *)
(* begin alike to keep the number of states down.  Four and Bad, a long    *)
(* frame before a short one, are for an overtaking end of frame.           *)
EXTENDS Crc16ccitt

One   == <<1, 137, 17>>
Two   == <<1, 2, 202, 58>>
Four  == <<8, 9, 10, 11, 101, 58>>
Bad   == <<1, 137, 5>>
Short == <<1>>

\* A source that transmits leaves room for the checksum behind a payload.
MCFrames    == [tx \in BOOLEAN |-> IF tx THEN {One, Two} ELSE {One, Two, Bad, Short}]
LongThenBad == [tx \in BOOLEAN |-> {Four, Bad}]

\* The literals are what they are meant to be.
ASSUME GoodFrames ==
  /\ \A f \in {One, Two, Four} :
       LET n == Len(f) IN SubSeq(f, n - 1, n) = CrcBytes(SoftCrc16(SubSeq(f, 1, n - 2)))
  /\ CrcBytes(SoftCrc16(SubSeq(Bad, 1, 1))) # SubSeq(Bad, 2, 3)
=============================================================================
