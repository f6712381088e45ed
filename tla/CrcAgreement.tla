---------------------------- MODULE CrcAgreement ----------------------------
(***************************************************************************)
(* The FPGA's checksum register and the software's, fed the same bytes.    *)
(* Any first byte reads every entry of the FPGA's table; with the table    *)
(* equal to the software's loop, which is linear over exclusive or, both   *)
(* steps are linear, and the registers after a byte and a power of two     *)
(* span all 16 bits: a third, zero byte then settles frames of any length. *)
(***************************************************************************)
EXTENDS CrcTables

PowersOf2 == {2^i : i \in 0..7} \union {0}

VARIABLES bytes, hard, soft
vars == <<bytes, hard, soft>>

Init == bytes = <<>> /\ hard = 0 /\ soft = 0

Feed(b) == /\ bytes' = Append(bytes, b)
           /\ hard'  = NextCrc(hard, b)
           /\ soft'  = SoftNextCrc(soft, b)

FirstTwo == Len(bytes) < 2 /\ \E b \in Byte : Feed(b)
Third    == Len(bytes) = 2 /\ bytes[2] \in PowersOf2 /\ Feed(0)

Next == FirstTwo \/ Third
Spec == Init /\ [][Next]_vars

\* The FPGA and the software compute the same checksum, though one uses a table
\* over a register with the first bit on top and the other a bit loop over the
\* reflected register: a frame with dummycoord's checksum passes the FPGA.
SameChecksum == soft \in Word16 /\ hard \in Word16 /\ soft = Flip16(hard)

\* No error confined to two neighbouring bytes goes unnoticed.
ShortErrorsSeen ==
  (Len(bytes) <= 2 /\ soft = 0) => \A i \in DOMAIN bytes : bytes[i] = 0
=============================================================================
