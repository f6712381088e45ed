----------------------------- MODULE MCPackager -----------------------------
(* Nibbles for model checking Packager: frame lengths 0, 1 and 2, with and *)
(* without the reserved bit, either nibble of the PHR possibly doubtful.   *)
EXTENDS Packager

Doubtful  == [value |-> 1, crappy |-> TRUE]
MCLengths == [value : {0, 1, 2}, crappy : {FALSE}] \union {Doubtful}
MCHighs   == [value : {0, 8}, crappy : {FALSE}] \union {Doubtful}
MCPayload == [value : {5, 6}, crappy : {FALSE}] \union {Doubtful}
=============================================================================
