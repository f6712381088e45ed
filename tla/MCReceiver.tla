----------------------------- MODULE MCReceiver -----------------------------
(* Frames for model checking Receiver: one without a payload, one with a   *)
(* doubtful length, one of one byte, its reserved bit set or not, and one  *)
(* of two bytes.                                                           *)
EXTENDS Receiver

Clean(values) == [i \in DOMAIN values |-> [value |-> values[i], crappy |-> FALSE]]

MCFrames ==
  {Clean(<<0, 0>>), Clean(<<1, 0, 5, 6>>), Clean(<<1, 8, 5, 6>>), Clean(<<2, 0, 6, 5, 5, 7>>),
   <<[value |-> 1, crappy |-> TRUE], [value |-> 0, crappy |-> FALSE]>>}
=============================================================================
