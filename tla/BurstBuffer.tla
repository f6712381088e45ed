---------------------------- MODULE BurstBuffer ----------------------------
(***************************************************************************)
(* What a burst buffer such as zluudg_ppfifo promises, without FIFOs,      *)
(* pointers or modes.  Words are collected into a burst that ends at the   *)
(* word marked last, or at LIMIT words.  A burst in which no word carried  *)
(* the skip mark is owed to the consumer, whole and in order, its last     *)
(* word marked; a burst with a mark vanishes.  A reset forgets everything. *)
(***************************************************************************)
EXTENDS Naturals, Sequences

CONSTANTS Data, LIMIT

VARIABLES
  filling,   \* the words of the unfinished burst
  dirty,     \* one of them carried the skip mark
  owed,      \* the beats the consumer has yet to see, finished bursts only
  beat,      \* the beats offered at this clock: one or none
  taken      \* the words that entered at this clock: one or none

vars == <<filling, dirty, owed, beat, taken>>

Beat == [data : Data, last : BOOLEAN]
Beats(words) == [i \in 1..Len(words) |-> [data |-> words[i], last |-> i = Len(words)]]

Init == filling = <<>> /\ dirty = FALSE /\ owed = <<>> /\ beat = <<>> /\ taken = <<>>

\* A word enters; `rest' is what is owed besides the burst it may finish.
Collect(d, last, skip, rest) ==
  LET words == Append(filling, d) IN
  IF last \/ Len(words) = LIMIT
    THEN /\ filling' = <<>> /\ dirty' = FALSE
         /\ owed' = IF dirty \/ skip THEN rest ELSE rest \o Beats(words)
    ELSE /\ filling' = words /\ dirty' = (dirty \/ skip)
         /\ owed' = rest

Keep(rest) == UNCHANGED <<filling, dirty>> /\ owed' = rest

Input(rest) ==
  \/ \E d \in Data, last, skip \in BOOLEAN :
       /\ Collect(d, last, skip, rest)
       /\ taken' = <<[data |-> d, last |-> last, skip |-> skip]>>
  \/ Keep(rest) /\ taken' = <<>>

Offer   == owed # <<>> /\ beat' = <<Head(owed)>> /\ Input(Tail(owed))
NoOffer == beat' = <<>> /\ Input(owed)
Reset   == filling' = <<>> /\ dirty' = FALSE /\ owed' = <<>> /\ beat' = <<>> /\ taken' = <<>>

Next == Offer \/ NoOffer \/ Reset

Spec == Init /\ [][Next]_vars
=============================================================================
