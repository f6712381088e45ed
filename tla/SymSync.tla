-------------------------------- MODULE SymSync --------------------------------
(* The symbol synchronizer: the decimator keeps one of every rate samples, the *)
(* multiplier, the arctangent and the filter turn it into a phase, and the     *)
(* shifter, if the phases are far from a quarter turn over its last symbols,   *)
(* shortens the count of the decimator until they are not. Another clock       *)
(* passes in each stage between, and the host may set the rate at any time.    *)
(*                                                                             *)
(* One step is one rising edge. What the three stages between compute is       *)
(* abstracted: a sample stands for the phase it will give, which depends on    *)
(* where in the symbol it was taken.                                           *)
EXTENDS Integers, Sequences, Functions, FiniteSetsExt

CONSTANTS
    NOMINAL,    \* samples in a symbol of the transmitter
    RATES,      \* values the host may give sr_decim_rate
    N_ITER,     \* microrotations of the arctangent (17 in the code)
    COUNTERW,   \* width of the decimation counter (16 in the code)
    MA_LINE_MAX, sr_ma_line_depth,
    sr_shift_threshold,
    Profiles,   \* phases by the offset in the symbol
    EVENTS      \* bound on the resets and changes of the rate

CHIPW == 20
symbol_ref == 205887    \* pi / 2, X"3243F"
half_turn == 411774     \* pi, the largest phase of a sample

(* Mutant: four more pipeline registers. *)
STAGES_Longer == 2 + (N_ITER + 5) + 2
(* The stages a chip passes behind the decimator: two in the multiplier,       *)
(* N_ITER + 1 in the arctangent, two in the filter.                            *)
STAGES == 2 + (N_ITER + 1) + 2

(* Bound on what is remembered of the samples since a chip. *)
LONGEST == Max(RATES)

ASSUME SymSyncAssumption ==
    /\ NOMINAL \in Nat \ {0} /\ RATES \subseteq Nat /\ NOMINAL \in RATES
    /\ N_ITER \in Nat /\ COUNTERW \in Nat \ {0} /\ 2^COUNTERW \in Nat
    /\ LONGEST \in RATES /\ \A r \in RATES : 0 < r /\ r <= LONGEST /\ r < 2^COUNTERW
    /\ MA_LINE_MAX \in {4, 8, 16} /\ sr_ma_line_depth \in 1..MA_LINE_MAX
    /\ \A p \in Profiles : p \in [0..(NOMINAL - 1) -> 0..half_turn]

VARIABLES
    profile,
    sr_decim_rate,
    counter, en_decim,
    tdata_d, tvalid_d,
    pipe,       \* for each stage the chip that is valid in it, or none
    ma_line, err, err_pairs, err_sig_unscaled, err_sig, int_shift,
    offset,     \* of the next sample in its symbol
    since,      \* samples from the one let through last, at most LONGEST
    disturbed,  \* see History
    events
decimator == <<counter, en_decim, tdata_d, tvalid_d>>
shifter == <<ma_line, err, err_pairs, err_sig_unscaled, err_sig, int_shift>>
history == <<offset, since, disturbed, events>>
vars == <<profile, sr_decim_rate, decimator, pipe, shifter, history>>

Abs(x) == IF x < 0 THEN -x ELSE x
(* Two's complement of CHIPW bits. *)
Signed(x) == ((x + 2^(CHIPW - 1)) % 2^CHIPW) - 2^(CHIPW - 1)
ShiftRight(x, n) == x \div 2^n

Init ==
    /\ profile \in Profiles
    /\ sr_decim_rate \in RATES
    /\ counter = 0 /\ en_decim = FALSE /\ tdata_d = 0 /\ tvalid_d = FALSE
    /\ ma_line = [i \in 0..(MA_LINE_MAX - 1) |-> 0]
    /\ err = <<0, 0, 0, 0>> /\ err_pairs = <<0, 0>>
    /\ err_sig_unscaled = 0 /\ err_sig = 0 /\ int_shift = 0
    /\ pipe = [i \in 1..STAGES |-> {}]
    /\ offset = 0 /\ since = LONGEST /\ disturbed = FALSE /\ events = 0

-------------------------------------------------------------------------------
(* Decimator *)

decim_counter == (counter + int_shift) % 2^COUNTERW

(* Mutant: the counter is as wide as an integer. *)
P_DECIM_COUNTER_Wide(valid) ==
    LET tick == valid /\ decim_counter = sr_decim_rate - 1
        wrap == valid /\ ~tick /\ decim_counter = sr_decim_rate
    IN /\ en_decim' = ((en_decim \/ tick) /\ ~wrap)
       /\ counter' = IF wrap THEN 1 ELSE IF valid THEN counter + 1 ELSE counter
(* Mutant: the counter saturates, so that a missed count never comes round. *)
P_DECIM_COUNTER_Saturates(valid) ==
    LET tick == valid /\ decim_counter = sr_decim_rate - 1
        wrap == valid /\ ~tick /\ decim_counter = sr_decim_rate
    IN /\ en_decim' = ((en_decim \/ tick) /\ ~wrap)
       /\ counter' = IF wrap THEN 1
                     ELSE IF valid THEN Min({counter + 1, 2^COUNTERW - 1}) ELSE counter
(* The counter is compared for equality, and runs on otherwise. *)
P_DECIM_COUNTER(valid) ==
    LET tick == valid /\ decim_counter = sr_decim_rate - 1
        wrap == valid /\ ~tick /\ decim_counter = sr_decim_rate
    IN /\ en_decim' = ((en_decim \/ tick) /\ ~wrap)
       /\ counter' = IF wrap THEN 1 % 2^COUNTERW
                     ELSE IF valid THEN (counter + 1) % 2^COUNTERW ELSE counter
P_TDATA_DLY(valid) == tdata_d' = IF valid /\ en_decim THEN profile[offset] ELSE tdata_d
(* Mutant: gaps in the samples are not looked at. *)
P_TVALID_DLY_Ungated(valid) == tvalid_d' = en_decim
P_TVALID_DLY(valid) == tvalid_d' = (en_decim /\ valid)

-------------------------------------------------------------------------------
(* Multiplier, arctangent and filter *)

Pipe == pipe' = [i \in 1..STAGES |->
                   IF i > 1 THEN pipe[i - 1] ELSE IF tvalid_d THEN {tdata_d} ELSE {}]

(* A reset leaves the valid bits of the first and the last stage as they are,  *)
(* while it clears the data. The product of zeros turns by a quarter and then  *)
(* by every angle of the table but the last.                                   *)
ZeroPhase == symbol_ref + 228479
PipeReset == pipe' = [i \in 1..STAGES |->
                        CASE i = 1 /\ pipe[1] # {} -> {ZeroPhase}
                          [] i = STAGES /\ pipe[STAGES] # {} -> {0}
                          [] OTHER -> {}]

m_chip_tvalid == pipe[STAGES] # {}

-------------------------------------------------------------------------------
(* Shifter *)

threshold == Abs(sr_shift_threshold)
boost_threshold_hi == threshold + ShiftRight(threshold, 1)
boost_threshold_lo == threshold + ShiftRight(threshold, 2)

(* Mutant: a shift is never taken back. *)
P_SHIFT_Sticky ==
    int_shift' = CASE err_sig >= boost_threshold_hi -> 3
                   [] err_sig \in boost_threshold_lo..(boost_threshold_hi - 1) -> 2
                   [] err_sig \in threshold..(boost_threshold_lo - 1) -> 1
                   [] OTHER -> int_shift
Shift ==
    CASE err_sig >= boost_threshold_hi -> 3
      [] err_sig \in boost_threshold_lo..(boost_threshold_hi - 1) -> 2
      [] err_sig \in threshold..(boost_threshold_lo - 1) -> 1
      [] OTHER -> 0
P_SHIFT == int_shift' = Shift

(* The division by the depth, for the depths the host may set. *)
fakediv_shift ==
    CASE sr_ma_line_depth = 2 -> 1 [] sr_ma_line_depth = 4 -> 2
      [] sr_ma_line_depth = 8 -> 3 [] sr_ma_line_depth = 16 -> 4 [] OTHER -> 0
Scaled == ShiftRight(err_sig_unscaled, fakediv_shift)
P_ERR_SIG == err_sig' = Scaled

P_MA_LINE ==
    ma_line' = IF ~m_chip_tvalid THEN ma_line
               ELSE [i \in DOMAIN ma_line |->
                       IF i = 0
                       THEN Abs(symbol_ref - Abs(CHOOSE data \in pipe[STAGES] : TRUE))
                       ELSE IF int_shift = 0 THEN ma_line[i - 1] ELSE 0]

(* Four sums, of a quarter of the line each, then two, then one.               *)
Quarter(q) == {i \in 0..(MA_LINE_MAX - 1) :
                  i \div (MA_LINE_MAX \div 4) = q - 1 /\ i < sr_ma_line_depth}
SumOver(line, indices) == FoldFunctionOnSet(LAMBDA x, y : x + y, 0, line, indices)
Sums == [q \in 1..4 |-> Signed(SumOver(ma_line, Quarter(q)))]
PairSums == <<Signed(err[1] + err[2]), Signed(err[3] + err[4])>>
Total == Signed(err_pairs[1] + err_pairs[2])
P_ERROR_SIG == err' = Sums /\ err_pairs' = PairSums /\ err_sig_unscaled' = Total

-------------------------------------------------------------------------------
(* History: the count is disturbed from a change of the rate to a reset.       *)

History(valid) ==
    /\ offset' = IF valid THEN (offset + 1) % NOMINAL ELSE offset
    /\ LET before == IF tvalid_d THEN 0 ELSE since
       IN since' = IF valid THEN Min({before + 1, LONGEST}) ELSE before
    /\ UNCHANGED <<disturbed, events>>

Edge(valid) ==
    /\ P_DECIM_COUNTER(valid) /\ P_TDATA_DLY(valid) /\ P_TVALID_DLY(valid)
    /\ Pipe
    /\ P_SHIFT /\ P_ERR_SIG /\ P_MA_LINE /\ P_ERROR_SIG
    /\ History(valid)
    /\ UNCHANGED <<profile, sr_decim_rate>>

Sample == Edge(TRUE)
Gap == Edge(FALSE)

Reset ==
    /\ events < EVENTS /\ events' = events + 1
    /\ PipeReset
    /\ counter' = 0 /\ en_decim' = FALSE /\ tdata_d' = 0 /\ tvalid_d' = FALSE
    /\ ma_line' = [i \in DOMAIN ma_line |-> 0]
    /\ err' = <<0, 0, 0, 0>> /\ err_pairs' = <<0, 0>>
    /\ err_sig_unscaled' = 0 /\ err_sig' = 0 /\ int_shift' = 0
    /\ disturbed' = FALSE /\ since' = LONGEST
    /\ UNCHANGED <<profile, sr_decim_rate, offset>>

SetRate ==
    /\ events < EVENTS /\ events' = events + 1
    /\ sr_decim_rate' \in RATES \ {sr_decim_rate}
    /\ disturbed' = TRUE
    /\ UNCHANGED <<profile, decimator, pipe, shifter, offset, since>>

Next == Sample \/ Gap \/ Reset \/ SetRate
Spec == Init /\ [][Next]_vars /\ WF_vars(Sample)

-------------------------------------------------------------------------------
(* Properties *)

Phase == 0..(2^(CHIPW - 1) - 1)

TypeOK ==
    /\ profile \in Profiles /\ sr_decim_rate \in RATES
    /\ counter \in 0..(2^COUNTERW - 1) /\ en_decim \in BOOLEAN
    /\ tdata_d \in Phase /\ tvalid_d \in BOOLEAN
    /\ pipe \in [1..STAGES -> SUBSET Phase]
    /\ ma_line \in [0..(MA_LINE_MAX - 1) -> Phase]
    /\ int_shift \in 0..3
    /\ offset \in 0..(NOMINAL - 1) /\ since \in 0..LONGEST
    /\ disturbed \in BOOLEAN

(* A shift that takes effect while the count nears the rate would jump over    *)
(* the two values the counter is compared with, and 2^16 samples would go by.  *)
(* The chips through the pipe, and the leftovers of a reset, come back as      *)
(* shifts early enough, unless the host has lowered the rate during the count. *)
NeverMissed == ~disturbed => counter <= sr_decim_rate

(* No sample is let through twice, nor two of one symbol, whatever gaps the    *)
(* samples have and whenever the shift changes: from one to the next are at    *)
(* least the rate less the largest shift (decimator and shifter as a loop).    *)
ChipsApart == ~disturbed /\ tvalid_d => since >= sr_decim_rate - 3

(* A missed count comes round: whatever the host and resets have done, samples *)
(* keep being let through (P_DECIM_COUNTER).                                   *)
ChipsKeepComing == []<>tvalid_d

(* With the rate of the transmitter, and at least as many good offsets as the  *)
(* largest shift is wide, the loop comes to rest where the error is below the  *)
(* threshold: "the offsetting will ultimately cause the block to perform the   *)
(* decimation at a location with a low enough error" (shifter.vhd:141-143).    *)
(* With a line of sixteen the code cannot: the sum of sixteen errors, each     *)
(* above the threshold, does not fit twenty bits.                              *)
Error == Abs(symbol_ref - Abs(tdata_d))
Locks ==
    <>[](sr_decim_rate = NOMINAL /\ ~disturbed)
        => <>[](int_shift = 0 /\ Error < threshold)
===============================================================================
