----------------------------- MODULE SymSyncProofs -----------------------------
(* Proofs about the loop of decimator and shifter, for every length of the     *)
(* pipeline, every set of rates, every threshold and every shape of a symbol.  *)
EXTENDS SymSync, TLAPS

(* The pipeline is short against the count: eleven clocks more than its stages *)
(* are one into the decimator's register and one behind it, five in the        *)
(* shifter, and what the count gains by a shift that sets in at its end.       *)
LongCounts == \A r \in RATES : STAGES + 11 <= r

(* The count has not passed the rate. *)
Counting ==
    IF en_decim THEN counter + int_shift = sr_decim_rate
    ELSE counter + int_shift < sr_decim_rate

(* Where a chip is, or the change of the line that it has caused, says how far *)
(* the count can have come since the chip was let through.                     *)
Travel ==
    /\ tvalid_d => counter <= 1
    /\ \A i \in 1..STAGES : pipe[i] # {} => counter <= i + 1
    /\ err # Sums => counter <= STAGES + 2
    /\ err_pairs # PairSums => counter <= STAGES + 3
    /\ err_sig_unscaled # Total => counter <= STAGES + 4
    /\ err_sig # Scaled => counter <= STAGES + 5
    /\ int_shift # Shift => counter <= STAGES + 6

(* Samples since the last chip are counted twice, by the code and by since. *)
Apart == IF tvalid_d THEN since >= sr_decim_rate - 3 ELSE since >= counter - 1

IInv == TypeOK /\ (~disturbed => Counting /\ Travel /\ Apart)
-------------------------------------------------------------------------------
(* The constants. *)

LEMMA Widths ==
    /\ STAGES \in Nat /\ STAGES >= 5
    /\ 2^COUNTERW \in Nat
<1>1. STAGES \in Nat /\ STAGES >= 5
    BY SymSyncAssumption, SMT DEF STAGES
<1>2. 2^COUNTERW \in Nat
    BY SymSyncAssumption, SMT
<1> QED BY <1>1, <1>2

LEMMA Rates ==
    /\ LONGEST \in Nat /\ RATES \subseteq 1..LONGEST /\ NOMINAL \in Nat \ {0}
    /\ \A r \in RATES : r < 2^COUNTERW
BY SymSyncAssumption, SMT

LEMMA MaLine == MA_LINE_MAX \in Nat \ {0}
BY SymSyncAssumption, SMT

LEMMA MinOfTwo ==
    ASSUME NEW x \in Int, NEW y \in Int
    PROVE  Min({x, y}) = IF x <= y THEN x ELSE y
BY DEF Min

LEMMA ModSmall ==
    ASSUME NEW a \in Nat, NEW b \in Nat, a < b
    PROVE  a % b = a
BY SMT

LEMMA ModInRange ==
    ASSUME NEW a \in Nat, NEW b \in Nat, b > 0
    PROVE  a % b \in 0..(b - 1)
BY SMT

(* What a phase and the error of a phase are. *)
LEMMA PhaseRange == \A x \in Int : x \in Phase <=> 0 <= x /\ x < 524288
<1> DEFINE Largest == 2^(CHIPW - 1) - 1
<1>1. Largest = 524287
    BY SMT DEF CHIPW
<1>2. Phase = 0..Largest
    BY DEF Phase
<1> HIDE DEF Largest
<1>3. Largest \in Nat
    BY <1>1, SMT
<1>4. \A x \in Int : x \in Phase <=> 0 <= x /\ x <= Largest
    BY <1>2, <1>3, SMT
<1> QED BY <1>1, <1>4, SMT

LEMMA PhaseIsInt == Phase \subseteq Int
BY SMT DEF Phase

LEMMA Phases ==
    /\ 0 \in Phase /\ ZeroPhase \in Phase
    /\ \A p \in Profiles : p \in [0..(NOMINAL - 1) -> Phase]
    /\ \A data \in Phase : Abs(symbol_ref - Abs(data)) \in Phase
<1>1. 0 \in Phase
    BY PhaseRange, SMT
<1>2. ZeroPhase \in Phase
  <2>1. ZeroPhase \in Int /\ 0 <= ZeroPhase /\ ZeroPhase < 524288
    BY SMT DEF ZeroPhase, symbol_ref
  <2> QED BY <2>1, PhaseRange
<1>3. 0..half_turn \subseteq Phase
  <2>1. half_turn \in Int /\ half_turn < 524288
    BY SMT DEF half_turn
  <2>2. \A x \in 0..half_turn : x \in Int /\ 0 <= x /\ x < 524288
    BY <2>1, SMT
  <2> QED BY <2>2, PhaseRange
<1>4. ASSUME NEW p \in Profiles
      PROVE  p \in [0..(NOMINAL - 1) -> Phase]
  <2>1. p \in [0..(NOMINAL - 1) -> 0..half_turn]
    BY <1>4, SymSyncAssumption, Zenon
  <2> QED BY <1>3, <2>1, SMT
<1>5. ASSUME NEW data \in Phase
      PROVE  Abs(symbol_ref - Abs(data)) \in Phase
  <2>1. data \in Int /\ 0 <= data /\ data < 524288
    BY PhaseRange, PhaseIsInt
  <2>2. Abs(data) = data
    BY <2>1, SMT DEF Abs
  <2>3. /\ Abs(symbol_ref - data) \in Int
        /\ 0 <= Abs(symbol_ref - data) /\ Abs(symbol_ref - data) < 524288
    BY <2>1, SMT DEF Abs, symbol_ref
  <2> QED BY <2>2, <2>3, PhaseRange
<1> QED BY <1>1, <1>2, <1>4, <1>5

LEMMA ShiftIsSmall == Shift \in 0..3
BY SMT DEF Shift
-------------------------------------------------------------------------------
(* A clock edge. *)

(* The decimator: no sample, the sample that is let through, another sample. *)
LEMMA CounterMoves ==
    ASSUME TypeOK, Counting, LongCounts, NEW valid \in BOOLEAN,
           P_DECIM_COUNTER(valid), P_TVALID_DLY(valid)
    PROVE  \/ /\ ~valid /\ ~tvalid_d'
              /\ counter' = counter /\ en_decim' = en_decim
           \/ /\ valid /\ en_decim /\ tvalid_d'
              /\ counter' = 1 /\ ~en_decim'
           \/ /\ valid /\ ~en_decim /\ ~tvalid_d'
              /\ counter' = counter + 1
              /\ en_decim' = (counter + int_shift = sr_decim_rate - 1)
<1> DEFINE width == 2^COUNTERW
<1>1. /\ counter \in Nat /\ int_shift \in 0..3
      /\ sr_decim_rate \in RATES /\ en_decim \in BOOLEAN
    BY Widths, SMT DEF TypeOK
<1>2. /\ width \in Nat /\ sr_decim_rate \in Nat /\ sr_decim_rate < width
      /\ sr_decim_rate > 11
    <2>1. sr_decim_rate \in 1..LONGEST /\ sr_decim_rate < width
        BY <1>1, Rates
    <2>2. STAGES + 11 <= sr_decim_rate
        BY <1>1 DEF LongCounts
    <2> QED BY <2>1, <2>2, Widths, Rates, SMT
<1>3. decim_counter = (counter + int_shift) % width
    BY DEF decim_counter
<1> HIDE DEF width
<1>4. counter + int_shift <= sr_decim_rate
    BY <1>1, <1>2, SMT DEF Counting
<1>5. decim_counter = counter + int_shift
    BY <1>1, <1>2, <1>3, <1>4, ModSmall, SMT
<1>6. 1 % width = 1 /\ (counter + 1) % width = IF counter + int_shift < sr_decim_rate
                                               THEN counter + 1 ELSE (counter + 1) % width
    BY <1>1, <1>2, ModSmall, SMT
<1>7. /\ en_decim' = ((en_decim \/ (valid /\ decim_counter = sr_decim_rate - 1))
                      /\ ~(/\ valid /\ ~(valid /\ decim_counter = sr_decim_rate - 1)
                           /\ decim_counter = sr_decim_rate))
      /\ counter' = IF /\ valid /\ ~(valid /\ decim_counter = sr_decim_rate - 1)
                       /\ decim_counter = sr_decim_rate
                    THEN 1 % width
                    ELSE IF valid THEN (counter + 1) % width ELSE counter
      /\ tvalid_d' = (en_decim /\ valid)
    BY Zenon DEF P_DECIM_COUNTER, P_TVALID_DLY, width
<1>8. CASE ~valid
    BY <1>7, <1>8, <1>1, Zenon
<1>9. CASE valid /\ en_decim
  <2>1. decim_counter = sr_decim_rate /\ decim_counter # sr_decim_rate - 1
    BY <1>1, <1>2, <1>5, <1>9, SMT DEF Counting
  <2> QED BY <1>1, <1>6, <1>7, <1>9, <2>1, Zenon
<1>10. CASE valid /\ ~en_decim
  <2>1. decim_counter # sr_decim_rate /\ counter + int_shift < sr_decim_rate
    BY <1>1, <1>2, <1>5, <1>10, SMT DEF Counting
  <2> QED BY <1>5, <1>6, <1>7, <1>10, <2>1, Zenon
<1> QED BY <1>8, <1>9, <1>10

(* The samples since the last chip. *)
LEMMA SinceMoves ==
    ASSUME TypeOK, NEW valid \in BOOLEAN, Edge(valid)
    PROVE  \E before \in 0..LONGEST :
             /\ before = IF tvalid_d THEN 0 ELSE since
             /\ since' = IF ~valid THEN before
                         ELSE IF before + 1 <= LONGEST THEN before + 1 ELSE LONGEST
<1> DEFINE before == IF tvalid_d THEN 0 ELSE since
<1>1. since' = IF valid THEN Min({before + 1, LONGEST}) ELSE before
    BY Zenon DEF Edge, History
<1>2. since \in 0..LONGEST
    BY Zenon DEF TypeOK
<1>3. before \in 0..LONGEST
    BY <1>2, Rates, SMT
<1> HIDE DEF before
<1>4. Min({before + 1, LONGEST}) = IF before + 1 <= LONGEST THEN before + 1 ELSE LONGEST
    BY <1>3, Rates, MinOfTwo, SMT
<1>5. since' = IF ~valid THEN before
               ELSE IF before + 1 <= LONGEST THEN before + 1 ELSE LONGEST
    BY <1>1, <1>4, Zenon
<1> QED BY <1>3, <1>5, Zenon DEF before

LEMMA EdgeTypes ==
    ASSUME TypeOK, NEW valid \in BOOLEAN, Edge(valid)
    PROVE  TypeOK'
<1>1. profile' \in Profiles /\ sr_decim_rate' \in RATES
    BY Zenon DEF TypeOK, Edge
<1>2. counter' \in 0..(2^COUNTERW - 1)
  <2> DEFINE width == 2^COUNTERW
  <2>1. width \in Nat /\ width > 0
    BY Widths, Rates, SMT DEF TypeOK
  <2>2. counter' \in {1 % width, (counter + 1) % width, counter}
    BY Zenon DEF Edge, P_DECIM_COUNTER
  <2>3. counter \in 0..(width - 1)
    BY DEF TypeOK
  <2> HIDE DEF width
  <2>4. 1 % width \in 0..(width - 1) /\ (counter + 1) % width \in 0..(width - 1)
    BY <2>1, <2>3, ModInRange, SMT
  <2>5. counter' \in 0..(width - 1)
    BY <2>2, <2>3, <2>4, Zenon
  <2> QED BY <2>5 DEF width
<1>3. en_decim' \in BOOLEAN /\ tvalid_d' \in BOOLEAN
    BY Zenon DEF Edge, P_DECIM_COUNTER, P_TVALID_DLY
<1>4. tdata_d' \in Phase
  <2>1. profile \in [0..(NOMINAL - 1) -> Phase] /\ offset \in 0..(NOMINAL - 1)
        /\ tdata_d \in Phase
    BY Phases, Zenon DEF TypeOK
  <2>2. tdata_d' \in {profile[offset], tdata_d}
    BY Zenon DEF Edge, P_TDATA_DLY
  <2> QED BY <2>1, <2>2, Zenon
<1>5. pipe' \in [1..STAGES -> SUBSET Phase]
  <2>1. pipe \in [1..STAGES -> SUBSET Phase] /\ tdata_d \in Phase /\ STAGES \in Nat
    BY Widths, Zenon DEF TypeOK
  <2>2. pipe' = [i \in 1..STAGES |->
                   IF i > 1 THEN pipe[i - 1] ELSE IF tvalid_d THEN {tdata_d} ELSE {}]
    BY Zenon DEF Edge, Pipe
  <2>3. \A i \in 1..STAGES : i > 1 => i - 1 \in 1..STAGES
    BY <2>1, SMT
  <2>4. \A i \in 1..STAGES :
          (IF i > 1 THEN pipe[i - 1] ELSE IF tvalid_d THEN {tdata_d} ELSE {})
             \in SUBSET Phase
    BY <2>1, <2>3, Zenon
  <2> QED BY <2>2, <2>4, Zenon
<1>6. ma_line' \in [0..(MA_LINE_MAX - 1) -> Phase]
  <2>1. ma_line \in [0..(MA_LINE_MAX - 1) -> Phase] /\ 0 \in Phase
    BY Phases, Zenon DEF TypeOK
  <2>2. CASE ~m_chip_tvalid
    BY <2>1, <2>2, Zenon DEF Edge, P_MA_LINE
  <2>3. CASE m_chip_tvalid
    <3> DEFINE data == CHOOSE data \in pipe[STAGES] : TRUE
               new == Abs(symbol_ref - Abs(data))
    <3>1. ma_line' = [i \in DOMAIN ma_line |->
                        IF i = 0 THEN new ELSE IF int_shift = 0 THEN ma_line[i - 1] ELSE 0]
      BY <2>3, Zenon DEF Edge, P_MA_LINE
    <3>2. new \in Phase
      <4>1. STAGES \in 1..STAGES
        BY Widths, SMT
      <4>2. pipe[STAGES] \subseteq Phase
        BY <4>1, Zenon DEF TypeOK
      <4>3. data \in pipe[STAGES]
        BY <2>3, Zenon DEF m_chip_tvalid
      <4> QED BY <4>2, <4>3, Phases, Zenon
    <3> HIDE DEF new
    <3>3. \A i \in 0..(MA_LINE_MAX - 1) : i # 0 => i - 1 \in 0..(MA_LINE_MAX - 1)
      BY MaLine, SMT
    <3>4. \A i \in DOMAIN ma_line :
            (IF i = 0 THEN new ELSE IF int_shift = 0 THEN ma_line[i - 1] ELSE 0) \in Phase
      BY <2>1, <3>2, <3>3, Zenon
    <3> QED BY <2>1, <3>1, <3>4, Zenon
  <2> QED BY <2>2, <2>3
<1>7. int_shift' \in 0..3
    BY ShiftIsSmall, Zenon DEF Edge, P_SHIFT
<1>8. offset' \in 0..(NOMINAL - 1)
  <2>1. offset' \in {(offset + 1) % NOMINAL, offset}
    BY Zenon DEF Edge, History
  <2>2. offset \in 0..(NOMINAL - 1)
    BY Zenon DEF TypeOK
  <2>3. (offset + 1) % NOMINAL \in 0..(NOMINAL - 1)
    BY <2>2, Rates, ModInRange, SMT
  <2> QED BY <2>1, <2>2, <2>3, Zenon
<1>9. since' \in 0..LONGEST
    BY SinceMoves, Rates, SMT DEF TypeOK
<1>10. disturbed' \in BOOLEAN
    BY Zenon DEF TypeOK, Edge, History
<1> QED
    BY <1>1, <1>2, <1>3, <1>4, <1>5, <1>6, <1>7, <1>8, <1>9, <1>10, Zenon DEF TypeOK, Phase

(* What is compared, once the invariant is given. *)
LEMMA CounterFacts ==
    ASSUME TypeOK, LongCounts
    PROVE  /\ counter \in Nat /\ int_shift \in 0..3 /\ since \in Nat
           /\ sr_decim_rate \in Nat /\ sr_decim_rate <= LONGEST
           /\ STAGES + 11 <= sr_decim_rate
           /\ en_decim \in BOOLEAN /\ tvalid_d \in BOOLEAN
<1>1. counter \in 0..(2^COUNTERW - 1) /\ int_shift \in 0..3 /\ since \in 0..LONGEST
    BY Zenon DEF TypeOK
<1>2. sr_decim_rate \in 1..LONGEST /\ STAGES + 11 <= sr_decim_rate
    BY Rates, Zenon DEF TypeOK, LongCounts
<1>3. en_decim \in BOOLEAN /\ tvalid_d \in BOOLEAN
    BY Zenon DEF TypeOK
<1>4. counter \in Nat
    BY <1>1, Widths, SMT
<1> QED BY <1>1, <1>2, <1>3, <1>4, Rates, SMT

(* A chip moves by one stage as the count moves by at most one, and so does    *)
(* each change that it causes in the shifter.                                  *)
LEMMA TravelStep ==
    ASSUME TypeOK, LongCounts, Counting, Travel,
           NEW valid \in BOOLEAN, Edge(valid)
    PROVE  Travel'
<1>1. counter' \in Int /\ counter' <= counter + 1 /\ (tvalid_d' => counter' = 1)
  <2>1. P_DECIM_COUNTER(valid) /\ P_TVALID_DLY(valid)
    BY Zenon DEF Edge
  <2>2. \/ counter' = counter /\ ~tvalid_d'
        \/ counter' = 1
        \/ counter' = counter + 1 /\ ~tvalid_d'
    BY <2>1, CounterMoves, Zenon
  <2> QED BY <2>2, CounterFacts, SMT
<1>2. counter \in Nat /\ STAGES \in Nat /\ STAGES >= 5
    BY CounterFacts, Widths
<1>3. tvalid_d' => counter' <= 1
    BY <1>1, SMT
<1>4. ASSUME NEW i \in 1..STAGES, pipe'[i] # {}
      PROVE  counter' <= i + 1
  <2>1. pipe'[i] = IF i > 1 THEN pipe[i - 1] ELSE IF tvalid_d THEN {tdata_d} ELSE {}
    BY <1>4, Zenon DEF Edge, Pipe
  <2>2. CASE i > 1
    <3>1. i - 1 \in 1..STAGES
        BY <1>2, <1>4, <2>2, SMT
    <3>2. pipe[i - 1] # {}
        BY <1>4, <2>1, <2>2, Zenon
    <3>3. counter <= (i - 1) + 1
        BY <3>1, <3>2, Zenon DEF Travel
    <3> QED BY <1>1, <1>2, <1>4, <3>3, SMT
  <2>3. CASE ~(i > 1)
    <3>1. tvalid_d
        BY <1>4, <2>1, <2>3, Zenon
    <3>2. counter <= 1
        BY <3>1, Zenon DEF Travel
    <3> QED BY <1>1, <1>2, <1>4, <3>2, SMT
  <2> QED BY <2>2, <2>3
<1>5. err' # Sums' => counter' <= STAGES + 2
  <2>1. SUFFICES ASSUME err' # Sums'
                 PROVE  counter' <= STAGES + 2
    OBVIOUS
  <2>2. ma_line' # ma_line
    <3>1. err' = Sums
        BY Zenon DEF Edge, P_ERROR_SIG
    <3>2. ma_line' = ma_line => Sums' = Sums
        BY Zenon DEF Sums
    <3> QED BY <2>1, <3>1, <3>2, Zenon
  <2>3. pipe[STAGES] # {}
    BY <2>2, Zenon DEF Edge, P_MA_LINE, m_chip_tvalid
  <2>4. STAGES \in 1..STAGES
    BY <1>2, SMT
  <2>5. counter <= STAGES + 1
    BY <2>3, <2>4, Zenon DEF Travel
  <2> QED BY <1>1, <1>2, <2>5, SMT
<1>6. err_pairs' # PairSums' => counter' <= STAGES + 3
  <2>1. SUFFICES ASSUME err_pairs' # PairSums'
                 PROVE  counter' <= STAGES + 3
    OBVIOUS
  <2>2. err_pairs' = PairSums /\ err' = Sums
    BY Zenon DEF Edge, P_ERROR_SIG
  <2>3. err' = err => PairSums' = PairSums
    BY Zenon DEF PairSums
  <2>4. counter <= STAGES + 2
    BY <2>1, <2>2, <2>3, Zenon DEF Travel
  <2> QED BY <1>1, <1>2, <2>4, SMT
<1>7. err_sig_unscaled' # Total' => counter' <= STAGES + 4
  <2>1. SUFFICES ASSUME err_sig_unscaled' # Total'
                 PROVE  counter' <= STAGES + 4
    OBVIOUS
  <2>2. err_sig_unscaled' = Total /\ err_pairs' = PairSums
    BY Zenon DEF Edge, P_ERROR_SIG
  <2>3. err_pairs' = err_pairs => Total' = Total
    BY Zenon DEF Total
  <2>4. counter <= STAGES + 3
    BY <2>1, <2>2, <2>3, Zenon DEF Travel
  <2> QED BY <1>1, <1>2, <2>4, SMT
<1>8. err_sig' # Scaled' => counter' <= STAGES + 5
  <2>1. SUFFICES ASSUME err_sig' # Scaled'
                 PROVE  counter' <= STAGES + 5
    OBVIOUS
  <2>2. err_sig' = Scaled /\ err_sig_unscaled' = Total
    BY Zenon DEF Edge, P_ERR_SIG, P_ERROR_SIG
  <2>3. err_sig_unscaled' = err_sig_unscaled => Scaled' = Scaled
    BY Zenon DEF Scaled
  <2>4. counter <= STAGES + 4
    BY <2>1, <2>2, <2>3, Zenon DEF Travel
  <2> QED BY <1>1, <1>2, <2>4, SMT
<1>9. int_shift' # Shift' => counter' <= STAGES + 6
  <2>1. SUFFICES ASSUME int_shift' # Shift'
                 PROVE  counter' <= STAGES + 6
    OBVIOUS
  <2>2. int_shift' = Shift /\ err_sig' = Scaled
    BY Zenon DEF Edge, P_SHIFT, P_ERR_SIG
  <2>3. err_sig' = err_sig => Shift' = Shift
    BY Zenon DEF Shift
  <2>4. counter <= STAGES + 5
    BY <2>1, <2>2, <2>3, Zenon DEF Travel
  <2> QED BY <1>1, <1>2, <2>4, SMT
<1> QED BY <1>3, <1>4, <1>5, <1>6, <1>7, <1>8, <1>9, Zenon DEF Travel

(* The shift changes early in a count only, and then the count is far from the *)
(* rate with the old shift and with the new one.                               *)
LEMMA CountingStep ==
    ASSUME TypeOK, LongCounts, Counting, Travel,
           NEW valid \in BOOLEAN, Edge(valid)
    PROVE  Counting'
<1>1. /\ int_shift' # int_shift => counter <= STAGES + 6
      /\ int_shift' \in 0..3
  <2>1. int_shift' = Shift
    BY Zenon DEF Edge, P_SHIFT
  <2>2. int_shift' # int_shift => counter <= STAGES + 6
    BY <2>1, Zenon DEF Travel
  <2> QED BY <2>1, <2>2, ShiftIsSmall, Zenon
<1>2. sr_decim_rate' = sr_decim_rate
    BY Zenon DEF Edge
<1>3. /\ counter \in Nat /\ int_shift \in 0..3 /\ STAGES \in Nat
      /\ sr_decim_rate \in Nat /\ STAGES + 11 <= sr_decim_rate
    BY CounterFacts, Widths
<1>4. IF en_decim THEN counter + int_shift = sr_decim_rate
      ELSE counter + int_shift < sr_decim_rate
    BY Zenon DEF Counting
<1>5. SUFFICES IF en_decim' THEN counter' + int_shift' = sr_decim_rate
               ELSE counter' + int_shift' < sr_decim_rate
    BY <1>2, Zenon DEF Counting
<1>6. P_DECIM_COUNTER(valid) /\ P_TVALID_DLY(valid)
    BY Zenon DEF Edge
<1>7. CASE counter' = counter /\ en_decim' = en_decim
  <2>1. CASE int_shift' = int_shift
    BY <1>4, <1>7, <2>1, Zenon
  <2>2. CASE int_shift' # int_shift
    <3>1. counter <= STAGES + 6
      BY <1>1, <2>2, Zenon
    <3>2. counter + int_shift < sr_decim_rate
      BY <1>3, <3>1, SMT
    <3>3. ~en_decim
      BY <1>4, <3>2, <1>3, SMT
    <3>4. \A shift \in 0..3 : counter + shift < sr_decim_rate
      BY <1>3, <3>1, SMT
    <3> QED BY <1>1, <1>7, <3>3, <3>4, Zenon
  <2> QED BY <2>1, <2>2
<1>8. CASE counter' = 1 /\ ~en_decim'
  <2>1. \A shift \in 0..3 : 1 + shift < sr_decim_rate
    BY <1>3, SMT
  <2> QED BY <1>1, <1>8, <2>1, Zenon
<1>9. CASE /\ ~en_decim /\ counter' = counter + 1
           /\ en_decim' = (counter + int_shift = sr_decim_rate - 1)
  <2>1. counter + int_shift < sr_decim_rate
    BY <1>4, <1>9, Zenon
  <2>2. CASE int_shift' = int_shift
    <3>1. IF counter + int_shift = sr_decim_rate - 1
          THEN counter + 1 + int_shift = sr_decim_rate
          ELSE counter + 1 + int_shift < sr_decim_rate
      BY <1>3, <2>1, SMT
    <3> QED BY <1>9, <2>2, <3>1, Zenon
  <2>3. CASE int_shift' # int_shift
    <3>1. counter <= STAGES + 6
      BY <1>1, <2>3, Zenon
    <3>2. /\ counter + int_shift # sr_decim_rate - 1
          /\ \A shift \in 0..3 : counter + 1 + shift < sr_decim_rate
      BY <1>3, <3>1, SMT
    <3> QED BY <1>1, <1>9, <3>2, Zenon
  <2> QED BY <2>2, <2>3
<1> QED BY <1>6, <1>7, <1>8, <1>9, CounterMoves, Zenon

LEMMA ApartStep ==
    ASSUME TypeOK, LongCounts, Counting, Travel, Apart,
           NEW valid \in BOOLEAN, Edge(valid)
    PROVE  Apart'
<1>1. PICK before \in 0..LONGEST :
        /\ before = IF tvalid_d THEN 0 ELSE since
        /\ since' = IF ~valid THEN before
                    ELSE IF before + 1 <= LONGEST THEN before + 1 ELSE LONGEST
    BY SinceMoves
<1>2. /\ counter \in Nat /\ int_shift \in 0..3 /\ since \in Nat /\ LONGEST \in Nat
      /\ sr_decim_rate \in Nat /\ sr_decim_rate <= LONGEST
      /\ sr_decim_rate' = sr_decim_rate
    BY CounterFacts, Rates DEF Edge
<1>3. before >= counter - 1
  <2>1. CASE tvalid_d
    <3>1. counter <= 1 /\ before = 0
      BY <1>1, <2>1, Zenon DEF Travel
    <3> QED BY <1>2, <3>1, SMT
  <2>2. CASE ~tvalid_d
    BY <1>1, <2>2, Zenon DEF Apart
  <2> QED BY <2>1, <2>2
<1>4. IF en_decim THEN counter + int_shift = sr_decim_rate
      ELSE counter + int_shift < sr_decim_rate
    BY Zenon DEF Counting
<1>5. P_DECIM_COUNTER(valid) /\ P_TVALID_DLY(valid)
    BY Zenon DEF Edge
<1>6. CASE ~valid /\ ~tvalid_d' /\ counter' = counter
  <2>1. since' >= counter' - 1
    BY <1>1, <1>3, <1>6, Zenon
  <2> QED BY <1>6, <2>1, Zenon DEF Apart
<1>7. CASE valid /\ en_decim /\ tvalid_d' /\ counter' = 1
  <2>1. since' = IF before + 1 <= LONGEST THEN before + 1 ELSE LONGEST
    BY <1>1, <1>7, Zenon
  <2>2. counter + int_shift = sr_decim_rate
    BY <1>4, <1>7, Zenon
  <2>3. since' >= sr_decim_rate' - 3
    BY <1>2, <1>3, <2>1, <2>2, SMT
  <2> QED BY <1>7, <2>3, Zenon DEF Apart
<1>8. CASE valid /\ ~en_decim /\ ~tvalid_d' /\ counter' = counter + 1
  <2>1. since' = IF before + 1 <= LONGEST THEN before + 1 ELSE LONGEST
    BY <1>1, <1>8, Zenon
  <2>2. counter + int_shift < sr_decim_rate
    BY <1>4, <1>8, Zenon
  <2>3. counter' = counter + 1
    BY <1>8, Zenon
  <2>4. since' >= counter' - 1
    BY <1>2, <1>3, <2>1, <2>2, <2>3, SMT
  <2> QED BY <1>8, <2>4, Zenon DEF Apart
<1> QED BY <1>5, <1>6, <1>7, <1>8, CounterMoves, Zenon
-------------------------------------------------------------------------------
(* The other steps. *)

LEMMA ResetTypes ==
    ASSUME TypeOK, Reset
    PROVE  TypeOK'
<1>1. pipe' \in [1..STAGES -> SUBSET Phase]
    BY Phases, SMT DEF Reset, PipeReset
<1>2. ma_line' \in [0..(MA_LINE_MAX - 1) -> Phase]
    BY Phases, Zenon DEF Reset, TypeOK
<1>3. counter' \in 0..(2^COUNTERW - 1)
    BY Widths, Rates, SMT DEF Reset, TypeOK
<1>4. int_shift' \in 0..3 /\ since' \in 0..LONGEST
    BY Rates, SMT DEF Reset
<1>5. /\ profile' \in Profiles /\ sr_decim_rate' \in RATES /\ offset' \in 0..(NOMINAL - 1)
      /\ en_decim' \in BOOLEAN /\ tvalid_d' \in BOOLEAN /\ disturbed' \in BOOLEAN
      /\ tdata_d' \in Phase
    BY Phases, Zenon DEF Reset, TypeOK
<1> QED BY <1>1, <1>2, <1>3, <1>4, <1>5, Zenon DEF TypeOK, Phase

LEMMA ResetStep ==
    ASSUME TypeOK, LongCounts, Reset
    PROVE  Counting' /\ Travel' /\ Apart'
<1>2. /\ counter' = 0 /\ int_shift' = 0 /\ ~en_decim' /\ ~tvalid_d'
      /\ sr_decim_rate' = sr_decim_rate /\ since' = LONGEST
    BY Zenon DEF Reset
<1>3. /\ sr_decim_rate \in Nat /\ STAGES \in Nat /\ sr_decim_rate > 0 /\ LONGEST \in Nat
    BY CounterFacts, Widths, Rates, SMT
<1>4. Counting'
  <2>1. counter' + int_shift' < sr_decim_rate'
    BY <1>2, <1>3, SMT
  <2> QED BY <1>2, <2>1, Zenon DEF Counting
<1>5. Travel'
  <2>1. /\ counter' <= 1 /\ counter' <= STAGES + 2 /\ counter' <= STAGES + 3
        /\ counter' <= STAGES + 4 /\ counter' <= STAGES + 5 /\ counter' <= STAGES + 6
        /\ \A i \in 1..STAGES : counter' <= i + 1
    BY <1>2, <1>3, SMT
  <2> QED BY <2>1, Zenon DEF Travel
<1>6. Apart'
  <2>1. since' >= counter' - 1
    BY <1>2, <1>3, SMT
  <2> QED BY <1>2, <2>1, Zenon DEF Apart
<1> QED BY <1>4, <1>5, <1>6

LEMMA InitTypes ==
    ASSUME Init
    PROVE  TypeOK
<1>1. pipe \in [1..STAGES -> SUBSET Phase]
    BY Zenon DEF Init
<1>2. ma_line \in [0..(MA_LINE_MAX - 1) -> Phase]
    BY Phases, Zenon DEF Init
<1>3. counter \in 0..(2^COUNTERW - 1)
    BY Widths, Rates, SMT DEF Init
<1>4. int_shift \in 0..3 /\ since \in 0..LONGEST /\ offset \in 0..(NOMINAL - 1)
    BY Rates, SMT DEF Init
<1>5. /\ profile \in Profiles /\ sr_decim_rate \in RATES
      /\ en_decim \in BOOLEAN /\ tvalid_d \in BOOLEAN /\ disturbed \in BOOLEAN
      /\ tdata_d \in Phase
    BY Phases, Zenon DEF Init
<1> QED BY <1>1, <1>2, <1>3, <1>4, <1>5, Zenon DEF TypeOK, Phase

LEMMA InitIInv ==
    ASSUME LongCounts, Init
    PROVE  IInv
<1>1. TypeOK
    BY InitTypes
<1>2. counter = 0 /\ int_shift = 0 /\ ~en_decim /\ ~tvalid_d /\ since = LONGEST
    BY Zenon DEF Init
<1>3. sr_decim_rate \in Nat /\ STAGES \in Nat /\ sr_decim_rate > 0 /\ LONGEST \in Nat
    BY <1>1, CounterFacts, Widths, Rates, SMT
<1>4. counter + int_shift < sr_decim_rate
    BY <1>2, <1>3, SMT
<1>5. /\ counter <= 1 /\ counter <= STAGES + 2 /\ counter <= STAGES + 3
      /\ counter <= STAGES + 4 /\ counter <= STAGES + 5 /\ counter <= STAGES + 6
      /\ \A i \in 1..STAGES : counter <= i + 1
    BY <1>2, <1>3, SMT
<1>6. since >= counter - 1
    BY <1>2, <1>3, SMT
<1> QED BY <1>1, <1>2, <1>4, <1>5, <1>6, Zenon DEF IInv, Counting, Travel, Apart

LEMMA NextTypes ==
    ASSUME TypeOK, [Next]_vars
    PROVE  TypeOK'
<1>1. CASE Sample
    BY <1>1, EdgeTypes DEF Sample
<1>2. CASE Gap
    BY <1>2, EdgeTypes DEF Gap
<1>3. CASE Reset
    BY <1>3, ResetTypes
<1>4. CASE SetRate
    BY <1>4, Zenon DEF SetRate, TypeOK, decimator, shifter, Phase
<1>5. CASE UNCHANGED vars
    BY <1>5, Zenon DEF vars, TypeOK, decimator, shifter, history, Phase
<1> QED BY <1>1, <1>2, <1>3, <1>4, <1>5 DEF Next

(* A change of the rate disturbs the count; only a reset settles it again. *)
LEMMA NextIInv ==
    ASSUME LongCounts, IInv, [Next]_vars
    PROVE  IInv'
<1>1. TypeOK
    BY Zenon DEF IInv
<1>2. TypeOK'
    BY <1>1, NextTypes
<1>3. SUFFICES ASSUME ~disturbed'
               PROVE  Counting' /\ Travel' /\ Apart'
    BY <1>2, Zenon DEF IInv
<1>4. ASSUME NEW valid \in BOOLEAN, Edge(valid)
      PROVE  Counting' /\ Travel' /\ Apart'
  <2>1. ~disturbed
    BY <1>3, <1>4, Zenon DEF Edge, History
  <2>2. Counting /\ Travel /\ Apart
    BY <2>1, Zenon DEF IInv
  <2> QED BY <1>1, <1>4, <2>2, CountingStep, TravelStep, ApartStep
<1>5. CASE Sample
    BY <1>4, <1>5 DEF Sample
<1>6. CASE Gap
    BY <1>4, <1>6 DEF Gap
<1>7. CASE Reset
    BY <1>1, <1>7, ResetStep
<1>8. CASE SetRate
    BY <1>3, <1>8, Zenon DEF SetRate
<1>9. CASE UNCHANGED vars
  <2>1. Counting /\ Travel /\ Apart
    BY <1>3, <1>9, Zenon DEF IInv, vars, history
  <2>2. Sums' = Sums /\ PairSums' = PairSums /\ Total' = Total /\ Scaled' = Scaled
        /\ Shift' = Shift
    BY <1>9, Zenon DEF vars, shifter, Sums, PairSums, Total, Scaled, Shift
  <2> QED BY <1>9, <2>1, <2>2, Zenon DEF vars, decimator, shifter, history,
             Counting, Travel, Apart
<1> QED BY <1>5, <1>6, <1>7, <1>8, <1>9 DEF Next
-------------------------------------------------------------------------------
(* Every register keeps its type, whatever the rates, the shape of the symbol, *)
(* the resets and the changes of the rate (P_DECIM_COUNTER and the shifter).   *)
THEOREM TypeCorrect == Spec => []TypeOK
<1>1. Init => TypeOK
    BY InitTypes
<1>2. TypeOK /\ [Next]_vars => TypeOK'
    BY NextTypes
<1> QED BY <1>1, <1>2, PTL DEF Spec

THEOREM Invariance ==
    ASSUME LongCounts
    PROVE  Spec => []IInv
<1>1. Init => IInv
    BY InitIInv
<1>2. IInv /\ [Next]_vars => IInv'
    BY NextIInv
<1> QED BY <1>1, <1>2, PTL DEF Spec

(* Unless the host has lowered the rate during the count, the count does not   *)
(* pass the rate: every shift that a chip causes, and every leftover of a      *)
(* reset, sets in while the count is low (P_DECIM_COUNTER, P_SHIFT). So it is  *)
(* for every pipeline that is short against the rates.                         *)
THEOREM NothingMissed ==
    ASSUME LongCounts
    PROVE  Spec => []NeverMissed
<1>1. IInv => NeverMissed
  <2> SUFFICES ASSUME IInv, ~disturbed
               PROVE  counter <= sr_decim_rate
    BY DEF NeverMissed
  <2>1. Counting /\ TypeOK
    BY Zenon DEF IInv
  <2> QED BY <2>1, CounterFacts, SMT DEF Counting
<1> QED BY <1>1, Invariance, PTL

(* Two samples let through are at least the rate less three apart, whatever    *)
(* gaps the samples have and whenever the shift changes.                       *)
THEOREM ChipsStayApart ==
    ASSUME LongCounts
    PROVE  Spec => []ChipsApart
<1>1. IInv => ChipsApart
    BY Zenon DEF IInv, Apart, ChipsApart
<1> QED BY <1>1, Invariance, PTL
===============================================================================
