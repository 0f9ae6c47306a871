---------------------------- MODULE VisionProofs -----------------------------
(***************************************************************************)
(* Proofs about find_transition_line, for frames of every size.            *)
(*                                                                         *)
(* IndInv joins what the phases hand on: the scan the peaks, the sort      *)
(* their order and the quartiles (SortInv), the filter what it kept        *)
(* (FilterInv), and the steering the effort that belongs to the line       *)
(* (SteerInv).  Two arguments count elements, as there is no induction     *)
(* over the columns: a sorted order is a permutation because ranks are     *)
(* distinct, and the filter in place keeps what it should because Kept     *)
(* counts it.                                                              *)
(***************************************************************************)
EXTENDS Vision, FiniteSetTheorems, SequenceTheorems, TLAPS

-----------------------------------------------------------------------------
(* The knife's speed.                                                      *)

\* Integer division keeps the order.
LEMMA DivMonotone ==
    ASSUME NEW x \in Nat, NEW y \in Nat, x <= y
    PROVE  x \div FULL_SPEED_PX <= y \div FULL_SPEED_PX
BY DEF FULL_SPEED_PX

\* So does a product.
LEMMA ProductMonotone ==
    ASSUME NEW x \in Nat, NEW y \in Nat, NEW g \in Nat, x <= y
    PROVE  x * g \in Nat /\ y * g \in Nat /\ x * g <= y * g
<1>1. PICK d \in Nat : y = x + d
  BY y - x \in Nat
<1>2. y * g = x * g + d * g /\ d * g \in Nat /\ x * g \in Nat
  BY <1>1
<1> QED BY <1>2

\* calculate_knife_speed: the further off, the faster, and never more than a byte.
LEMMA SpeedMonotone ==
    ASSUME NEW d \in Int, NEW e \in Int, NEW gain \in Nat, Abs(d) <= Abs(e)
    PROVE  /\ KnifeSpeed(d, gain) \in 0 .. 255
           /\ KnifeSpeed(d, gain) <= KnifeSpeed(e, gain)
<1> DEFINE g == (gain * 255) \div 10
           x == Abs(d) * g
           y == Abs(e) * g
<1>1. g \in Nat /\ Abs(d) \in Nat /\ Abs(e) \in Nat
  BY DEF Abs
<1> HIDE DEF g
<1>2. x \in Nat /\ y \in Nat /\ x <= y
  BY <1>1, ProductMonotone
<1> HIDE DEF x, y
<1>3. /\ x \div FULL_SPEED_PX \in Int /\ y \div FULL_SPEED_PX \in Int
      /\ x \div FULL_SPEED_PX <= y \div FULL_SPEED_PX
  BY <1>2, DivMonotone DEF FULL_SPEED_PX
<1>4. /\ KnifeSpeed(d, gain) = Clamp(x \div FULL_SPEED_PX, 0, 255)
      /\ KnifeSpeed(e, gain) = Clamp(y \div FULL_SPEED_PX, 0, 255)
  BY DEF KnifeSpeed, g, x, y
<1> QED BY <1>3, <1>4 DEF Clamp

\* The parameters are natural numbers.
LEMMA ParamsType ==
    ASSUME NEW p \in ControlParams
    PROVE  p.zero_line \in Nat /\ p.gain \in Nat /\ p.speed \in Nat
<1>1. p.zero_line \in ZeroLines /\ p.gain \in Gains /\ p.speed \in Speeds
  BY DEF ControlParams
<1>2. ZeroLines \subseteq Nat /\ Gains \subseteq 0 .. 100 /\ Speeds \subseteq Nat
  BY VisionAssumption
<1>3. p.zero_line \in Nat /\ p.speed \in Nat
  BY <1>1, <1>2
<1>4. p.gain \in 0 .. 100
  BY <1>1, <1>2
<1> QED BY <1>3, <1>4

\* The control effort is within the range of the motors.
LEMMA EffortType ==
    ASSUME NEW line \in 0 .. HEIGHT - 1, NEW p \in ControlParams
    PROVE  /\ EffortFor(line, p).knife \in {"Hold", "Up", "Down"}
           /\ EffortFor(line, p).speed \in 0 .. 255
           /\ EffortFor(line, p).line = line
           /\ EffortFor(line, p).translation \in 0 .. VISION_MAX_VEL_LIN
<1>1. p.zero_line \in Nat /\ p.gain \in Nat /\ p.speed \in Nat /\ line \in Nat
  BY ParamsType, VisionAssumption
<1>2. KnifeSpeed(p.zero_line - line, p.gain) \in 0 .. 255
  <2> DEFINE d == p.zero_line - line
  <2>1. d \in Int /\ Abs(d) <= Abs(d)
    BY <1>1 DEF Abs
  <2> HIDE DEF d
  <2>2. KnifeSpeed(d, p.gain) \in 0 .. 255
    BY <1>1, <2>1, SpeedMonotone
  <2> QED BY <2>2 DEF d
<1>3. EffortFor(line, p).knife \in {"Hold", "Up", "Down"}
  BY DEF EffortFor
<1>4. EffortFor(line, p).speed \in 0 .. 255
  BY <1>2 DEF EffortFor
<1>5. EffortFor(line, p).translation \in 0 .. VISION_MAX_VEL_LIN
  BY <1>1 DEF EffortFor, Feed, Clamp, LEAD, CONTROL_LEAD_MAX, VISION_MAX_VEL_LIN
<1> QED BY <1>3, <1>4, <1>5 DEF EffortFor

\* The knife goes towards the zero line, and not slower from further away.
LEMMA EffortCloses ==
    ASSUME NEW line \in Nat, NEW p \in ControlParams
    PROVE  LET delta == p.zero_line - line
               e == EffortFor(line, p)
           IN /\ e.knife = "Up" => delta > 0
              /\ e.knife = "Down" => delta < 0
              /\ e.knife = "Hold" => delta \in -DEAD_ZONE_ROWS .. DEAD_ZONE_ROWS
              /\ \A further \in 0 .. 240 :
                  Abs(p.zero_line - further) >= Abs(delta) => EffortFor(further, p).speed >= e.speed
<1> DEFINE delta == p.zero_line - line
           e == EffortFor(line, p)
<1>1. p.zero_line \in Nat /\ p.gain \in Nat /\ delta \in Int
  BY ParamsType
<1>2. /\ e.knife = "Up" => delta > 0
      /\ e.knife = "Down" => delta < 0
      /\ e.knife = "Hold" => delta \in -DEAD_ZONE_ROWS .. DEAD_ZONE_ROWS
  BY <1>1 DEF EffortFor, Abs, DEAD_ZONE_ROWS
<1>3. ASSUME NEW further \in 0 .. 240, Abs(p.zero_line - further) >= Abs(delta)
      PROVE  EffortFor(further, p).speed >= e.speed
  <2> DEFINE far == p.zero_line - further
  <2>1. /\ far \in Int /\ Abs(far) \in Int /\ Abs(delta) \in Int
        /\ Abs(delta) <= Abs(far) /\ Abs(far) <= Abs(far)
    BY <1>1, <1>3 DEF Abs
  <2>2. /\ e.speed = IF Abs(delta) <= DEAD_ZONE_ROWS THEN 0 ELSE KnifeSpeed(delta, p.gain)
        /\ EffortFor(further, p).speed =
              IF Abs(far) <= DEAD_ZONE_ROWS THEN 0 ELSE KnifeSpeed(far, p.gain)
    BY DEF EffortFor
  <2> HIDE DEF far, delta, e
  <2>3. /\ KnifeSpeed(far, p.gain) \in 0 .. 255
        /\ KnifeSpeed(delta, p.gain) \in 0 .. 255
        /\ KnifeSpeed(delta, p.gain) <= KnifeSpeed(far, p.gain)
    BY <1>1, <2>1, SpeedMonotone
  <2> QED BY <2>1, <2>2, <2>3 DEF DEAD_ZONE_ROWS
<1> QED BY <1>2, <1>3

-----------------------------------------------------------------------------
(* Sorting.                                                                *)

\* The peak of a column.
Peaks == [value : 0 .. 255, row_idx : 0 .. HEIGHT - 1]

\* The place of column c in the sorted order, counted from 0.
Rank(c) == Cardinality({d \in Columns : Before(d, c)})

\* The same elements, each as often.
SamePeaks(s, t) ==
    \A p : Cardinality({c \in Columns : s[c] = p}) = Cardinality({c \in Columns : t[c] = p})

\* Sorted by value.
Ordered(s) == \A i, j \in Columns : i < j => s[i].value <= s[j].value

\* The columns can be counted.
LEMMA ColumnsFinite ==
    /\ IsFiniteSet(Columns) /\ Cardinality(Columns) = WIDTH
    /\ \A S \in SUBSET Columns : IsFiniteSet(S) /\ Cardinality(S) \in Nat
<1>1. IsFiniteSet(Columns) /\ Cardinality(Columns) = WIDTH
  BY VisionAssumption, FS_Interval DEF Columns
<1>2. ASSUME NEW S \in SUBSET Columns
      PROVE  IsFiniteSet(S) /\ Cardinality(S) \in Nat
  BY <1>1, FS_Subset, FS_CardinalityType
<1> QED BY <1>1, <1>2

\* Reading an array through a permutation of its indices loses and doubles
\* nothing.
LEMMA PermutedPeaks ==
    ASSUME NEW f \in Bijection(Columns, Columns), NEW s, NEW t,
           \A c \in Columns : t[c] = s[f[c]]
    PROVE  SamePeaks(s, t)
<1> SUFFICES ASSUME NEW p
             PROVE  Cardinality({c \in Columns : s[c] = p}) = Cardinality({c \in Columns : t[c] = p})
  BY DEF SamePeaks
<1> DEFINE A == {c \in Columns : s[c] = p}
           B == {c \in Columns : t[c] = p}
           g == [c \in B |-> f[c]]
<1>1. f \in [Columns -> Columns]
      /\ (\A c, d \in Columns : f[c] = f[d] => c = d)
      /\ (\A c \in Columns : \E d \in Columns : f[d] = c)
  BY DEF Bijection, Injection, Surjection, IsInjective
<1>2. g \in [B -> A]
  BY <1>1
<1>3. g \in Injection(B, A)
  BY <1>1, <1>2 DEF Injection, IsInjective
<1>4. g \in Surjection(B, A)
  BY <1>1, <1>2 DEF Surjection
<1>5. ExistsBijection(B, A)
  BY <1>3, <1>4 DEF ExistsBijection, Bijection
<1>6. IsFiniteSet(B)
  BY ColumnsFinite
<1> HIDE DEF A, B
<1>7. Cardinality(A) = Cardinality(B)
  BY <1>5, <1>6, FS_Bijection
<1> QED BY <1>7 DEF A, B

\* Before is a strict total order of the columns.
LEMMA BeforeIsOrder ==
    ASSUME peaks \in [Columns -> Peaks]
    PROVE  /\ \A c \in Columns : ~Before(c, c)
           /\ \A c, d \in Columns : c # d => Before(c, d) \/ Before(d, c)
           /\ \A c, d, e \in Columns : Before(c, d) /\ Before(d, e) => Before(c, e)
<1>1. \A c \in Columns : c \in Int
  BY VisionAssumption DEF Columns
<1>2. \A c \in Columns : peaks[c].value \in Int
  BY DEF Peaks
<1> QED BY <1>1, <1>2 DEF Before

\* What comes later has a higher rank.
LEMMA RankGrows ==
    ASSUME peaks \in [Columns -> Peaks], NEW c \in Columns, NEW d \in Columns, Before(c, d)
    PROVE  Rank(c) < Rank(d)
<1> DEFINE A == {e \in Columns : Before(e, c)}
           B == {e \in Columns : Before(e, d)}
<1>1. A \subseteq B /\ c \in B /\ c \notin A
  BY BeforeIsOrder
<1>2. IsFiniteSet(B) /\ Cardinality(A) \in Nat /\ Cardinality(B) \in Nat
  BY ColumnsFinite
<1> HIDE DEF A, B
<1>3. Cardinality(A) <= Cardinality(B) /\ Cardinality(A) # Cardinality(B)
  BY <1>1, <1>2, FS_Subset
<1>4. Cardinality(A) < Cardinality(B)
  BY <1>2, <1>3
<1> QED BY <1>4 DEF A, B, Rank

\* The ranks are the numbers from 0, each once.
LEMMA RanksCover ==
    ASSUME peaks \in [Columns -> Peaks], NEW i \in Columns
    PROVE  \E c \in Columns : Rank(c) = i - 1
<1> DEFINE f == [c \in Columns |-> Rank(c)]
           T == 0 .. WIDTH - 1
<1>1. ASSUME NEW c \in Columns
      PROVE  Rank(c) \in T
  <2> DEFINE A == {e \in Columns : Before(e, c)}
  <2>1. A \subseteq Columns \ {c}
    BY BeforeIsOrder
  <2>2. IsFiniteSet(Columns \ {c}) /\ Cardinality(Columns \ {c}) = WIDTH - 1
    BY ColumnsFinite, FS_RemoveElement
  <2>3. Cardinality(A) \in Nat
    BY ColumnsFinite
  <2> HIDE DEF A
  <2>4. Cardinality(A) <= WIDTH - 1
    BY <2>1, <2>2, FS_Subset
  <2>5. Cardinality(A) \in 0 .. WIDTH - 1
    BY <2>3, <2>4, VisionAssumption
  <2> QED BY <2>5 DEF A, Rank
<1>2. ASSUME NEW c \in Columns, NEW d \in Columns, Rank(c) = Rank(d)
      PROVE  c = d
  <2>1. Rank(c) \in Int
    BY <1>1, VisionAssumption
  <2>2. ~Before(c, d) /\ ~Before(d, c)
    BY <1>2, <2>1, RankGrows
  <2> QED BY <2>2, BeforeIsOrder
<1>3. f \in Injection(Columns, T)
  BY <1>1, <1>2 DEF Injection, IsInjective
<1>4. IsFiniteSet(T) /\ Cardinality(T) = WIDTH
  BY VisionAssumption, FS_Interval
<1> HIDE DEF T
<1>5. f \in Surjection(Columns, T)
  BY <1>3, <1>4, ColumnsFinite, FS_Injection
<1>6. i - 1 \in T
  BY VisionAssumption DEF Columns, T
<1>7. \E c \in Columns : f[c] = i - 1
  BY <1>5, <1>6 DEF Surjection
<1> QED BY <1>7

\* What sort_by returns: the peaks, none lost or doubled, in order.
LEMMA SortsPeaks ==
    ASSUME peaks \in [Columns -> Peaks]
    PROVE  /\ SortByValue \in [Columns -> Peaks]
           /\ SamePeaks(peaks, SortByValue)
           /\ Ordered(SortByValue)
<1> DEFINE at == [i \in Columns |-> CHOOSE c \in Columns : Rank(c) = i - 1]
<1>1. ASSUME NEW i \in Columns
      PROVE  at[i] \in Columns /\ Rank(at[i]) = i - 1
  BY <1>1, RanksCover
<1>2. SortByValue = [i \in Columns |-> peaks[at[i]]]
  BY DEF SortByValue, Rank
<1> HIDE DEF at
<1>3. \A i \in Columns : i \in Int
  BY VisionAssumption DEF Columns
<1>4. at \in [Columns -> Columns]
  BY <1>1 DEF at
<1>5. at \in Injection(Columns, Columns)
  <2>1. ASSUME NEW i \in Columns, NEW j \in Columns, at[i] = at[j]
        PROVE  i = j
    BY <1>1, <1>3, <2>1
  <2> QED BY <1>4, <2>1 DEF Injection, IsInjective
<1>6. at \in Surjection(Columns, Columns)
  BY <1>5, ColumnsFinite, FS_Injection
<1>7. SamePeaks(peaks, SortByValue)
  BY <1>2, <1>5, <1>6, PermutedPeaks DEF Bijection
<1>8. ASSUME NEW i \in Columns, NEW j \in Columns, i < j
      PROVE  SortByValue[i].value <= SortByValue[j].value
  <2>1. at[i] \in Columns /\ at[j] \in Columns /\ Rank(at[i]) < Rank(at[j])
    BY <1>1, <1>3, <1>8
  <2>2. ~Before(at[j], at[i])
    <3>1. Rank(at[i]) \in Int /\ Rank(at[j]) \in Int
      BY <1>1, <1>3
    <3> QED BY <2>1, <3>1, RankGrows
  <2>3. peaks[at[i]].value \in Int /\ peaks[at[j]].value \in Int
    BY <2>1 DEF Peaks
  <2> QED BY <1>2, <2>2, <2>3 DEF Before
<1>9. SortByValue \in [Columns -> Peaks]
  BY <1>2, <1>4
<1> QED BY <1>7, <1>8, <1>9 DEF Ordered

-----------------------------------------------------------------------------
(* Filtering in place.                                                     *)

\* Kept counts up by one where the filter keeps a peak.
LEMMA KeptCounts ==
    /\ Kept(0) = 0
    /\ \A i \in Nat : Kept(i) \in 0 .. i
    /\ \A i \in Nat : Kept(i + 1) = IF IqrFilter(sorted[i + 1].value) THEN Kept(i) + 1 ELSE Kept(i)
    /\ \A i, j \in Nat : i <= j => Kept(i) <= Kept(j)
    /\ \A i \in Nat : \A j \in 1 .. i : IqrFilter(sorted[j].value) => Kept(j) \in 1 .. Kept(i)
<1> DEFINE K(i) == {j \in 1 .. i : IqrFilter(sorted[j].value)}
<1>1. ASSUME NEW i \in Nat
      PROVE  IsFiniteSet(K(i)) /\ Cardinality(K(i)) \in 0 .. i
  <2>1. IsFiniteSet(1 .. i) /\ Cardinality(1 .. i) = i
    BY FS_Interval
  <2>2. IsFiniteSet(K(i)) /\ Cardinality(K(i)) <= i
    BY <2>1, FS_Subset
  <2> HIDE DEF K
  <2>3. Cardinality(K(i)) \in Nat
    BY <2>2, FS_CardinalityType
  <2> QED BY <2>2, <2>3
<1>2. ASSUME NEW i \in Nat
      PROVE  Cardinality(K(i + 1)) = IF IqrFilter(sorted[i + 1].value) THEN Cardinality(K(i)) + 1
                                     ELSE Cardinality(K(i))
  <2>1. i + 1 \notin K(i)
    OBVIOUS
  <2>2. CASE IqrFilter(sorted[i + 1].value)
    <3>1. K(i + 1) = K(i) \cup {i + 1}
      BY <2>2
    <3>2. IsFiniteSet(K(i))
      BY <1>1
    <3> HIDE DEF K
    <3> QED BY <2>1, <2>2, <3>1, <3>2, FS_AddElement
  <2>3. CASE ~IqrFilter(sorted[i + 1].value)
    <3>1. K(i + 1) = K(i)
      BY <2>3
    <3> QED BY <2>3, <3>1
  <2> QED BY <2>2, <2>3
<1>3. ASSUME NEW i \in Nat, NEW j \in Nat, i <= j
      PROVE  Cardinality(K(i)) <= Cardinality(K(j))
  <2>1. K(i) \subseteq K(j)
    BY <1>3
  <2>2. IsFiniteSet(K(j))
    BY <1>1
  <2> HIDE DEF K
  <2> QED BY <2>1, <2>2, FS_Subset
<1>4. ASSUME NEW j \in Nat \ {0}, IqrFilter(sorted[j].value)
      PROVE  Cardinality(K(j)) >= 1
  <2>1. j \in K(j)
    BY <1>4
  <2>2. IsFiniteSet(K(j)) /\ Cardinality(K(j)) \in 0 .. j
    BY <1>1
  <2> HIDE DEF K
  <2>3. Cardinality(K(j)) # 0
    BY <2>1, <2>2, FS_EmptySet
  <2> QED BY <2>2, <2>3
<1>5. \A i : Kept(i) = Cardinality(K(i))
  BY DEF Kept
<1> HIDE DEF K
<1>6. Kept(0) = 0
  BY <1>1, <1>5
<1>7. ASSUME NEW i \in Nat, NEW j \in 1 .. i, IqrFilter(sorted[j].value)
      PROVE  Kept(j) \in 1 .. Kept(i)
  <2>1. j \in Nat \ {0} /\ j <= i
    OBVIOUS
  <2>2. Kept(j) \in Nat /\ Kept(i) \in Nat /\ Kept(j) >= 1 /\ Kept(j) <= Kept(i)
    BY <1>1, <1>3, <1>4, <1>5, <1>7, <2>1
  <2> QED BY <2>2
<1> QED BY <1>1, <1>2, <1>3, <1>5, <1>6, <1>7

\* The swap of the filter keeps all peaks.
LEMMA SwapKeepsPeaks ==
    ASSUME NEW s \in [Columns -> Peaks], NEW i \in Columns, NEW j \in Columns
    PROVE  /\ Swapped(s, i, j) \in [Columns -> Peaks]
           /\ Swapped(s, i, j)[i] = s[j] /\ Swapped(s, i, j)[j] = s[i]
           /\ \A c \in Columns \ {i, j} : Swapped(s, i, j)[c] = s[c]
           /\ SamePeaks(s, Swapped(s, i, j))
<1> DEFINE f == [c \in Columns |-> IF c = i THEN j ELSE IF c = j THEN i ELSE c]
           t == Swapped(s, i, j)
<1>1. t \in [Columns -> Peaks] /\ t[i] = s[j] /\ t[j] = s[i]
      /\ \A c \in Columns \ {i, j} : t[c] = s[c]
  BY DEF Swapped
<1>2. \A c \in Columns : t[c] = s[f[c]]
  BY <1>1
<1>3. f \in [Columns -> Columns]
  OBVIOUS
<1>4. f \in Injection(Columns, Columns)
  BY <1>3 DEF Injection, IsInjective
<1>5. f \in Surjection(Columns, Columns)
  BY <1>4, ColumnsFinite, FS_Injection
<1> HIDE DEF f, t
<1>6. SamePeaks(s, t)
  BY <1>2, <1>4, <1>5, PermutedPeaks DEF Bijection
<1> QED BY <1>1, <1>6 DEF t

-----------------------------------------------------------------------------
(* The invariant.                                                          *)

\* The rows are rows of the frame, and the indices are in step with the phase.
ScanInv ==
    /\ rows \in Seq([Columns -> 0 .. 255])
    /\ phase = "scan" => read = 0 /\ write = 0
    /\ phase = "steer" => read = WIDTH

\* The sorted peaks are in order, and the quartiles are theirs.
SortInv ==
    phase \in {"filter", "steer"} =>
        /\ sorted \in [Columns -> Peaks] /\ Ordered(sorted)
        /\ q = Quartiles(sorted)

\* The peaks are those of the frame, and the kept ones pass the filter.
FilterInv ==
    phase \in {"filter", "steer"} =>
        /\ SamePeaks(sorted, peaks)
        /\ \A k \in 1 .. write : \E c \in Columns :
               peaks[k] = sorted[c] /\ IqrFilter(sorted[c].value)

\* The effort is that of the line and the parameters of the frame.
SteerInv ==
    phase = "done" /\ effort.line # NoLine =>
        /\ params \in ControlParams
        /\ effort = EffortFor(effort.line, params)

\* The inductive invariant.
IndInv ==
    /\ TypeOK /\ ScanInv /\ SortInv /\ FilterIsExact /\ FilterInv
    /\ SteerInv /\ LineIsNoOutlier

\* It holds at the start.
LEMMA InitInv ==
    Init => IndInv
<1> SUFFICES ASSUME Init
             PROVE  IndInv
  OBVIOUS
<1>1. TypeOK
  <2>1. 0 \in 0 .. WIDTH /\ 0 \in 0 .. HEIGHT - 1 /\ 0 \in 0 .. 255 /\ Len(<<>>) <= HEIGHT
    BY VisionAssumption
  <2>2. peaks \in [Columns -> [value : 0 .. 255, row_idx : 0 .. HEIGHT - 1]]
    BY <2>1 DEF Init
  <2>3. effort.knife \in {"Hold", "Up", "Down"} /\ effort.speed \in 0 .. 255
        /\ effort.line \in {NoLine} \cup 0 .. HEIGHT - 1
        /\ effort.translation \in 0 .. VISION_MAX_VEL_LIN
    BY DEF Init, NoEffort, VISION_MAX_VEL_LIN
  <2> QED BY <2>1, <2>2, <2>3 DEF Init, TypeOK
<1>2. ScanInv
  BY DEF Init, ScanInv
<1> QED BY <1>1, <1>2 DEF Init, IndInv, SortInv, FilterIsExact, FilterInv, SteerInv, LineIsNoOutlier

\* A rise of brightness fits in a byte.
LEMMA RiseInByte ==
    ASSUME NEW a \in 0 .. 255, NEW b \in 0 .. 255, NEW v \in 0 .. 255, a - b > v
    PROVE  a - b \in 0 .. 255
OBVIOUS

\* Scanning a row keeps it.
LEMMA ScanRowStep ==
    ASSUME IndInv, NEW h \in 1 .. HEIGHT, NEW row \in [Columns -> Brightness[h]], ScanRow(h, row)
    PROVE  IndInv'
<1> DEFINE n == Len(rows)
<1>1. /\ phase = "scan" /\ h = n + 1 /\ rows' = Append(rows, row)
      /\ UNCHANGED <<phase, sorted, q, read, write, params, effort>>
  BY DEF ScanRow
<1>2. row \in [Columns -> 0 .. 255]
  BY VisionAssumption
<1>3. rows \in Seq([Columns -> 0 .. 255]) /\ n \in Nat
  BY DEF IndInv, ScanInv
<1>4. rows' \in Seq([Columns -> 0 .. 255]) /\ Len(rows') <= HEIGHT
  BY <1>1, <1>2, <1>3, VisionAssumption
<1>5. peaks \in [Columns -> Peaks]
  BY DEF IndInv, TypeOK, Peaks
<1>6. peaks' \in [Columns -> Peaks]
  <2>1. CASE rows = <<>>
    BY <1>5, <2>1 DEF ScanRow
  <2>2. CASE rows # <<>>
    <3>1. n \in 1 .. HEIGHT - 1 /\ n - 1 \in 0 .. HEIGHT - 1
      BY <1>1, <1>3, <2>2, VisionAssumption
    <3>2. Last(rows) \in [Columns -> 0 .. 255]
      <4>1. n \in 1 .. Len(rows)
        BY <3>1
      <4>2. rows[n] \in [Columns -> 0 .. 255]
        BY <1>3, <4>1, ElementOfSeq
      <4> QED BY <4>2 DEF Last
    <3>3. ASSUME NEW c \in Columns
          PROVE  PeakAfter(peaks[c], row[c] - Last(rows)[c], n - 1) \in Peaks
      <4>1. peaks[c] \in Peaks /\ row[c] \in 0 .. 255 /\ Last(rows)[c] \in 0 .. 255
        BY <1>2, <1>5, <3>2, <3>3
      <4>2. peaks[c].value \in 0 .. 255
        BY <4>1 DEF Peaks
      <4>3. row[c] - Last(rows)[c] > peaks[c].value => row[c] - Last(rows)[c] \in 0 .. 255
        BY <4>1, <4>2, RiseInByte, Zenon
      <4>4. CASE row[c] - Last(rows)[c] > peaks[c].value
        <5> DEFINE rise == row[c] - Last(rows)[c]
        <5>1. rise \in 0 .. 255
          BY <4>3, <4>4
        <5>2. PeakAfter(peaks[c], rise, n - 1) = [value |-> rise, row_idx |-> n - 1]
          BY <4>4 DEF PeakAfter
        <5> HIDE DEF rise, n
        <5>3. [value |-> rise, row_idx |-> n - 1] \in Peaks
          BY <3>1, <5>1 DEF Peaks
        <5> QED BY <5>2, <5>3 DEF rise
      <4>5. CASE ~(row[c] - Last(rows)[c] > peaks[c].value)
        BY <4>1, <4>5 DEF PeakAfter
      <4> QED BY <4>4, <4>5
    <3>4. peaks' = [c \in Columns |-> PeakAfter(peaks[c], row[c] - Last(rows)[c], n - 1)]
      BY <2>2 DEF ScanRow
    <3> QED BY <3>3, <3>4
  <2> QED BY <2>1, <2>2
<1>7. TypeOK'
  BY <1>1, <1>4, <1>6 DEF IndInv, TypeOK, Peaks
<1>8. ScanInv'
  BY <1>1, <1>4 DEF IndInv, ScanInv
<1> QED BY <1>1, <1>7, <1>8 DEF IndInv, SortInv, FilterIsExact, FilterInv, SteerInv, LineIsNoOutlier

\* Sorting keeps it.
LEMMA SortStep ==
    ASSUME IndInv, Sort
    PROVE  IndInv'
<1> DEFINE s == SortByValue
<1>1. /\ phase' = "filter" /\ sorted' = s /\ peaks' = s /\ q' = Quartiles(s) /\ rows' = <<>>
      /\ read' = 0 /\ write' = 0 /\ UNCHANGED <<params, effort>>
  BY DEF Sort, IndInv, ScanInv
<1>2. peaks \in [Columns -> Peaks]
  BY DEF IndInv, TypeOK, Peaks
<1>3. s \in [Columns -> Peaks] /\ SamePeaks(s, s) /\ Ordered(s)
  BY <1>2, SortsPeaks DEF SamePeaks
<1> HIDE DEF s
<1>4. TypeOK'
  <2>1. Len(<<>>) <= HEIGHT /\ 0 \in 0 .. WIDTH /\ 0 \in 0 .. 0
    BY VisionAssumption
  <2> QED BY <1>1, <1>3, <2>1 DEF IndInv, TypeOK, Peaks
<1>5. ScanInv' /\ SteerInv' /\ LineIsNoOutlier'
  BY <1>1 DEF ScanInv, SteerInv, LineIsNoOutlier
<1>6. SortInv'
  BY <1>1, <1>3 DEF SortInv, Ordered, Quartiles
<1>7. FilterIsExact'
  <2>1. Kept(0)' = 0
    <3>1. {j \in 1 .. 0 : IqrFilter(sorted[j].value)}' = {}
      OBVIOUS
    <3> QED BY <3>1, FS_EmptySet DEF Kept
  <2>2. 0 + 1 .. WIDTH = Columns
    BY DEF Columns
  <2> QED BY <1>1, <2>1, <2>2 DEF FilterIsExact, SamePeaks
<1>8. FilterInv'
  BY <1>1, <1>3 DEF FilterInv
<1> QED BY <1>4, <1>5, <1>6, <1>7, <1>8 DEF IndInv

\* A step of the filter keeps it.
LEMMA FilterStepStep ==
    ASSUME IndInv, FilterStep
    PROVE  IndInv'
<1> DEFINE r == read + 1
           w == write + 1
           keep == IqrFilter(peaks[r].value)
<1>1. /\ phase = "filter" /\ read < WIDTH /\ read' = r
      /\ UNCHANGED <<phase, rows, sorted, q, params, effort>>
      /\ keep => peaks' = Swapped(peaks, w, r) /\ write' = w
      /\ ~keep => UNCHANGED <<peaks, write>>
  BY DEF FilterStep
<1>2. /\ WIDTH \in Nat /\ read \in Nat /\ write \in Nat /\ write <= read
      /\ r \in Columns /\ w \in Columns /\ w <= r
  BY <1>1, VisionAssumption DEF IndInv, TypeOK, Columns
<1>3. peaks \in [Columns -> Peaks]
  BY DEF IndInv, TypeOK, Peaks
<1>4. /\ write = Kept(read)
      /\ \A i \in 1 .. read : IqrFilter(sorted[i].value) => peaks[Kept(i)] = sorted[i]
      /\ \A i \in r .. WIDTH : peaks[i] = sorted[i]
      /\ SamePeaks(sorted, peaks)
      /\ \A k \in 1 .. write : \E c \in Columns :
               peaks[k] = sorted[c] /\ IqrFilter(sorted[c].value)
  BY <1>1 DEF IndInv, FilterIsExact, FilterInv
<1>5. peaks[r] = sorted[r]
  BY <1>2, <1>4 DEF Columns
<1>6. /\ \A v : IqrFilter(v)' <=> IqrFilter(v)
      /\ \A i : Kept(i)' = Kept(i)
  BY <1>1 DEF Kept, IqrFilter
<1>7. peaks' \in [Columns -> Peaks] /\ SamePeaks(peaks, peaks')
  <2>1. CASE keep
    BY <1>1, <1>2, <1>3, <2>1, SwapKeepsPeaks
  <2>2. CASE ~keep
    BY <1>1, <1>3, <2>2 DEF SamePeaks
  <2> QED BY <2>1, <2>2
<1>8. SamePeaks(sorted, peaks')
  BY <1>4, <1>7 DEF SamePeaks
<1>9. write' = Kept(r) /\ write' \in 0 .. r
  <2>1. Kept(r) = IF keep THEN write + 1 ELSE write
    BY <1>2, <1>4, <1>5, KeptCounts
  <2>2. write' = Kept(r)
    BY <1>1, <2>1
  <2> QED BY <1>2, <2>2, KeptCounts
<1> HIDE DEF keep, r, w
<1>10. \A c \in Columns \ {w, r} : peaks'[c] = peaks[c]
  <2>1. \A c \in Columns \ {w, r} : Swapped(peaks, w, r)[c] = peaks[c]
    BY <1>2, <1>3, SwapKeepsPeaks
  <2>2. keep => peaks' = Swapped(peaks, w, r)
    BY <1>1
  <2>3. ~keep => peaks' = peaks
    BY <1>1
  <2> QED BY <2>1, <2>2, <2>3
<1>11. \A c \in 1 .. write : peaks'[c] = peaks[c]
  <2>1. \A c \in 1 .. write : c \in Columns \ {w, r}
    BY <1>2 DEF Columns, w, r
  <2> QED BY <1>10, <2>1
<1>12. \A c \in r + 1 .. WIDTH : peaks'[c] = sorted[c]
  <2>1. \A c \in r + 1 .. WIDTH : c \in Columns \ {w, r} /\ c \in r .. WIDTH
    BY <1>2 DEF Columns, w, r
  <2>2. \A c \in r + 1 .. WIDTH : peaks'[c] = peaks[c]
    BY <1>10, <2>1
  <2> QED BY <1>4, <2>1, <2>2
<1> USE DEF r, w
<1>13. keep => peaks'[w] = sorted[r] /\ IqrFilter(sorted[r].value)
  BY <1>1, <1>2, <1>3, <1>5, SwapKeepsPeaks DEF keep
<1>14. ASSUME NEW i \in 1 .. r, IqrFilter(sorted[i].value)
       PROVE  peaks'[Kept(i)] = sorted[i]
  <2>1. CASE i \in 1 .. read
    <3>1. Kept(i) \in 1 .. write
      BY <1>2, <1>4, <1>14, <2>1, KeptCounts
    <3> QED BY <1>4, <1>11, <1>14, <2>1, <3>1
  <2>2. CASE i = r
    <3>1. keep
      BY <1>5, <1>14, <2>2 DEF keep
    <3>2. Kept(r) = w
      BY <1>1, <1>9, <3>1
    <3> QED BY <1>13, <2>2, <3>1, <3>2
  <2> QED BY <1>2, <2>1, <2>2
<1>15. ASSUME NEW k \in 1 .. write'
       PROVE  \E c \in Columns : peaks'[k] = sorted[c] /\ IqrFilter(sorted[c].value)
  <2>1. CASE k \in 1 .. write
    BY <1>4, <1>11, <2>1
  <2>2. CASE k \notin 1 .. write
    <3>1. keep /\ k = w
      BY <1>1, <1>2, <1>15, <2>2
    <3> QED BY <1>2, <1>13, <3>1
  <2> QED BY <2>1, <2>2
<1>16. TypeOK'
  <2>1. read' \in 0 .. WIDTH /\ write' \in 0 .. read'
    BY <1>1, <1>2, <1>9
  <2> QED BY <1>1, <1>7, <2>1 DEF IndInv, TypeOK, Peaks
<1>17. ScanInv' /\ SortInv' /\ SteerInv' /\ LineIsNoOutlier'
  BY <1>1 DEF IndInv, ScanInv, SortInv, Ordered, Quartiles, SteerInv, LineIsNoOutlier
<1>18. FilterIsExact'
  <2>1. (write = Kept(read))'
    BY <1>1, <1>6, <1>9
  <2>2. (\A i \in 1 .. read : IqrFilter(sorted[i].value) => peaks[Kept(i)] = sorted[i])'
    BY <1>1, <1>6, <1>14
  <2>3. (\A i \in read + 1 .. WIDTH : peaks[i] = sorted[i])'
    BY <1>1, <1>12
  <2>4. (\A p \in Range(sorted) : Cardinality({c \in Columns : peaks[c] = p}) =
                                  Cardinality({c \in Columns : sorted[c] = p}))'
    BY <1>1, <1>8 DEF SamePeaks
  <2> QED BY <2>1, <2>2, <2>3, <2>4 DEF FilterIsExact
<1>19. FilterInv'
  <2>1. SamePeaks(sorted, peaks)'
    BY <1>1, <1>8 DEF SamePeaks
  <2>2. (\A k \in 1 .. write : \E c \in Columns : peaks[k] = sorted[c] /\ IqrFilter(sorted[c].value))'
    BY <1>1, <1>6, <1>15
  <2> QED BY <2>1, <2>2 DEF FilterInv
<1> QED BY <1>16, <1>17, <1>18, <1>19 DEF IndInv

\* The end of the filter keeps it.
LEMMA FilterDoneStep ==
    ASSUME IndInv, FilterDone
    PROVE  IndInv'
<1>1. /\ phase = "filter" /\ read = WIDTH /\ phase' = "steer"
      /\ UNCHANGED <<rows, peaks, sorted, q, read, write, params, effort>>
  BY DEF FilterDone
<1>2. TypeOK'
  BY <1>1 DEF IndInv, TypeOK
<1>3. ScanInv' /\ SortInv' /\ SteerInv' /\ LineIsNoOutlier'
  BY <1>1 DEF IndInv, ScanInv, SortInv, Ordered, Quartiles, SteerInv, LineIsNoOutlier
<1>4. FilterIsExact'
  BY <1>1 DEF IndInv, FilterIsExact, Kept, IqrFilter
<1>5. FilterInv'
  BY <1>1 DEF IndInv, FilterInv, SamePeaks, IqrFilter
<1> QED BY <1>2, <1>3, <1>4, <1>5 DEF IndInv

\* With different quartiles the filter keeps at least the first quartile itself,
\* so the median is one of the kept peaks.
LEMMA MedianIsNoOutlier ==
    ASSUME IndInv, phase = "steer", q.iqr > 0
    PROVE  \E c \in Columns : Median = sorted[c] /\ IqrFilter(sorted[c].value)
<1>1. /\ sorted \in [Columns -> Peaks] /\ q = Quartiles(sorted)
      /\ read = WIDTH /\ write = Kept(WIDTH)
      /\ \A k \in 1 .. write : \E c \in Columns :
               peaks[k] = sorted[c] /\ IqrFilter(sorted[c].value)
  BY DEF IndInv, SortInv, FilterInv, ScanInv, FilterIsExact
<1>2. WIDTH \in Nat /\ WIDTH >= 3
  BY VisionAssumption
<1> DEFINE a == WIDTH \div 4 + 1
           b == (WIDTH * 3) \div 4 + 1
<1>3. a \in 1 .. WIDTH /\ b \in 1 .. WIDTH
  BY <1>2
<1>4. sorted[a].value \in Int /\ sorted[b].value \in Int
  <2>1. a \in Columns /\ b \in Columns
    BY <1>3 DEF Columns
  <2> HIDE DEF a, b
  <2>2. sorted[a] \in Peaks /\ sorted[b] \in Peaks
    BY <1>1, <2>1
  <2> QED BY <2>2 DEF Peaks
<1>5. q.q1 = sorted[a].value /\ q.q3 = sorted[b].value /\ q.iqr = q.q3 - q.q1
  BY <1>1 DEF Quartiles
<1> HIDE DEF a, b
<1>6. IqrFilter(sorted[a].value)
  BY <1>4, <1>5 DEF IqrFilter
<1>7. Kept(a) \in 1 .. Kept(WIDTH) /\ Kept(WIDTH) \in 0 .. WIDTH
  BY <1>2, <1>3, <1>6, KeptCounts
<1>8. write \in Nat /\ write >= 1
  BY <1>1, <1>2, <1>7
<1>9. write \div 2 + 1 \in 1 .. write
  BY <1>8
<1> QED BY <1>1, <1>9 DEF Median

\* Steering keeps it.
LEMMA SteerStep ==
    ASSUME IndInv, NEW p \in ControlParams, Steer(p)
    PROVE  IndInv'
<1> DEFINE line == Median.row_idx
<1>1. /\ phase = "steer" /\ phase' = "done" /\ params' = p /\ effort' = EffortFor(line, p)
      /\ UNCHANGED <<rows, peaks, sorted, q, read, write>>
  BY DEF Steer
<1>2. line \in 0 .. HEIGHT - 1
  <2>1. WIDTH \in Nat /\ WIDTH >= 3 /\ write \in 0 .. WIDTH
    BY VisionAssumption DEF IndInv, TypeOK
  <2>2. write \div 2 + 1 \in Columns
    BY <2>1 DEF Columns
  <2> QED BY <2>2 DEF Median, IndInv, TypeOK
<1> HIDE DEF line
<1>3. TypeOK'
  BY <1>1, <1>2, EffortType DEF IndInv, TypeOK
<1>4. ScanInv' /\ SortInv' /\ FilterIsExact' /\ FilterInv'
  BY <1>1 DEF IndInv, ScanInv, SortInv, FilterIsExact, FilterInv
<1>5. SteerInv'
  BY <1>1, <1>2, EffortType DEF SteerInv, EffortFor, Feed
<1>6. LineIsNoOutlier'
  <2> SUFFICES ASSUME q.iqr > 0
               PROVE  \E c \in Columns :
                        /\ sorted[c].row_idx = line
                        /\ Abs(2 * sorted[c].value - q.q1 - q.q3) < 3 * q.iqr
    BY <1>1, <1>2, EffortType DEF LineIsNoOutlier
  <2>1. PICK c \in Columns : Median = sorted[c] /\ IqrFilter(sorted[c].value)
    BY <1>1, MedianIsNoOutlier
  <2>2. sorted \in [Columns -> Peaks] /\ q = Quartiles(sorted) /\ WIDTH \in Nat /\ WIDTH >= 3
    BY <1>1, VisionAssumption DEF IndInv, SortInv
  <2>3. q.q1 \in Int /\ q.q3 \in Int /\ q.iqr = q.q3 - q.q1
    <3>1. WIDTH \div 4 + 1 \in Columns /\ (WIDTH * 3) \div 4 + 1 \in Columns
      BY <2>2 DEF Columns
    <3> QED BY <2>2, <3>1 DEF Quartiles, Peaks
  <2>4. sorted[c].value \in Int
    BY <2>2 DEF Peaks
  <2>5. Abs(2 * sorted[c].value - q.q1 - q.q3) < 3 * q.iqr
    BY <2>1, <2>3, <2>4 DEF IqrFilter, Abs
  <2> QED BY <2>1, <2>5 DEF line
<1> QED BY <1>3, <1>4, <1>5, <1>6 DEF IndInv

\* A rejected frame keeps it.
LEMMA RejectFrameStep ==
    ASSUME IndInv, NEW p \in ControlParams, RejectFrame(p)
    PROVE  IndInv'
<1>1. /\ phase = "scan" /\ phase' = "done"
      /\ effort' = [NoEffort EXCEPT !.rotation = Feed(p.speed).rotation,
                                    !.translation = Feed(p.speed).translation]
      /\ UNCHANGED <<rows, peaks, sorted, q, read, write>>
  BY DEF RejectFrame
<1>2. /\ effort'.knife = "Hold" /\ effort'.speed = 0 /\ effort'.line = NoLine
      /\ effort'.translation = Feed(p.speed).translation
  BY <1>1 DEF NoEffort
<1>3. Feed(p.speed).translation \in 0 .. VISION_MAX_VEL_LIN
  BY ParamsType DEF Feed, Clamp, LEAD, CONTROL_LEAD_MAX, VISION_MAX_VEL_LIN
<1>4. TypeOK'
  BY <1>1, <1>2, <1>3 DEF IndInv, TypeOK
<1>5. ScanInv' /\ SortInv' /\ FilterIsExact' /\ FilterInv'
  BY <1>1 DEF IndInv, ScanInv, SortInv, FilterIsExact, FilterInv
<1>6. SteerInv' /\ LineIsNoOutlier'
  BY <1>2 DEF SteerInv, LineIsNoOutlier
<1> QED BY <1>4, <1>5, <1>6 DEF IndInv

\* Every step keeps it.
LEMMA InvStep ==
    IndInv /\ [Next]_vars => IndInv'
<1> SUFFICES ASSUME IndInv, [Next]_vars
             PROVE  IndInv'
  OBVIOUS
<1>1. CASE \E h \in 1 .. HEIGHT : \E row \in [Columns -> Brightness[h]] : ScanRow(h, row)
  BY <1>1, ScanRowStep
<1>2. CASE Sort
  BY <1>2, SortStep
<1>3. CASE FilterStep
  BY <1>3, FilterStepStep
<1>4. CASE FilterDone
  BY <1>4, FilterDoneStep
<1>5. CASE \E p \in ControlParams : Steer(p) \/ RejectFrame(p)
  BY <1>5, SteerStep, RejectFrameStep
<1>6. CASE UNCHANGED vars
  <2>1. UNCHANGED <<phase, rows, peaks, sorted, q, read, write, params, effort>>
    BY <1>6 DEF vars
  <2>2. TypeOK' /\ ScanInv' /\ SortInv'
    BY <2>1 DEF IndInv, TypeOK, ScanInv, SortInv, Ordered, Quartiles
  <2>3. FilterIsExact'
    BY <2>1 DEF IndInv, FilterIsExact, Kept, IqrFilter
  <2>4. FilterInv'
    BY <2>1 DEF IndInv, FilterInv, IqrFilter, SamePeaks
  <2>5. SteerInv' /\ LineIsNoOutlier'
    BY <2>1 DEF IndInv, SteerInv, LineIsNoOutlier
  <2> QED BY <2>2, <2>3, <2>4, <2>5 DEF IndInv
<1> QED BY <1>1, <1>2, <1>3, <1>4, <1>5, <1>6 DEF Next

\* The phases of find_transition_line hand on what the next one relies on, for
\* every frame.
THEOREM Invariance ==
    Spec => []IndInv
BY InitInv, InvStep, PTL DEF Spec

\* For frames of every size: lines lie within the frame and indices within the
\* peaks.
THEOREM TypeCorrect ==
    Spec => []TypeOK
<1>1. IndInv => TypeOK
  BY DEF IndInv
<1> QED BY <1>1, Invariance, PTL

\* filter_iqr_inplace does to the array what a filter on a copy would do.
THEOREM FilterCorrect ==
    Spec => []FilterIsExact
<1>1. IndInv => FilterIsExact
  BY DEF IndInv
<1> QED BY <1>1, Invariance, PTL

\* With different quartiles no outlier is taken for the transition line.
THEOREM NoOutlierSteers ==
    Spec => []LineIsNoOutlier
<1>1. IndInv => LineIsNoOutlier
  BY DEF IndInv
<1> QED BY <1>1, Invariance, PTL

\* The knife goes towards the zero line, and not slower from further away.
THEOREM KnifeFollowsLine ==
    Spec => []KnifeClosesError
<1>1. IndInv => KnifeClosesError
  <2> SUFFICES ASSUME IndInv, phase = "done", effort.line # NoLine
               PROVE  KnifeClosesError
    BY DEF KnifeClosesError
  <2>1. params \in ControlParams /\ effort = EffortFor(effort.line, params)
    BY DEF IndInv, SteerInv
  <2>2. effort.line \in Nat
    BY VisionAssumption DEF IndInv, TypeOK
  <2> QED BY <2>1, <2>2, EffortCloses DEF KnifeClosesError
<1> QED BY <1>1, Invariance, PTL

\* What the quartiles are taken of: the peaks in order, so that q3 is not below
\* q1.
QuartilesInOrder == phase \in {"filter", "steer"} => Ordered(sorted) /\ q.iqr >= 0

\* Sorting neither loses nor doubles a peak.
SortPermutes == [][Sort => SamePeaks(peaks, sorted')]_vars

\* sort_by, as it is modelled by ranks, does order the peaks of every frame and
\* neither loses nor doubles one, whatever columns have equal peaks.
THEOREM SortCorrect ==
    Spec => []QuartilesInOrder /\ SortPermutes
<1>1. IndInv => QuartilesInOrder
  <2> SUFFICES ASSUME IndInv, phase \in {"filter", "steer"}
               PROVE  Ordered(sorted) /\ q.iqr >= 0
    BY DEF QuartilesInOrder
  <2> DEFINE a == WIDTH \div 4 + 1
             b == (WIDTH * 3) \div 4 + 1
  <2>1. sorted \in [Columns -> Peaks] /\ Ordered(sorted) /\ q = Quartiles(sorted)
    BY DEF IndInv, SortInv
  <2>2. a \in Columns /\ b \in Columns /\ a < b
    BY VisionAssumption DEF Columns
  <2>3. q.iqr = sorted[b].value - sorted[a].value
    BY <2>1 DEF Quartiles
  <2> HIDE DEF a, b
  <2>4. sorted[a].value \in Int /\ sorted[b].value \in Int
    BY <2>1, <2>2 DEF Peaks
  <2>5. sorted[a].value <= sorted[b].value
    BY <2>1, <2>2 DEF Ordered
  <2> QED BY <2>1, <2>3, <2>4, <2>5
<1>2. IndInv => [Sort => SamePeaks(peaks, sorted')]_vars
  <2> SUFFICES ASSUME IndInv, Sort
               PROVE  SamePeaks(peaks, sorted')
    OBVIOUS
  <2>1. peaks \in [Columns -> Peaks] /\ sorted' = SortByValue
    BY DEF IndInv, TypeOK, Peaks, Sort
  <2> QED BY <2>1, SortsPeaks
<1> QED BY <1>1, <1>2, Invariance, PTL DEF SortPermutes
=============================================================================
