-------------------------------- MODULE Vision -------------------------------
(***************************************************************************)
(* The vision algorithm of the ESP32 (vision_joris) on one frame, and the  *)
(* control effort made of its output.  Every column of the bounding box    *)
(* has a peak, the row with the steepest rise in brightness; the peaks are *)
(* sorted by steepness, outliers are filtered out in place, and the row of *)
(* the median peak is the transition line, which the knife is to bring to  *)
(* the zero line.                                                          *)
(*                                                                         *)
(* The variance of the peaks is left out: the code only logs it.  Speeds   *)
(* of the knife are in 1/255 of VISION_MAX_SPEED_MM_PS, of the rotation in *)
(* 0.1 mm/s and of the translation in micrometres per second.              *)
(***************************************************************************)
EXTENDS Integers, Sequences, SequencesExt

CONSTANTS
    WIDTH,          \* columns of VISION_BOUNDING_BOX
    HEIGHT,         \* rows of VISION_BOUNDING_BOX
    Brightness,     \* the brightness values that occur in each row
    ZeroLines,      \* values of zero_line_px
    Gains,          \* values of gain
    Speeds          \* values of speed

ASSUME VisionAssumption ==
    /\ WIDTH \in Nat /\ WIDTH >= 3 /\ HEIGHT \in Nat \ {0}
    /\ Brightness \in [1 .. HEIGHT -> SUBSET (0 .. 255)]
    /\ ZeroLines \subseteq Nat /\ Gains \subseteq 0 .. 100 /\ Speeds \subseteq Nat

DEAD_ZONE_ROWS == 1
FULL_SPEED_PX == 80
LEAD == 1           \* CONTROL_LEAD_DEFAULT: the panel cannot select the lead
CONTROL_LEAD_MAX == 100
VISION_MAX_VEL_LIN == 300

VARIABLES
    phase,      \* "scan", "filter", "steer" or "done"
    rows,       \* the rows of the frame read so far
    peaks,      \* one VerticalGradient for each column
    sorted,     \* history: the peaks after sorting
    q,          \* q1, q3 and iqr
    read, write,\* of filter_iqr_inplace: 0-based, as in the code
    params,     \* history: the control_params of the frame
    effort      \* the knife's setpoint, the line found, and the two speeds

vars == <<phase, rows, peaks, sorted, q, read, write, params, effort>>

Columns == 1 .. WIDTH
ControlParams == [zero_line : ZeroLines, gain : Gains, speed : Speeds]
NoLine == -1
NoEffort == [knife |-> "Hold", speed |-> 0, line |-> NoLine, rotation |-> 0, translation |-> 0]

Clamp(x, lo, hi) == IF x < lo THEN lo ELSE IF x > hi THEN hi ELSE x
Abs(x) == IF x < 0 THEN -x ELSE x

-----------------------------------------------------------------------------
(* Steps 1 and 4: peaks, sorting and filtering.                            *)

PeakAfter(peak, rise, row_idx) ==
    IF rise > peak.value THEN [value |-> rise, row_idx |-> row_idx] ELSE peak

\* The next row; with the row before it, it yields one rise in each column.
ScanRow(h, row) ==
    /\ phase = "scan" /\ h = Len(rows) + 1
    /\ rows' = Append(rows, row)
    /\ peaks' = IF rows = <<>> THEN peaks
                ELSE [c \in Columns |->
                        PeakAfter(peaks[c], row[c] - Last(rows)[c], Len(rows) - 1)]
    /\ UNCHANGED <<phase, sorted, q, read, write, params, effort>>

\* The stable sort by value: equal values stay in the order of their columns.
Before(c, d) ==
    \/ peaks[c].value < peaks[d].value
    \/ peaks[c].value = peaks[d].value /\ c < d

SortByValue ==
    [i \in Columns |->
        peaks[CHOOSE c \in Columns : Cardinality({d \in Columns : Before(d, c)}) = i - 1]]

\* Quartiles of sorted peaks, with the code's 0-based indices.
Quartiles(s) ==
    LET q1 == s[WIDTH \div 4 + 1].value
        q3 == s[(WIDTH * 3) \div 4 + 1].value
    IN [q1 |-> q1, q3 |-> q3, iqr |-> q3 - q1]

Sort ==
    /\ phase = "scan" /\ Len(rows) = HEIGHT
    /\ sorted' = SortByValue
    /\ peaks' = sorted'
    /\ q' = Quartiles(sorted')
    /\ phase' = "filter"
    /\ rows' = <<>>
    /\ UNCHANGED <<read, write, params, effort>>

\* Mutant: the condition is taken for the one to remove a peak.
IqrFilterInverted(val) == val >= q.q3 + q.iqr \/ val <= q.q1 - q.iqr

IqrFilter(val) == val < q.q3 + q.iqr /\ val > q.q1 - q.iqr

Swapped(s, i, j) == [s EXCEPT ![i] = s[j], ![j] = s[i]]

\* Mutant: a peak that is kept stays where it is.
FilterStepInPlace ==
    /\ phase = "filter" /\ read < WIDTH
    /\ read' = read + 1
    /\ write' = IF IqrFilter(peaks[read + 1].value) THEN write + 1 ELSE write
    /\ UNCHANGED <<phase, rows, peaks, sorted, q, params, effort>>

\* One iteration of filter_iqr_inplace.
FilterStep ==
    /\ phase = "filter" /\ read < WIDTH
    /\ read' = read + 1
    /\ IF IqrFilter(peaks[read + 1].value)
       THEN /\ peaks' = Swapped(peaks, write + 1, read + 1)
            /\ write' = write + 1
       ELSE UNCHANGED <<peaks, write>>
    /\ UNCHANGED <<phase, rows, sorted, q, params, effort>>

FilterDone ==
    /\ phase = "filter" /\ read = WIDTH
    /\ phase' = "steer"
    /\ UNCHANGED <<rows, peaks, sorted, q, read, write, params, effort>>

-----------------------------------------------------------------------------
(* Steps 5 to 7, and get_control_output_from_vision.                       *)

\* Mutant: no limit.
KnifeSpeedUnlimited(delta, gain) == (Abs(delta) * ((gain * 255) \div 10)) \div FULL_SPEED_PX

\* Mutant: no limit, and the low byte is kept.
KnifeSpeedWraps(delta, gain) ==
    ((Abs(delta) * ((gain * 255) \div 10)) \div FULL_SPEED_PX) % 256

KnifeSpeed(delta, gain) ==
    Clamp((Abs(delta) * ((gain * 255) \div 10)) \div FULL_SPEED_PX, 0, 255)

\* The rotation turns at the speed parameter, the translation follows by lead.
Feed(speed) ==
    [rotation |-> speed,
     translation |-> Clamp((LEAD * speed * 100) \div CONTROL_LEAD_MAX, 0, VISION_MAX_VEL_LIN)]

EffortFor(line, p) ==
    LET delta == p.zero_line - line
        inside == Abs(delta) <= DEAD_ZONE_ROWS
    IN [knife |-> IF inside THEN "Hold" ELSE IF delta > 0 THEN "Up" ELSE "Down",
        speed |-> IF inside THEN 0 ELSE KnifeSpeed(delta, p.gain),
        line |-> line,
        rotation |-> Feed(p.speed).rotation, translation |-> Feed(p.speed).translation]

\* The peak in the middle of the ones kept; peaks[0] if none was.
Median == peaks[write \div 2 + 1]

Steer(p) ==
    /\ phase = "steer"
    /\ params' = p
    /\ effort' = EffortFor(Median.row_idx, p)
    /\ phase' = "done"
    /\ UNCHANGED <<rows, peaks, sorted, q, read, write>>

\* A frame that is too small is not looked at.
RejectFrame(p) ==
    /\ phase = "scan" /\ rows = <<>>
    /\ params' = p
    /\ effort' = [NoEffort EXCEPT !.rotation = Feed(p.speed).rotation,
                                  !.translation = Feed(p.speed).translation]
    /\ phase' = "done"
    /\ UNCHANGED <<rows, peaks, sorted, q, read, write>>

-----------------------------------------------------------------------------

Init ==
    /\ phase = "scan"
    /\ rows = <<>>
    /\ peaks = [c \in Columns |-> [value |-> 0, row_idx |-> 0]]
    /\ sorted = <<>>
    /\ q = [q1 |-> 0, q3 |-> 0, iqr |-> 0]
    /\ read = 0 /\ write = 0
    /\ params = <<>>
    /\ effort = NoEffort

Next ==
    \/ \E h \in 1 .. HEIGHT : \E row \in [Columns -> Brightness[h]] : ScanRow(h, row)
    \/ Sort
    \/ FilterStep
    \/ FilterDone
    \/ \E p \in ControlParams : Steer(p) \/ RejectFrame(p)

Spec == Init /\ [][Next]_vars

-----------------------------------------------------------------------------
(* Properties.                                                             *)

\* Type invariant: lines lie within the frame, indices within the peaks and
\* the knife's speed in its byte.
TypeOK ==
    /\ phase \in {"scan", "filter", "steer", "done"}
    /\ Len(rows) <= HEIGHT
    /\ peaks \in [Columns -> [value : 0 .. 255, row_idx : 0 .. HEIGHT - 1]]
    /\ read \in 0 .. WIDTH /\ write \in 0 .. read
    /\ effort.knife \in {"Hold", "Up", "Down"} /\ effort.speed \in 0 .. 255
    /\ effort.line \in {NoLine} \cup 0 .. HEIGHT - 1
    /\ effort.translation \in 0 .. VISION_MAX_VEL_LIN

\* How many of the first i sorted peaks a filter on a copy would keep.
Kept(i) == Cardinality({j \in 1 .. i : IqrFilter(sorted[j].value)})

\* filter_iqr_inplace works on the array it reads: the elements kept are those
\* that a filter on a copy would keep, in their order (the n-th of them is the
\* n-th element), the ones not read yet are untouched, and no peak is lost or
\* doubled by the swapping.
FilterIsExact ==
    phase \in {"filter", "steer"} =>
        /\ write = Kept(read)
        /\ \A i \in 1 .. read : IqrFilter(sorted[i].value) => peaks[Kept(i)] = sorted[i]
        /\ \A i \in read + 1 .. WIDTH : peaks[i] = sorted[i]
        /\ \A p \in Range(sorted) :
               Cardinality({c \in Columns : peaks[c] = p}) = Cardinality({c \in Columns : sorted[c] = p})

\* One column with an edge far steeper than the others (a reflection) cannot
\* steer the knife: as soon as the quartiles of the steepness differ, the line is
\* the row of a column whose edge is not that far off.  (A column whose row is
\* far off may steer it.  If the quartiles are equal the strict filter keeps
\* nothing, and the column with the weakest edge is taken: see MedianIsKept.)
LineIsNoOutlier ==
    phase = "done" /\ effort.line # NoLine /\ q.iqr > 0 =>
        \E c \in Columns :
            /\ sorted[c].row_idx = effort.line
            /\ Abs(2 * sorted[c].value - q.q1 - q.q3) < 3 * q.iqr

\* "Transition Line should be controlled to Zero line" (algo/mod.rs): if the
\* knife is sent anywhere, it is the way that brings the line closer, and had the
\* line been further off, the knife would not have gone slower.  (At a small
\* gain the speed may be truncated to zero.)
KnifeClosesError ==
    phase = "done" /\ effort.line # NoLine =>
        LET delta == params.zero_line - effort.line
        IN /\ effort.knife = "Up" => delta > 0
           /\ effort.knife = "Down" => delta < 0
           /\ effort.knife = "Hold" => delta \in -DEAD_ZONE_ROWS .. DEAD_ZONE_ROWS
           /\ \A further \in 0 .. 240 :
                  Abs(params.zero_line - further) >= Abs(delta) =>
                      EffortFor(further, params).speed >= effort.speed

\* "find median of iqr filter result, this is our transition line": does not
\* hold, the result is empty when the quartiles are equal.
MedianIsKept == phase = "done" /\ effort.line # NoLine => write > 0
=============================================================================
