------------------------------ MODULE HmiProofs ------------------------------
(***************************************************************************)
(* Proofs about the panel, for every size of the knob, every range of the  *)
(* speeds and parameters and every width of the machine word that satisfy  *)
(* the assumptions of Hmi.                                                 *)
(*                                                                         *)
(* The action properties speak of one turn; what they need of the turns    *)
(* before is KnobInv: the panel's position is the one of the count that    *)
(* was handled last.  The rest is arithmetic: MarkStep, on the counter's   *)
(* remainder and its quotient, and DeltaTellsDirection, which undoes the   *)
(* wrap from the last position to the first.                               *)
(***************************************************************************)
EXTENDS Hmi, TLAPS

\* Quotient and remainder.
LEMMA DivMod ==
    ASSUME NEW x \in Nat, NEW c \in Nat \ {0}
    PROVE  /\ x \div c \in Nat /\ x % c \in 0 .. c - 1
           /\ x = c * (x \div c) + (x % c)
OBVIOUS

\* A positive factor can be cancelled.
LEMMA FactorLess ==
    ASSUME NEW c \in Nat \ {0}, NEW i \in Int, NEW j \in Int, c * i < c * j
    PROVE  i < j
<1>1. ASSUME j <= i
      PROVE  c * j <= c * i
  <2>1. PICK d \in Nat : i = j + d
    BY <1>1
  <2>2. c * i = c * j + c * d
    BY <2>1
  <2>3. c * d \in Nat
    OBVIOUS
  <2> QED BY <2>2, <2>3
<1> QED BY <1>1

\* The remainder of a sum wraps at most once.
LEMMA ModStep ==
    ASSUME NEW x \in Nat, NEW p \in Nat \ {0}, NEW t \in 0 .. p - 1
    PROVE  (x + t) % p \in {(x % p) + t, (x % p) + t - p}
<1> DEFINE q == x \div p
           r == x % p
           u == (x + t) \div p
           s == (x + t) % p
<1>1. q \in Nat /\ r \in 0 .. p - 1 /\ x = p * q + r
  BY DivMod
<1>2. u \in Nat /\ s \in 0 .. p - 1 /\ x + t = p * u + s
  <2>1. x + t \in Nat
    OBVIOUS
  <2> QED BY <2>1, DivMod
<1> HIDE DEF q, r, u, s
<1>3. p * u + s = p * q + r + t
  BY <1>1, <1>2
<1>4. p * (q - 1) = p * q - p /\ p * (q + 2) = p * q + 2 * p
  BY <1>1
<1>5. p * q \in Int /\ p * u \in Int
  BY <1>1, <1>2
<1>6. p * (q - 1) < p * u
  BY <1>1, <1>2, <1>3, <1>4, <1>5
<1>7. p * u < p * (q + 2)
  BY <1>1, <1>2, <1>3, <1>4, <1>5
<1>8. q - 1 < u /\ u < q + 2
  BY <1>1, <1>2, <1>6, <1>7, FactorLess
<1>9. u = q \/ u = q + 1
  BY <1>1, <1>2, <1>8
<1>10. p * (q + 1) = p * q + p
  BY <1>1
<1> QED BY <1>1, <1>2, <1>3, <1>5, <1>9, <1>10 DEF r, s

-----------------------------------------------------------------------------
(* The positions of the knob.                                              *)

\* The count within a turn of the knob, and the mark of COUNT_MAP below it.
Within(c) == (100 * LEN + c) % (COUNTS * (LEN - 1))
Mark(c) == Within(c) \div COUNTS

\* A turn of the knob has counts.
LEMMA TurnCounts ==
    COUNTS * (LEN - 1) \in Nat \ {0}
BY KnobAssumption

\* The mark lies between the count and one step below it, and on the knob.
LEMMA MarkBounds ==
    ASSUME NEW c \in Nat
    PROVE  /\ Within(c) \in 0 .. COUNTS * (LEN - 1) - 1
           /\ Mark(c) \in 0 .. LEN - 2
           /\ COUNTS * Mark(c) <= Within(c)
           /\ Within(c) < COUNTS * (Mark(c) + 1)
<1> DEFINE P == COUNTS * (LEN - 1)
           w == Within(c)
           k == Mark(c)
<1>1. LEN \in Nat /\ LEN >= 4 /\ COUNTS \in Nat \ {0}
  BY KnobAssumption
<1>2. P \in Nat \ {0} /\ 100 * LEN + c \in Nat
  BY <1>1, TurnCounts
<1>3. w \in 0 .. P - 1
  <2> HIDE DEF P
  <2>1. (100 * LEN + c) % P \in 0 .. P - 1
    BY <1>2, DivMod
  <2> QED BY <2>1 DEF Within, P
<1>4. k \in Nat /\ w % COUNTS \in 0 .. COUNTS - 1 /\ w = COUNTS * k + (w % COUNTS)
  <2>1. w \in Nat
    BY <1>2, <1>3
  <2> HIDE DEF w
  <2>2. w \div COUNTS \in Nat /\ w % COUNTS \in 0 .. COUNTS - 1
        /\ w = COUNTS * (w \div COUNTS) + (w % COUNTS)
    BY <1>1, <2>1, DivMod
  <2> QED BY <2>2 DEF Mark, w
<1> HIDE DEF w, k
<1>5. COUNTS * k \in Int /\ COUNTS * (k + 1) = COUNTS * k + COUNTS
  BY <1>1, <1>4
<1>6. COUNTS * k <= w /\ w < COUNTS * (k + 1)
  BY <1>1, <1>2, <1>3, <1>4, <1>5
<1>7. COUNTS * k < COUNTS * (LEN - 1)
  BY <1>2, <1>3, <1>5, <1>6
<1>8. k < LEN - 1
  BY <1>1, <1>4, <1>7, FactorLess
<1> QED BY <1>1, <1>3, <1>4, <1>6, <1>8 DEF w, k

\* COUNT_MAP numbers the marks from 1.
LEMMA PosIsMark ==
    ASSUME NEW c \in Nat
    PROVE  PosOf(c) = Mark(c) + 1 /\ PosOf(c) \in 1 .. LEN - 1
<1>1. PosOf(c) = Mark(c) + 1
  BY DEF PosOf, Mark, Within
<1> QED BY <1>1, MarkBounds, KnobAssumption

\* A turn of up to h marks to the right moves the mark by 0 .. h, modulo the
\* number of positions.
LEMMA MarkStep ==
    ASSUME NEW c \in Nat, NEW t \in Nat, NEW h \in 0 .. LEN - 2, t <= COUNTS * h
    PROVE  LET k == Mark(c + t) - Mark(c)
           IN k \in 0 .. h \/ k + (LEN - 1) \in 0 .. h
<1> DEFINE N == LEN - 1
           i == Mark(c)
           j == Mark(c + t)
           x == Within(c)
           y == Within(c + t)
<1>1. COUNTS \in Nat \ {0} /\ N \in Nat /\ N >= 3 /\ h \in Nat /\ h < N
  BY KnobAssumption
<1>2. COUNTS * N \in Nat \ {0}
  BY TurnCounts
<1>3. /\ x \in 0 .. COUNTS * N - 1 /\ i \in 0 .. N - 1
      /\ COUNTS * i <= x /\ x < COUNTS * (i + 1)
  BY MarkBounds, KnobAssumption
<1>4. /\ y \in 0 .. COUNTS * N - 1 /\ j \in 0 .. N - 1
      /\ COUNTS * j <= y /\ y < COUNTS * (j + 1)
  BY MarkBounds, KnobAssumption, c + t \in Nat
<1>5. COUNTS * h < COUNTS * N
  <2>1. COUNTS * (N - h) = COUNTS * N - COUNTS * h
    BY <1>1
  <2>2. PICK d \in Nat : N - h = d + 1
    BY <1>1, N - h - 1 \in Nat
  <2>3. COUNTS * (d + 1) = COUNTS * d + COUNTS /\ COUNTS * d \in Nat
    BY <1>1
  <2> HIDE DEF N
  <2> QED BY <1>1, <2>1, <2>2, <2>3
<1>6. t \in 0 .. COUNTS * N - 1
  BY <1>1, <1>2, <1>5
<1>7. y = x + t \/ y = x + t - COUNTS * N
  <2>1. 100 * LEN + c \in Nat /\ 100 * LEN + (c + t) = (100 * LEN + c) + t
    BY KnobAssumption
  <2> DEFINE P == COUNTS * N
  <2>2. P \in Nat \ {0} /\ t \in 0 .. P - 1
    BY <1>2, <1>6
  <2> HIDE DEF P
  <2>3. ((100 * LEN + c) + t) % P \in {((100 * LEN + c) % P) + t, ((100 * LEN + c) % P) + t - P}
    BY <2>1, <2>2, ModStep
  <2> QED BY <2>1, <2>3 DEF P, Within
<1> HIDE DEF N, i, j, x, y
<1>8. CASE y = x + t
  <2>1. COUNTS * i < COUNTS * (j + 1)
    BY <1>1, <1>2, <1>3, <1>4, <1>8
  <2>2. COUNTS * (i + 1) + COUNTS * h = COUNTS * (i + 1 + h)
    BY <1>1, <1>3
  <2>3. COUNTS * j < COUNTS * (i + 1 + h)
    BY <1>1, <1>2, <1>3, <1>4, <1>8, <2>2
  <2>4. i < j + 1 /\ j < i + 1 + h
    BY <1>1, <1>3, <1>4, <2>1, <2>3, FactorLess
  <2> QED BY <1>1, <1>3, <1>4, <2>4 DEF i, j
<1>9. CASE y = x + t - COUNTS * N
  <2>1. COUNTS * (i - N) = COUNTS * i - COUNTS * N
    BY <1>1, <1>3
  <2>2. COUNTS * (i - N) < COUNTS * (j + 1)
    BY <1>1, <1>2, <1>3, <1>4, <1>9, <2>1
  <2>3. COUNTS * (i + 1) + COUNTS * h - COUNTS * N = COUNTS * (i + 1 + h - N)
    BY <1>1, <1>3
  <2>4. COUNTS * j < COUNTS * (i + 1 + h - N)
    BY <1>1, <1>2, <1>3, <1>4, <1>9, <2>3
  <2>5. i - N < j + 1 /\ j < i + 1 + h - N
    BY <1>1, <1>3, <1>4, <2>2, <2>4, FactorLess
  <2> QED BY <1>1, <1>3, <1>4, <2>5 DEF i, j, N
<1> QED BY <1>7, <1>8, <1>9

\* get_encoder_pos_delta tells the direction of a small turn, also when the
\* positions wrap in between (the delta is then one too large).
LEMMA DeltaTellsDirection ==
    ASSUME NEW a \in Nat, NEW b \in Nat, b - a \in 1 .. SmallTurn
    PROVE  /\ DeltaOf(PosOf(b), PosOf(a)) \in 0 .. LEN - 1
           /\ DeltaOf(PosOf(a), PosOf(b)) \in -LEN .. 0
<1> DEFINE h == (LEN - 1) \div 2 - 1
           k == Mark(b) - Mark(a)
<1>1. LEN \in Nat /\ LEN >= 4 /\ COUNTS \in Nat \ {0} /\ h \in 0 .. LEN - 2
  BY KnobAssumption
<1>2. b = a + (b - a) /\ b - a \in Nat /\ b - a <= COUNTS * h
  BY <1>1 DEF SmallTurn
<1>3. k \in 0 .. h \/ k + (LEN - 1) \in 0 .. h
  BY <1>1, <1>2, MarkStep
<1>4. /\ PosOf(a) \in 1 .. LEN - 1 /\ PosOf(b) \in 1 .. LEN - 1
      /\ PosOf(b) - PosOf(a) = k /\ PosOf(a) - PosOf(b) = -k /\ k \in Int
  BY <1>1, MarkBounds, PosIsMark
<1> HIDE DEF k
<1> QED BY <1>1, <1>3, <1>4 DEF DeltaOf

-----------------------------------------------------------------------------
(* Types.                                                                  *)

\* Neither button B nor the knob sets what a motor cannot do.
LEMMA NextActionType ==
    ASSUME NEW m \in Motors, NEW a \in ActionsOf(m)
    PROVE  NextAction(a) \in ActionsOf(m)
BY RangeAssumption DEF ActionsOf, MotorActions, NextAction, Plain, Velocity, Position

LEMMA TurnedActionType ==
    ASSUME NEW m \in Motors, NEW a \in ActionsOf(m), NEW d \in Int
    PROVE  TurnedAction(a, d, m) \in ActionsOf(m)
BY RangeAssumption DEF ActionsOf, MotorActions, TurnedAction, Velocity, Position, Clamp

\* The panel starts in one of its states.
LEMMA DefaultType ==
    DefaultHmi \in HmiStates
<1>1. ResetSetpoints \in [Motors -> MotorActions]
  BY DEF ResetSetpoints, MotorActions, Velocity
<1>2. \A m \in Motors : ResetSetpoints[m] \in ActionsOf(m)
  BY RangeAssumption DEF ResetSetpoints, MotorActions, Velocity, ActionsOf
<1>3. DEFAULT_PARAM \in [Params -> Nat] /\ \A p \in Params : DEFAULT_PARAM[p] <= MAX_PARAM[p]
  BY RangeAssumption
<1>4. MOTORS[1] \in Motors /\ PARAMS[1] \in Params
  BY DEF MOTORS, PARAMS, Motors, Params
<1>5. 0 \in 0 .. LEN - 1
  BY KnobAssumption
<1> QED BY <1>1, <1>2, <1>3, <1>4, <1>5 DEF DefaultHmi, HmiStates, ControlModes, OverlayModes

\* Setting the selected motor.
LEMMA WithMotorActionType ==
    ASSUME NEW h \in HmiStates, NEW a \in ActionsOf(h.selected_motor)
    PROVE  WithMotorAction(h, a) \in HmiStates
BY DEF WithMotorAction, HmiStates, ActionsOf

\* Every button leads to a state of the panel and leaves the knob's position.
LEMMA ButtonType ==
    ASSUME hmi \in HmiStates, NEW b \in Buttons
    PROVE  /\ ButtonHandler(b) \in HmiStates
           /\ ButtonHandler(b).encoder_pos = hmi.encoder_pos
<1>1. hmi.selected_motor \in Motors /\ CurrentMotorAction \in ActionsOf(hmi.selected_motor)
  BY DEF HmiStates, CurrentMotorAction
<1>2. CASE b = "A"
  BY <1>2 DEF ButtonHandler, ButtonA, Flip, HmiStates, ControlModes
<1>3. CASE b = "B"
  <2>1. CASE hmi.control_mode = "Manual"
    <3>1. ButtonHandler(b) = WithMotorAction(hmi, NextAction(CurrentMotorAction))
      BY <1>3, <2>1 DEF ButtonHandler, ButtonB
    <3>2. ButtonHandler(b) \in HmiStates
      BY <1>1, <3>1, NextActionType, WithMotorActionType
    <3> QED BY <3>1, <3>2 DEF WithMotorAction, HmiStates
  <2>2. CASE hmi.control_mode # "Manual"
    BY <1>3, <2>2 DEF ButtonHandler, ButtonB, NextOverlay, HmiStates, OverlayModes
  <2> QED BY <2>1, <2>2
<1>4. CASE b = "C"
  BY <1>4 DEF ButtonHandler, ButtonC, HmiStates
<1>5. CASE b = "D"
  <2>1. CASE hmi.enable
    BY <1>5, <2>1 DEF ButtonHandler, ButtonD, StopAll, HmiStates, OverlayModes
  <2>2. CASE ~hmi.enable
    <3>1. ButtonHandler(b) = ResetAll
      BY <1>5, <2>2 DEF ButtonHandler, ButtonD
    <3>2. ResetAll \in HmiStates /\ ResetAll.encoder_pos = hmi.encoder_pos
      BY DefaultType DEF ResetAll, HmiStates
    <3> QED BY <3>1, <3>2
  <2> QED BY <2>1, <2>2
<1>6. CASE b = "Knob"
  BY <1>6 DEF ButtonHandler, ButtonKnob, NextSelection, HmiStates, ControlModes
<1> QED BY <1>2, <1>3, <1>4, <1>5, <1>6 DEF Buttons

\* A turn is a number of positions, forwards or backwards.
LEMMA DeltaType ==
    ASSUME NEW p \in Int, NEW r \in Int
    PROVE  DeltaOf(p, r) \in Int
BY KnobAssumption DEF DeltaOf

\* A turned parameter stays within its range, the wrapped zero line too.
LEMMA TurnedParamType ==
    ASSUME hmi \in HmiStates, NEW p \in Params, NEW d \in Int
    PROVE  TurnedParam(p, d) \in 0 .. MAX_PARAM[p]
<1>1. hmi.parameter_setpoints[p] \in Nat /\ hmi.parameter_setpoints["ZeroLine"] \in Nat
  BY DEF HmiStates, Params
<1>2. MAX_PARAM[p] \in Nat /\ WORD \in Nat \ {0}
  BY RangeAssumption
<1>3. ZeroLineSum(d) % WORD \in Int
  BY <1>1, <1>2 DEF ZeroLineSum
<1> QED BY <1>1, <1>2, <1>3 DEF TurnedParam, Clamp

\* Turning leads to a state of the panel and takes over the knob's position.
LEMMA TurnType ==
    ASSUME hmi \in HmiStates, NEW pos \in 1 .. LEN - 1, NEW d \in Int
    PROVE  /\ TurnHandler(pos, d) \in HmiStates
           /\ TurnHandler(pos, d).encoder_pos = pos
<1>1. pos \in 0 .. LEN - 1
  BY KnobAssumption
<1>2. CASE hmi.overlay_mode # "Default"
  BY <1>1, <1>2 DEF TurnHandler, HmiStates
<1>3. CASE hmi.overlay_mode = "Default" /\ hmi.control_mode = "Manual"
  <2>1. TurnHandler(pos, d) = TurnManual(pos, d)
    BY <1>3 DEF TurnHandler
  <2>2. CASE hmi.motor_selection
    <3> DEFINE h == [hmi EXCEPT !.encoder_pos = pos]
               a == TurnedAction(CurrentMotorAction, d, hmi.selected_motor)
    <3>1. h \in HmiStates /\ h.selected_motor = hmi.selected_motor /\ h.encoder_pos = pos
      BY <1>1 DEF HmiStates
    <3>2. a \in ActionsOf(h.selected_motor)
      <4>1. hmi.selected_motor \in Motors /\ CurrentMotorAction \in ActionsOf(hmi.selected_motor)
        BY DEF HmiStates, CurrentMotorAction
      <4> QED BY <3>1, <4>1, TurnedActionType
    <3>3. TurnManual(pos, d) = WithMotorAction(h, a)
      BY <2>2 DEF TurnManual
    <3> HIDE DEF h, a
    <3>4. WithMotorAction(h, a) \in HmiStates
      BY <3>1, <3>2, WithMotorActionType
    <3>5. WithMotorAction(h, a).encoder_pos = pos
      BY <3>1 DEF WithMotorAction, HmiStates
    <3> QED BY <2>1, <3>3, <3>4, <3>5
  <2>3. CASE ~hmi.motor_selection
    <3>1. FromIdx(MOTORS, pos) \in Motors
      BY DEF FromIdx, MOTORS, Motors
    <3> QED BY <1>1, <2>1, <2>3, <3>1 DEF TurnManual, HmiStates
  <2> QED BY <2>2, <2>3
<1>4. CASE hmi.overlay_mode = "Default" /\ hmi.control_mode = "Vision"
  <2>1. TurnHandler(pos, d) = TurnVision(pos, d)
    BY <1>4 DEF TurnHandler
  <2>2. CASE hmi.parameter_selection
    <3>1. hmi.selected_parameter \in Params
      BY DEF HmiStates
    <3>2. TurnedParam(hmi.selected_parameter, d) \in 0 .. MAX_PARAM[hmi.selected_parameter]
      BY <3>1, TurnedParamType
    <3> DEFINE v == TurnedParam(hmi.selected_parameter, d)
               f == [hmi.parameter_setpoints EXCEPT ![hmi.selected_parameter] = v]
    <3>3. v \in Nat /\ v <= MAX_PARAM[hmi.selected_parameter]
      BY <3>1, <3>2, RangeAssumption
    <3>4. TurnVision(pos, d) = [hmi EXCEPT !.parameter_setpoints = f, !.encoder_pos = pos]
      BY <2>2 DEF TurnVision, HmiStates
    <3> HIDE DEF v
    <3>5. f \in [Params -> Nat] /\ \A p \in Params : f[p] <= MAX_PARAM[p]
      BY <3>1, <3>3 DEF HmiStates
    <3> HIDE DEF f
    <3> QED BY <1>1, <2>1, <3>4, <3>5 DEF HmiStates
  <2>3. CASE ~hmi.parameter_selection
    <3>1. FromIdx(PARAMS, pos) \in Params
      BY DEF FromIdx, PARAMS, Params
    <3> QED BY <1>1, <2>1, <2>3, <3>1 DEF TurnVision, HmiStates
  <2> QED BY <2>2, <2>3
<1> QED BY <1>2, <1>3, <1>4 DEF HmiStates, ControlModes

-----------------------------------------------------------------------------
(* The invariant.                                                          *)

\* The panel's position is that of the count it handled last; before the first
\* sample has been handled nothing else has happened.
KnobInv ==
    IF Booted THEN ~panicked => hmi.encoder_pos = PosOf(handled)
    ELSE hmi = DefaultHmi /\ pressed = {} /\ count = 0 /\ handled = 0

\* The inductive invariant.
IndInv == TypeOK /\ KnobInv

\* A booted panel that did not panic has a position of the knob.
LEMMA HandledPosition ==
    ASSUME IndInv
    PROVE  /\ count \in Nat /\ handled \in Nat
           /\ PosOf(count) \in 1 .. LEN - 1
           /\ hmi.encoder_pos \in Int
           /\ DeltaOf(PosOf(count), hmi.encoder_pos) \in Int
<1>1. count \in Nat /\ handled \in Nat
  BY KnobAssumption DEF IndInv, TypeOK
<1>2. PosOf(count) \in 1 .. LEN - 1
  BY <1>1, PosIsMark
<1>3. hmi.encoder_pos \in Int
  BY KnobAssumption DEF IndInv, TypeOK, HmiStates
<1>4. PosOf(count) \in Int
  BY <1>2, KnobAssumption
<1>5. DeltaOf(PosOf(count), hmi.encoder_pos) \in Int
  BY <1>3, <1>4, DeltaType
<1> QED BY <1>1, <1>2, <1>3, <1>5

\* It holds at the start.
LEMMA InitInv ==
    Init => IndInv
<1> SUFFICES ASSUME Init
             PROVE  IndInv
  OBVIOUS
<1>1. hmi \in HmiStates /\ hmi.encoder_pos = 0
  BY DefaultType DEF Init, DefaultHmi
<1>2. 0 \in 0 .. COUNT_MOD - 1 /\ 0 \in 0 .. MaxInputs
  BY KnobAssumption, RangeAssumption
<1>3. TypeOK
  BY <1>1, <1>2 DEF Init, TypeOK
<1> QED BY <1>1, <1>3 DEF Init, IndInv, KnobInv, Booted

\* A turn that is handled, with its position and delta.
LEMMA TurnStep ==
    ASSUME IndInv, HandleTurn
    PROVE  /\ hmi' \in HmiStates
           /\ IndInv'
<1> DEFINE pos == PosOf(count)
           delta == DeltaOf(pos, hmi.encoder_pos)
<1>1. pos \in 1 .. LEN - 1 /\ delta \in Int
  BY HandledPosition
<1>2. hmi \in HmiStates
  BY DEF IndInv, TypeOK
<1>3. /\ ~panicked /\ turned' = FALSE /\ handled' = count
      /\ UNCHANGED <<pressed, count, inputs>>
  BY DEF HandleTurn
<1>4. \/ TurnPanics(delta) /\ panicked' = TRUE /\ UNCHANGED hmi
      \/ hmi' = TurnHandler(pos, delta) /\ UNCHANGED panicked
  BY DEF HandleTurn
<1> HIDE DEF pos, delta
<1>5. CASE TurnPanics(delta) /\ panicked' = TRUE /\ UNCHANGED hmi
  <2>1. Booted'
    BY <1>5 DEF IndInv, KnobInv, Booted, TurnPanics, DefaultHmi
  <2>2. TypeOK'
    BY <1>2, <1>3, <1>5 DEF IndInv, TypeOK
  <2> QED BY <1>2, <1>5, <2>1, <2>2 DEF IndInv, KnobInv
<1>6. CASE hmi' = TurnHandler(pos, delta) /\ UNCHANGED panicked
  <2>1. hmi' \in HmiStates /\ hmi'.encoder_pos = pos
    BY <1>1, <1>2, <1>6, TurnType
  <2>2. Booted'
    BY <1>1, <2>1, KnobAssumption DEF Booted
  <2>3. TypeOK'
    BY <1>3, <1>6, <2>1 DEF IndInv, TypeOK
  <2>4. hmi'.encoder_pos = PosOf(handled')
    BY <1>3, <2>1 DEF pos
  <2>5. PosOf(handled)' = PosOf(handled')
    BY DEF PosOf
  <2> QED BY <2>1, <2>2, <2>3, <2>4, <2>5 DEF IndInv, KnobInv
<1> QED BY <1>4, <1>5, <1>6

\* A button keeps it.
LEMMA ButtonStep ==
    ASSUME IndInv, NEW b \in Buttons, HandleButton(b)
    PROVE  IndInv'
<1>1. hmi \in HmiStates
  BY DEF IndInv, TypeOK
<1>2. hmi' \in HmiStates /\ hmi'.encoder_pos = hmi.encoder_pos
  BY <1>1, ButtonType DEF HandleButton
<1>3. TypeOK'
  BY <1>2 DEF IndInv, TypeOK, HandleButton
<1>4. Booted
  BY DEF IndInv, KnobInv, HandleButton
<1>5. KnobInv'
  BY <1>2, <1>4 DEF IndInv, KnobInv, Booted, HandleButton, PosOf
<1> QED BY <1>3, <1>5 DEF IndInv

\* The operator's hand and the sampling of the knob keep it.
LEMMA OperatorStep ==
    ASSUME IndInv, Operator
    PROVE  IndInv' /\ UNCHANGED <<handled, hmi, panicked>>
<1>1. Booted
  BY DEF Operator
<1>2. CASE \E b \in Buttons : Press(b)
  <2>1. PICK b \in Buttons : Press(b)
    BY <1>2
  <2>2. inputs + 1 \in 0 .. MaxInputs
    BY <2>1, RangeAssumption DEF IndInv, TypeOK, Press
  <2>3. TypeOK'
    BY <2>1, <2>2 DEF IndInv, TypeOK, Press
  <2> QED BY <1>1, <2>1, <2>3 DEF IndInv, KnobInv, Booted, Press, PosOf
<1>3. CASE \E d \in Turns \cup {0} : Sample(d)
  <2>1. PICK d \in Turns \cup {0} : Sample(d)
    BY <1>3
  <2>2. d \in Int
    BY RangeAssumption
  <2>3. count' \in 0 .. COUNT_MOD - 1
    <3>1. count \in Int
      BY KnobAssumption DEF IndInv, TypeOK
    <3>2. count + d \in Int /\ COUNT_MOD \in Nat \ {0}
      BY <2>2, <3>1, KnobAssumption
    <3>3. (count + d) % COUNT_MOD \in 0 .. COUNT_MOD - 1
      BY <3>2
    <3> QED BY <2>1, <3>3 DEF Sample
  <2>4. inputs' \in 0 .. MaxInputs
    BY <2>1, RangeAssumption DEF IndInv, TypeOK, Sample
  <2>5. UNCHANGED <<pressed, handled, hmi, panicked>> /\ turned' = TRUE
    BY <2>1 DEF Sample
  <2>6. TypeOK'
    BY <2>3, <2>4, <2>5 DEF IndInv, TypeOK
  <2> QED BY <1>1, <2>5, <2>6 DEF IndInv, KnobInv, Booted, PosOf
<1> QED BY <1>2, <1>3 DEF Operator

\* Every step keeps it.
LEMMA InvStep ==
    IndInv /\ [Next]_vars => IndInv'
<1> SUFFICES ASSUME IndInv, [Next]_vars
             PROVE  IndInv'
  OBVIOUS
<1>1. CASE Operator
  BY <1>1, OperatorStep
<1>2. CASE \E b \in Buttons : HandleButton(b)
  BY <1>2, ButtonStep
<1>3. CASE HandleTurn
  BY <1>3, TurnStep
<1>4. CASE UNCHANGED vars
  BY <1>4 DEF vars, panel, IndInv, TypeOK, KnobInv, Booted, PosOf
<1> QED BY <1>1, <1>2, <1>3, <1>4 DEF Next, Supervise

\* The panel's states are well formed and its position is the handled one, for
\* every run of the supervisor and every operator.
THEOREM Invariance ==
    Spec => []IndInv
BY InitInv, InvStep, PTL DEF Spec

\* Every value of the panel stays within its limits, whatever is pressed and
\* turned.
THEOREM TypeCorrect ==
    Spec => []TypeOK
<1>1. IndInv => TypeOK
  BY DEF IndInv
<1> QED BY <1>1, Invariance, PTL

-----------------------------------------------------------------------------
(* What a step does to the speeds.                                         *)

\* A setpoint is one of its motor and has a number.
LEMMA SetpointType ==
    ASSUME hmi \in HmiStates, NEW m \in Motors
    PROVE  /\ hmi.motor_setpoints[m] \in ActionsOf(m)
           /\ hmi.motor_setpoints[m].v \in Int
<1>1. hmi.motor_setpoints[m] \in ActionsOf(m)
  BY DEF HmiStates
<1>2. hmi.motor_setpoints[m] \in MotorActions
  BY <1>1 DEF ActionsOf
<1> QED BY <1>1, <1>2 DEF MotorActions

\* A button leaves a setpoint or makes its numbers zero.
LEMMA ButtonSpeeds ==
    ASSUME hmi \in HmiStates, NEW b \in Buttons, NEW m \in Motors
    PROVE  /\ ButtonHandler(b).motor_setpoints[m].v \in {0, hmi.motor_setpoints[m].v}
           /\ UnderWay(ButtonHandler(b).motor_setpoints[m]) =>
                  UnderWay(hmi.motor_setpoints[m])
<1>1. CASE b = "B" /\ hmi.control_mode = "Manual"
  <2>1. ButtonHandler(b) = [hmi EXCEPT !.motor_setpoints[hmi.selected_motor] =
                                NextAction(hmi.motor_setpoints[hmi.selected_motor])]
    BY <1>1 DEF ButtonHandler, ButtonB, WithMotorAction, CurrentMotorAction
  <2>2. ButtonHandler(b).motor_setpoints[m] =
            IF m = hmi.selected_motor THEN NextAction(hmi.motor_setpoints[m])
            ELSE hmi.motor_setpoints[m]
    BY <2>1 DEF HmiStates
  <2>3. hmi.motor_setpoints[m] \in MotorActions
    BY SetpointType DEF ActionsOf
  <2>4. /\ NextAction(hmi.motor_setpoints[m]).v = 0
        /\ ~UnderWay(NextAction(hmi.motor_setpoints[m]))
    BY <2>3 DEF MotorActions, NextAction, Plain, Velocity, Position, UnderWay
  <2> QED BY <2>2, <2>4
<1>2. CASE b = "D" /\ ~hmi.enable
  <2>1. ButtonHandler(b).motor_setpoints = ResetSetpoints
    BY <1>2 DEF ButtonHandler, ButtonD, ResetAll, DefaultHmi
  <2> QED BY <2>1 DEF ResetSetpoints, Velocity, UnderWay
<1>3. CASE b \in {"A", "C", "Knob"} \/ (b = "B" /\ hmi.control_mode # "Manual") \/ (b = "D" /\ hmi.enable)
  <2>1. ButtonHandler(b).motor_setpoints = hmi.motor_setpoints
    BY <1>3 DEF HmiStates, ControlModes, ButtonHandler, ButtonA, ButtonB, ButtonC, ButtonD, ButtonKnob, StopAll
  <2> QED BY <2>1
<1> QED BY <1>1, <1>2, <1>3 DEF Buttons

\* A turn sets the speed of the selected motor, in one mode, and no other.
LEMMA TurnSpeeds ==
    ASSUME hmi \in HmiStates, NEW pos, NEW d, NEW m \in Motors
    PROVE  TurnHandler(pos, d).motor_setpoints[m] =
               IF KnobSets(m) THEN TurnedAction(hmi.motor_setpoints[m], d, m)
               ELSE hmi.motor_setpoints[m]
<1>1. hmi.control_mode \in {"Manual", "Vision"}
  BY DEF HmiStates, ControlModes
<1>2. CASE hmi.control_mode = "Manual" /\ hmi.overlay_mode = "Default" /\ hmi.motor_selection
  <2>1. TurnHandler(pos, d) =
            [[hmi EXCEPT !.encoder_pos = pos] EXCEPT !.motor_setpoints[hmi.selected_motor] =
                TurnedAction(hmi.motor_setpoints[hmi.selected_motor], d, hmi.selected_motor)]
    BY <1>2 DEF TurnHandler, TurnManual, WithMotorAction, CurrentMotorAction, HmiStates
  <2> QED BY <1>2, <2>1 DEF HmiStates, KnobSets
<1>3. CASE ~(hmi.control_mode = "Manual" /\ hmi.overlay_mode = "Default" /\ hmi.motor_selection)
  <2>1. TurnHandler(pos, d).motor_setpoints = hmi.motor_setpoints
    BY <1>1, <1>3 DEF TurnHandler, TurnManual, TurnVision, HmiStates
  <2> QED BY <1>3, <2>1 DEF KnobSets
<1> QED BY <1>2, <1>3

\* A sample of a knob that has not been turned leaves the numbers, and no sample
\* makes a position setpoint of another one.
LEMMA UnturnedAction ==
    ASSUME NEW m \in Motors, NEW a \in ActionsOf(m), NEW d \in Int
    PROVE  /\ d = 0 => TurnedAction(a, d, m).v = a.v
           /\ UnderWay(TurnedAction(a, d, m)) => a.kind = "MovePosition"
BY RangeAssumption
DEF ActionsOf, MotorActions, TurnedAction, Velocity, Position, Clamp, UnderWay

\* No sequence of buttons gives a motor a number, and neither does a sample of a
\* knob that has not been turned.
THEOREM MotorsNeedTheKnob ==
    Spec => OnlyKnobSetsMotors
<1> DEFINE Step ==
        \A m \in Motors :
           LET old == hmi.motor_setpoints[m]
               new == hmi'.motor_setpoints[m]
           IN /\ new.v \notin {0, old.v} => KnobSets(m) /\ handled' # handled
              /\ UnderWay(new) /\ ~UnderWay(old) =>
                    KnobSets(m) /\ turned /\ ~turned' /\ old.kind = "MovePosition"
<1>1. ASSUME IndInv, Next
      PROVE  Step
  <2> SUFFICES ASSUME NEW m \in Motors
               PROVE  LET old == hmi.motor_setpoints[m]
                          new == hmi'.motor_setpoints[m]
                      IN /\ new.v \notin {0, old.v} => KnobSets(m) /\ handled' # handled
                         /\ UnderWay(new) /\ ~UnderWay(old) =>
                               /\ KnobSets(m) /\ turned /\ ~turned'
                               /\ old.kind = "MovePosition"
    OBVIOUS
  <2> DEFINE old == hmi.motor_setpoints[m]
             new == hmi'.motor_setpoints[m]
  <2>1. hmi \in HmiStates /\ old \in ActionsOf(m)
    BY <1>1, SetpointType DEF IndInv, TypeOK
  <2>2. CASE Operator
    BY <1>1, <2>2, OperatorStep
  <2>3. CASE \E b \in Buttons : HandleButton(b)
    BY <2>1, <2>3, ButtonSpeeds DEF HandleButton
  <2>4. CASE HandleTurn
    <3> DEFINE pos == PosOf(count)
               d == DeltaOf(pos, hmi.encoder_pos)
    <3>1. pos \in 1 .. LEN - 1 /\ d \in Int
      BY <1>1, HandledPosition
    <3>2. ~panicked /\ turned /\ turned' = FALSE /\ handled' = count
      BY <2>4 DEF HandleTurn
    <3>3. CASE hmi' = hmi
      BY <3>3
    <3>4. CASE hmi' = TurnHandler(pos, d)
      <4>1. KnobSets(m) /\ handled' = handled => d = 0
        <5> SUFFICES ASSUME KnobSets(m), handled' = handled
                     PROVE  d = 0
          OBVIOUS
        <5>1. Booted
          BY <1>1 DEF IndInv, KnobInv, KnobSets, DefaultHmi
        <5>2. hmi.encoder_pos = PosOf(handled)
          BY <1>1, <3>2, <5>1 DEF IndInv, KnobInv
        <5>3. pos = hmi.encoder_pos
          BY <3>2, <5>2
        <5> QED BY <3>1, <5>3, KnobAssumption DEF DeltaOf
      <4> HIDE DEF pos, d
      <4>2. new = IF KnobSets(m) THEN TurnedAction(old, d, m) ELSE old
        BY <2>1, <3>4, TurnSpeeds
      <4> QED BY <2>1, <3>1, <3>2, <4>1, <4>2, UnturnedAction
    <3>5. hmi' = hmi \/ hmi' = TurnHandler(pos, d)
      BY <2>4 DEF HandleTurn
    <3> QED BY <3>3, <3>4, <3>5
  <2> QED BY <1>1, <2>2, <2>3, <2>4 DEF Next, Supervise
<1>2. ASSUME IndInv, [Next]_vars
      PROVE  [Step]_vars
  BY <1>1, <1>2
<1> HIDE DEF Step
<1>3. [][Step]_vars <=> OnlyKnobSetsMotors
  BY PTL DEF Step, OnlyKnobSetsMotors
<1> QED BY <1>2, <1>3, Invariance, PTL DEF Spec

-----------------------------------------------------------------------------
(* The direction of a turn.                                                *)

\* A handled turn: either the panel panics or the handler ran, and a small turn
\* from the count handled last has a delta of its sign.
LEMMA SmallTurns ==
    ASSUME IndInv, [Next]_vars, handled' # handled
    PROVE  \E pos \in 1 .. LEN - 1, d \in Int :
             /\ \/ TurnPanics(d) /\ panicked' /\ hmi' = hmi
                \/ ~TurnPanics(d) /\ hmi' = TurnHandler(pos, d) /\ panicked' = panicked
             /\ handled' - handled \in 1 .. SmallTurn => d \in 0 .. LEN - 1
             /\ handled - handled' \in 1 .. SmallTurn => d \in -LEN .. 0
<1> DEFINE pos == PosOf(count)
           d == DeltaOf(pos, hmi.encoder_pos)
<1>1. pos \in 1 .. LEN - 1 /\ d \in Int /\ count \in Nat /\ handled \in Nat
  BY HandledPosition
<1>2. HandleTurn
  <2>1. ~Operator
    BY OperatorStep
  <2>2. \A b \in Buttons : ~HandleButton(b)
    BY DEF HandleButton
  <2>3. ~UNCHANGED vars
    BY DEF vars
  <2> QED BY <2>1, <2>2, <2>3 DEF Next, Supervise
<1>3. ~panicked /\ handled' = count
  BY <1>2 DEF HandleTurn
<1>4. hmi.encoder_pos = PosOf(handled)
  BY <1>3 DEF IndInv, KnobInv
<1>5. count - handled \in 1 .. SmallTurn => d \in 0 .. LEN - 1
  BY <1>1, <1>4, DeltaTellsDirection
<1>6. handled - count \in 1 .. SmallTurn => d \in -LEN .. 0
  BY <1>1, <1>4, DeltaTellsDirection
<1>7. \/ TurnPanics(d) /\ panicked' /\ hmi' = hmi
      \/ ~TurnPanics(d) /\ hmi' = TurnHandler(pos, d) /\ panicked' = panicked
  BY <1>2 DEF HandleTurn
<1> HIDE DEF pos, d
<1> QED BY <1>1, <1>3, <1>5, <1>6, <1>7

\* A speed goes where the knob goes, up to the end of its range.
LEMMA TurnedActionFollows ==
    ASSUME NEW m \in Motors, NEW a \in ActionsOf(m), NEW d \in Int
    PROVE  /\ d >= 0 => a.v <= TurnedAction(a, d, m).v
           /\ d <= 0 => TurnedAction(a, d, m).v <= a.v
BY RangeAssumption DEF ActionsOf, MotorActions, TurnedAction, Velocity, Position, Clamp

\* So do all speeds of the panel.
LEMMA SpeedsFollow ==
    ASSUME hmi \in HmiStates, NEW pos, NEW d \in Int
    PROVE  /\ d >= 0 => NoneFalls(Speeds(hmi), Speeds(TurnHandler(pos, d)))
           /\ d <= 0 => NoneFalls(Speeds(TurnHandler(pos, d)), Speeds(hmi))
<1> DEFINE h == TurnHandler(pos, d)
<1>1. ASSUME NEW m \in Motors
      PROVE  /\ d >= 0 => hmi.motor_setpoints[m].v <= h.motor_setpoints[m].v
             /\ d <= 0 => h.motor_setpoints[m].v <= hmi.motor_setpoints[m].v
  <2>1. hmi.motor_setpoints[m] \in ActionsOf(m) /\ hmi.motor_setpoints[m].v \in Int
    BY <1>1, SetpointType
  <2>2. CASE KnobSets(m)
    BY <1>1, <2>1, <2>2, TurnSpeeds, TurnedActionFollows
  <2>3. CASE ~KnobSets(m)
    BY <1>1, <2>1, <2>3, TurnSpeeds
  <2> QED BY <2>2, <2>3
<1> HIDE DEF h
<1>2. /\ d >= 0 => NoneFalls(Speeds(hmi), Speeds(h))
      /\ d <= 0 => NoneFalls(Speeds(h), Speeds(hmi))
  BY <1>1 DEF NoneFalls, Speeds
<1> QED BY <1>2 DEF h

\* A turn sets the selected parameter, in one mode, and no other.
LEMMA TurnParams ==
    ASSUME hmi \in HmiStates, NEW pos, NEW d, NEW p \in Params
    PROVE  TurnHandler(pos, d).parameter_setpoints[p] =
               IF /\ hmi.overlay_mode = "Default" /\ hmi.control_mode = "Vision"
                  /\ hmi.parameter_selection /\ hmi.selected_parameter = p
               THEN TurnedParam(p, d)
               ELSE hmi.parameter_setpoints[p]
<1>1. hmi.control_mode \in {"Manual", "Vision"}
  BY DEF HmiStates, ControlModes
<1>2. CASE hmi.control_mode = "Vision" /\ hmi.overlay_mode = "Default" /\ hmi.parameter_selection
  <2>1. TurnHandler(pos, d) = [hmi EXCEPT !.parameter_setpoints[hmi.selected_parameter] =
                                   TurnedParam(hmi.selected_parameter, d), !.encoder_pos = pos]
    BY <1>2 DEF TurnHandler, TurnVision
  <2> QED BY <1>2, <2>1 DEF HmiStates
<1>3. CASE ~(hmi.control_mode = "Vision" /\ hmi.overlay_mode = "Default" /\ hmi.parameter_selection)
  <2>1. TurnHandler(pos, d).parameter_setpoints = hmi.parameter_setpoints
    BY <1>1, <1>3 DEF TurnHandler, TurnManual, TurnVision, WithMotorAction, HmiStates
  <2> QED BY <1>3, <2>1
<1> QED BY <1>2, <1>3

\* Raising the zero line stays within the word, so the sum is what was meant.
LEMMA RaisedZeroLine ==
    ASSUME hmi \in HmiStates, NEW d \in 0 .. LEN - 1
    PROVE  /\ ZeroLineSum(d) \in Nat
           /\ ZeroLineSum(d) >= hmi.parameter_setpoints["ZeroLine"]
           /\ ZeroLineSum(d) < WORD
<1> DEFINE z == hmi.parameter_setpoints["ZeroLine"]
<1>1. z \in Nat /\ z <= MAX_PARAM["ZeroLine"] /\ "ZeroLine" \in Params
  BY DEF HmiStates, Params
<1>2. MAX_PARAM["ZeroLine"] \in Nat /\ WORD \in Nat \ {0} /\ MAX_PARAM["ZeroLine"] + LEN <= WORD
  BY <1>1, RangeAssumption
<1>3. d \in Nat /\ LEN \in Nat
  BY KnobAssumption
<1>4. d % WORD \in Nat
  BY <1>2, <1>3, DivMod
<1>5. d % WORD = d
  BY <1>2, <1>3
<1> HIDE DEF z
<1> QED BY <1>1, <1>2, <1>3, <1>4, <1>5 DEF ZeroLineSum, z

\* The parameters go where the knob goes, but for a zero line that is lowered.
LEMMA ParamsFollow ==
    ASSUME hmi \in HmiStates, NEW pos, NEW d \in Int
    PROVE  /\ d \in 0 .. LEN - 1 =>
                NoneFalls(hmi.parameter_setpoints, TurnHandler(pos, d).parameter_setpoints)
           /\ d <= 0 => NoneFalls(Tuning(TurnHandler(pos, d)), Tuning(hmi))
<1> DEFINE old == hmi.parameter_setpoints
           new == TurnHandler(pos, d).parameter_setpoints
<1>1. ASSUME NEW p \in Params
      PROVE  old[p] \in Nat /\ old[p] <= MAX_PARAM[p] /\ MAX_PARAM[p] \in Nat
  BY <1>1, RangeAssumption DEF HmiStates
<1>2. DOMAIN old = Params
  BY DEF HmiStates
<1>3. ASSUME NEW p \in Params, d \in 0 .. LEN - 1
      PROVE  old[p] <= new[p]
  <2>1. old[p] <= TurnedParam(p, d)
    <3>1. CASE p = "ZeroLine"
      <4>1. ZeroLineSum(d) \in Nat /\ ZeroLineSum(d) >= old[p] /\ ZeroLineSum(d) < WORD
        BY <1>3, <3>1, RaisedZeroLine
      <4>2. ZeroLineSum(d) % WORD = ZeroLineSum(d)
        BY <4>1, RangeAssumption
      <4> QED BY <1>1, <1>3, <3>1, <4>1, <4>2 DEF TurnedParam, Clamp
    <3>2. CASE p # "ZeroLine"
      BY <1>1, <1>3, <3>2 DEF TurnedParam, Clamp
    <3> QED BY <3>1, <3>2
  <2>2. new[p] \in {old[p], TurnedParam(p, d)}
    BY <1>3, TurnParams
  <2> QED BY <1>1, <1>3, <2>1, <2>2
<1>4. ASSUME NEW p \in Params \ {"ZeroLine"}, d <= 0
      PROVE  new[p] <= old[p]
  <2>1. TurnedParam(p, d) <= old[p]
    BY <1>1, <1>4 DEF TurnedParam, Clamp
  <2>2. new[p] \in {old[p], TurnedParam(p, d)}
    BY <1>4, TurnParams
  <2> QED BY <1>1, <1>4, <2>1, <2>2
<1> QED BY <1>2, <1>3, <1>4 DEF NoneFalls, Tuning

\* The knob's counter and its positions wrap at different counts; a turn of
\* less than half the positions is taken for one in its direction all the same.
THEOREM TurnsFollowHand ==
    Spec => KnobFollowsHand
<1> DEFINE Step ==
       /\ handled' - handled \in 1 .. SmallTurn =>
             /\ NoneFalls(Speeds(hmi), Speeds(hmi'))
             /\ NoneFalls(hmi.parameter_setpoints, hmi'.parameter_setpoints)
       /\ handled - handled' \in 1 .. SmallTurn =>
             /\ NoneFalls(Speeds(hmi'), Speeds(hmi))
             /\ NoneFalls(Tuning(hmi'), Tuning(hmi))
<1>1. ASSUME IndInv, [Next]_vars, handled' # handled
      PROVE  Step
  <2>1. hmi \in HmiStates
    BY <1>1 DEF IndInv, TypeOK
  <2>2. PICK pos \in 1 .. LEN - 1, d \in Int :
           /\ \/ TurnPanics(d) /\ panicked' /\ hmi' = hmi
              \/ ~TurnPanics(d) /\ hmi' = TurnHandler(pos, d) /\ panicked' = panicked
           /\ handled' - handled \in 1 .. SmallTurn => d \in 0 .. LEN - 1
           /\ handled - handled' \in 1 .. SmallTurn => d \in -LEN .. 0
    BY <1>1, SmallTurns
  <2>3. CASE hmi' = hmi
    <3>1. \A m \in Motors : hmi.motor_setpoints[m].v \in Int
      BY <2>1, SetpointType
    <3>2. /\ DOMAIN hmi.parameter_setpoints = Params
          /\ \A p \in Params : hmi.parameter_setpoints[p] \in Int
      BY <2>1 DEF HmiStates
    <3>3. /\ NoneFalls(Speeds(hmi), Speeds(hmi))
          /\ NoneFalls(hmi.parameter_setpoints, hmi.parameter_setpoints)
          /\ NoneFalls(Tuning(hmi), Tuning(hmi))
      BY <3>1, <3>2 DEF NoneFalls, Speeds, Tuning
    <3> QED BY <2>3, <3>3
  <2>4. CASE hmi' = TurnHandler(pos, d)
    <3>1. 0 .. LEN - 1 \subseteq Nat
      BY KnobAssumption
    <3>2. \A e \in -LEN .. 0 : e <= 0
      BY KnobAssumption
    <3>3. d \in 0 .. LEN - 1 => /\ NoneFalls(Speeds(hmi), Speeds(hmi'))
                                /\ NoneFalls(hmi.parameter_setpoints, hmi'.parameter_setpoints)
      BY <2>1, <2>4, <3>1, SpeedsFollow, ParamsFollow
    <3>4. d <= 0 => /\ NoneFalls(Speeds(hmi'), Speeds(hmi))
                    /\ NoneFalls(Tuning(hmi'), Tuning(hmi))
      BY <2>1, <2>4, SpeedsFollow, ParamsFollow
    <3> QED BY <2>2, <3>2, <3>3, <3>4
  <2> QED BY <2>2, <2>3, <2>4
<1>2. ASSUME IndInv, [Next]_vars
      PROVE  [Step]_vars
  <2>1. CASE handled' = handled
    <3>1. handled \in Int
      BY <1>2, HandledPosition
    <3>2. SmallTurn \in Int
      BY KnobAssumption DEF SmallTurn
    <3> QED BY <2>1, <3>1, <3>2
  <2> QED BY <1>1, <1>2, <2>1
<1> HIDE DEF Step
<1>3. [][Step]_vars <=> KnobFollowsHand
  BY PTL DEF Step, KnobFollowsHand
<1> QED BY <1>2, <1>3, Invariance, PTL DEF Spec

\* Nothing overflows but the zero line when it is lowered.
THEOREM PanicNeedsLowering ==
    Spec => PanicsOnlyLoweringZeroLine
<1> DEFINE Step ==
       panicked' /\ ~panicked =>
          /\ hmi.control_mode = "Vision" /\ hmi.selected_parameter = "ZeroLine"
          /\ handled' - handled \notin 1 .. SmallTurn
<1>1. ASSUME IndInv, [Next]_vars, panicked', ~panicked
      PROVE  Step
  <2>1. HandleTurn
    <3>1. ~Operator
      BY <1>1, OperatorStep
    <3>2. \A b \in Buttons : ~HandleButton(b)
      BY <1>1 DEF HandleButton
    <3>3. ~UNCHANGED vars
      BY <1>1 DEF vars
    <3> QED BY <1>1, <3>1, <3>2, <3>3 DEF Next, Supervise
  <2>2. hmi \in HmiStates
    BY <1>1 DEF IndInv, TypeOK
  <2>3. hmi.control_mode = "Vision" /\ hmi.selected_parameter = "ZeroLine"
    BY <1>1, <2>1 DEF HandleTurn, TurnPanics
  <2>4. ASSUME handled' - handled \in 1 .. SmallTurn
        PROVE  FALSE
    <3>1. handled' # handled
      BY <1>1, <2>4, HandledPosition
    <3>2. PICK d \in Int : TurnPanics(d) /\ d \in 0 .. LEN - 1
      BY <1>1, <2>4, <3>1, SmallTurns
    <3>3. ZeroLineSum(d) \in Nat /\ ZeroLineSum(d) < WORD
      BY <2>2, <3>2, RaisedZeroLine
    <3> QED BY <3>2, <3>3, RangeAssumption DEF TurnPanics
  <2> QED BY <2>3, <2>4
<1>2. ASSUME IndInv, [Next]_vars
      PROVE  [Step]_vars
  BY <1>1, <1>2
<1> HIDE DEF Step
<1>3. [][Step]_vars <=> PanicsOnlyLoweringZeroLine
  BY PTL DEF Step, PanicsOnlyLoweringZeroLine
<1> QED BY <1>2, <1>3, Invariance, PTL DEF Spec
=============================================================================
