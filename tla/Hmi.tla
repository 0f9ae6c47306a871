--------------------------------- MODULE Hmi ---------------------------------
(***************************************************************************)
(* The operator panel of the base station: four buttons, a knob that turns *)
(* and can be pressed, and the task supervise_hmi that maps them to the    *)
(* HmiState every other task of the base station follows.                  *)
(*                                                                         *)
(* A button's watch holds one event: a press that is not handled before    *)
(* the next one is merged with it.  The knob is a 16 bit hardware counter  *)
(* that manage_encoder samples every 100 ms into a watch of one slot.      *)
(* supervise_hmi waits for all six watches and serves the first that has   *)
(* something, in the order A, B, C, D, knob press, knob turn.              *)
(*                                                                         *)
(* Speeds and parameters are integers, in steps of the knob; the float     *)
(* arithmetic of the code adds and clamps multiples of these steps.        *)
(***************************************************************************)
EXTENDS Setpoints, Sequences

CONSTANTS
    LEN,            \* entries of COUNT_MAP: one more than the knob's positions
    COUNTS,         \* counts from one entry of COUNT_MAP to the next
    COUNT_MOD,      \* the hardware counter wraps here
    WORD,           \* the word zero_line_px is added in wraps here
    MAX_SPEED,      \* [Motors -> Nat], largest speed of each motor
    MAX_PARAM,      \* [Params -> Nat], largest value of each parameter
    DEFAULT_PARAM,  \* [Params -> Nat], ControlParams::reset
    Turns,          \* counts the knob is turned between two samples
    MaxInputs       \* bound: presses and turns of a behaviour

\* ControlParameterType, without Lead, which the knob cannot select.
Params == {"ZeroLine", "Gain", "Speed"}
Buttons == {"A", "B", "C", "D", "Knob"}

MOTORS == <<"Cut", "Rotation", "Translation">>
PARAMS == <<"ZeroLine", "Gain", "Speed">>

\* The knob selects by its position.
FromIdx(options, idx) == options[(idx % Len(options)) + 1]

ASSUME KnobAssumption ==
    /\ LEN \in Nat /\ LEN >= 4
    /\ COUNTS \in Nat \ {0}
    /\ COUNT_MOD \in Nat \ {0}

ASSUME RangeAssumption ==
    /\ WORD \in Nat
    /\ MAX_SPEED \in [Motors -> Nat]
    /\ MAX_PARAM \in [Params -> Nat]
    /\ DEFAULT_PARAM \in [Params -> Nat]
    /\ \A p \in Params : DEFAULT_PARAM[p] <= MAX_PARAM[p] /\ MAX_PARAM[p] < WORD
    /\ MAX_PARAM["ZeroLine"] + LEN <= WORD
    /\ Turns \subseteq Int \ {0}
    /\ MaxInputs \in Nat

VARIABLES
    pressed,    \* the buttons whose watch holds an event not yet handled
    count,      \* the count last sent to ENCODER_DATA
    turned,     \* ENCODER_DATA holds a value not yet handled
    handled,    \* history: the count supervise_hmi handled last
    hmi,        \* hmi_state, and at the same time the value of HMI_STATE_WATCH
    panicked,   \* the processor is halted
    inputs      \* history: inputs so far

panel == <<pressed, count, turned, inputs>>
vars == <<panel, handled, hmi, panicked>>

-----------------------------------------------------------------------------
(* Setpoints.                                                              *)

\* Mutant: the position mode takes over the number of the velocity mode.
NextActionKeepsValue(a) ==
    CASE a.kind = "Coast" -> Plain("Hold")
      [] a.kind = "Hold" -> Plain("Home")
      [] a.kind = "Home" -> Plain("Seek")
      [] a.kind = "Seek" -> Velocity(1)
      [] a.kind = "MoveVelocity" -> Position(a.v, 0)
      [] a.kind = "MovePosition" -> Plain("Coast")

\* MotorAction::next; a new velocity or position setpoint starts at zero.
NextAction(a) ==
    CASE a.kind = "Coast" -> Plain("Hold")
      [] a.kind = "Hold" -> Plain("Home")
      [] a.kind = "Home" -> Plain("Seek")
      [] a.kind = "Seek" -> Velocity(0)
      [] a.kind = "MoveVelocity" -> Position(0, 0)
      [] a.kind = "MovePosition" -> Plain("Coast")

OverlayModes == {"Default", "TransitionLine", "TransitionError", "CameraFPS", "TearingDetection"}

NextOverlay(o) ==
    CASE o = "Default" -> "TransitionLine"
      [] o = "TransitionLine" -> "TransitionError"
      [] o = "TransitionError" -> "CameraFPS"
      [] o = "CameraFPS" -> "TearingDetection"
      [] o = "TearingDetection" -> "Default"

ResetSetpoints == [m \in Motors |-> Velocity(0)]

DefaultHmi ==
    [enable |-> FALSE, control_mode |-> "Manual", overlay_mode |-> "Default",
     motor_selection |-> FALSE, parameter_selection |-> FALSE,
     selected_motor |-> MOTORS[1], selected_parameter |-> PARAMS[1],
     motor_setpoints |-> ResetSetpoints, parameter_setpoints |-> DEFAULT_PARAM,
     encoder_pos |-> 0]

\* Speeds and parameters within their limits, positions of the knob in range.
ActionsOf(m) ==
    {a \in MotorActions : a.kind = "MoveVelocity" => a.v \in -MAX_SPEED[m] .. MAX_SPEED[m]}

HmiStates ==
    [enable : BOOLEAN, control_mode : ControlModes, overlay_mode : OverlayModes,
     motor_selection : BOOLEAN, parameter_selection : BOOLEAN,
     selected_motor : Motors, selected_parameter : Params,
     motor_setpoints : {f \in [Motors -> MotorActions] : \A m \in Motors : f[m] \in ActionsOf(m)},
     parameter_setpoints : {f \in [Params -> Nat] : \A p \in Params : f[p] <= MAX_PARAM[p]},
     encoder_pos : 0 .. LEN - 1]

-----------------------------------------------------------------------------
(* The knob.                                                               *)

Clamp(x, lo, hi) == IF x < lo THEN lo ELSE IF x > hi THEN hi ELSE x

\* The index of the first entry of COUNT_MAP above the count: 1 .. LEN - 1.
PosOf(c) == ((100 * LEN + c) % (COUNTS * (LEN - 1))) \div COUNTS + 1

\* Mutant: the positions are taken not to wrap.
DeltaOfUnwrapped(pos, last) == pos - last

\* The way from one position to another, the short way round.
DeltaOf(pos, last) ==
    LET delta == pos - last
    IN IF delta > LEN \div 2 THEN delta - LEN
       ELSE IF delta < -(LEN \div 2) THEN delta + LEN
       ELSE delta

\* Mutant: the speed is limited upwards only.
TurnedActionUnlimited(a, delta, m) ==
    CASE a.kind = "MoveVelocity" ->
            Velocity(IF a.v + delta > MAX_SPEED[m] THEN MAX_SPEED[m] ELSE a.v + delta)
      [] a.kind = "MovePosition" -> Position(a.v + delta, POSITION_MODE_VELOCITY)
      [] OTHER -> a

\* A sample with a motor selected: velocity and position setpoints change; a
\* position setpoint gets its speed, also when the knob has not been turned.
TurnedAction(a, delta, m) ==
    CASE a.kind = "MoveVelocity" -> Velocity(Clamp(a.v + delta, -MAX_SPEED[m], MAX_SPEED[m]))
      [] a.kind = "MovePosition" -> Position(a.v + delta, POSITION_MODE_VELOCITY)
      [] OTHER -> a

\* The delta is converted to the unsigned word before it is added.
ZeroLineSum(delta) == hmi.parameter_setpoints["ZeroLine"] + (delta % WORD)

\* Mutant: the delta of every parameter is converted to a word.
TurnPanicsForAll(delta) ==
    /\ hmi.overlay_mode = "Default" /\ hmi.control_mode = "Vision"
    /\ hmi.parameter_selection
    /\ hmi.parameter_setpoints[hmi.selected_parameter] + (delta % WORD) >= WORD

TurnedParam(p, delta) ==
    IF p = "ZeroLine"
    THEN Clamp(ZeroLineSum(delta) % WORD, 0, MAX_PARAM[p])
    ELSE Clamp(hmi.parameter_setpoints[p] + delta, 0, MAX_PARAM[p])

\* set_current_motor_action.
WithMotorAction(h, action) == [h EXCEPT !.motor_setpoints[h.selected_motor] = action]

CurrentMotorAction == hmi.motor_setpoints[hmi.selected_motor]

TurnManual(pos, delta) ==
    IF hmi.motor_selection
    THEN WithMotorAction([hmi EXCEPT !.encoder_pos = pos],
                         TurnedAction(CurrentMotorAction, delta, hmi.selected_motor))
    ELSE [hmi EXCEPT !.selected_motor = FromIdx(MOTORS, pos), !.encoder_pos = pos]

TurnVision(pos, delta) ==
    LET p == hmi.selected_parameter
    IN IF hmi.parameter_selection
       THEN [hmi EXCEPT !.parameter_setpoints[p] = TurnedParam(p, delta), !.encoder_pos = pos]
       ELSE [hmi EXCEPT !.selected_parameter = FromIdx(PARAMS, pos), !.encoder_pos = pos]

\* The addition to the zero line panics when it overflows: the justfile builds
\* with the dev profile, which has overflow checks.
TurnPanics(delta) ==
    /\ hmi.overlay_mode = "Default" /\ hmi.control_mode = "Vision"
    /\ hmi.parameter_selection /\ hmi.selected_parameter = "ZeroLine"
    /\ ZeroLineSum(delta) >= WORD

-----------------------------------------------------------------------------
(* The handlers of supervise_hmi.                                          *)

ButtonA ==
    [hmi EXCEPT !.control_mode = Flip(@)]

ButtonB ==
    IF hmi.control_mode = "Manual"
    THEN WithMotorAction(hmi, NextAction(CurrentMotorAction))
    ELSE [hmi EXCEPT !.overlay_mode = NextOverlay(@)]

ButtonC == [hmi EXCEPT !.enable = TRUE]

StopAll == [hmi EXCEPT !.overlay_mode = "Default", !.enable = FALSE]

ResetAll ==
    [DefaultHmi EXCEPT !.selected_motor = hmi.selected_motor,
                       !.selected_parameter = hmi.selected_parameter,
                       !.encoder_pos = hmi.encoder_pos]

ButtonD == IF hmi.enable THEN StopAll ELSE ResetAll

\* SelectionState::next.
NextSelection(selected) == ~selected

ButtonKnob ==
    CASE hmi.overlay_mode # "Default" -> hmi
      [] hmi.overlay_mode = "Default" /\ hmi.control_mode = "Manual" ->
            [hmi EXCEPT !.motor_selection = NextSelection(@)]
      [] hmi.overlay_mode = "Default" /\ hmi.control_mode = "Vision" ->
            [hmi EXCEPT !.parameter_selection = NextSelection(@)]

ButtonHandler(b) ==
    CASE b = "A" -> ButtonA
      [] b = "B" -> ButtonB
      [] b = "C" -> ButtonC
      [] b = "D" -> ButtonD
      [] b = "Knob" -> ButtonKnob

\* While an overlay is shown only the position is kept up to date.
TurnHandler(pos, delta) ==
    CASE hmi.overlay_mode # "Default" -> [hmi EXCEPT !.encoder_pos = pos]
      [] hmi.overlay_mode = "Default" /\ hmi.control_mode = "Manual" -> TurnManual(pos, delta)
      [] hmi.overlay_mode = "Default" /\ hmi.control_mode = "Vision" -> TurnVision(pos, delta)

\* select6 polls the watches in this order.
Before(b) ==
    CASE b = "A" -> {}
      [] b = "B" -> {"A"}
      [] b = "C" -> {"A", "B"}
      [] b = "D" -> {"A", "B", "C"}
      [] b = "Knob" -> {"A", "B", "C", "D"}

\* Mutant: serving one button drops the events of the others.
HandleButtonAlone(b) ==
    /\ ~panicked
    /\ b \in pressed
    /\ pressed \cap Before(b) = {}
    /\ pressed' = {}
    /\ hmi' = ButtonHandler(b)
    /\ UNCHANGED <<count, turned, handled, panicked, inputs>>

HandleButton(b) ==
    /\ ~panicked
    /\ b \in pressed
    /\ pressed \cap Before(b) = {}
    /\ pressed' = pressed \ {b}
    /\ hmi' = ButtonHandler(b)
    /\ UNCHANGED <<count, turned, handled, panicked, inputs>>

HandleTurn ==
    /\ ~panicked
    /\ turned
    /\ pressed = {}
    /\ turned' = FALSE
    /\ handled' = count
    /\ LET pos == PosOf(count)
           delta == DeltaOf(pos, hmi.encoder_pos)
       IN \/ /\ TurnPanics(delta)
             /\ panicked' = TRUE
             /\ UNCHANGED hmi
          \/ /\ ~TurnPanics(delta)
             /\ hmi' = TurnHandler(pos, delta)
             /\ UNCHANGED panicked
    /\ UNCHANGED <<pressed, count, inputs>>

-----------------------------------------------------------------------------
(* The operator, the debouncing tasks and the encoder task.                *)

\* A stable press: debounce_button sends one event to the button's watch.
Press(b) ==
    /\ ~panicked
    /\ inputs < MaxInputs
    /\ inputs' = inputs + 1
    /\ pressed' = pressed \cup {b}
    /\ UNCHANGED <<count, turned, handled, hmi, panicked>>

\* manage_encoder samples the counter, turned by d since the last sample; it
\* also sends a count that has not changed.
Sample(d) ==
    /\ ~panicked
    /\ \/ d = 0 /\ UNCHANGED inputs
       \/ d # 0 /\ inputs < MaxInputs /\ inputs' = inputs + 1
    /\ count' = (count + d) % COUNT_MOD
    /\ turned' = TRUE
    /\ UNCHANGED <<pressed, handled, hmi, panicked>>

\* manage_encoder sends its first sample at once and a press takes 50 ms of
\* debouncing: by then the first sample has been handled.
Booted == hmi.encoder_pos # 0

Operator ==
    /\ Booted
    /\ (\E b \in Buttons : Press(b)) \/ (\E d \in Turns \cup {0} : Sample(d))

Supervise == (\E b \in Buttons : HandleButton(b)) \/ HandleTurn

\* supervise_hmi sends the default state, manage_encoder the counter's zero.
Init ==
    /\ pressed = {}
    /\ count = 0 /\ turned = TRUE /\ handled = 0
    /\ hmi = DefaultHmi
    /\ panicked = FALSE
    /\ inputs = 0

Next == Operator \/ Supervise

Spec == Init /\ [][Next]_vars

\* supervise_hmi is polled when one of its watches has something.  Nothing is
\* assumed of the operator, who makes at most MaxInputs inputs.
FairSpec == Spec /\ WF_vars(Supervise)

-----------------------------------------------------------------------------
(* Properties.                                                             *)

\* Type invariant: with every speed and parameter within its limits.
TypeOK ==
    /\ pressed \subseteq Buttons
    /\ count \in 0 .. COUNT_MOD - 1 /\ handled \in 0 .. COUNT_MOD - 1
    /\ turned \in BOOLEAN /\ panicked \in BOOLEAN
    /\ inputs \in 0 .. MaxInputs
    /\ hmi \in HmiStates

\* Turns whose direction the positions can tell.
SmallTurn == COUNTS * ((LEN - 1) \div 2 - 1)

\* No value that a turn can change becomes smaller (larger) in a step.
NoneFalls(p, q) == \A x \in DOMAIN p : p[x] <= q[x]
Speeds(h) == [m \in Motors |-> h.motor_setpoints[m].v]
Tuning(h) == [p \in Params \ {"ZeroLine"} |-> h.parameter_setpoints[p]]

\* get_encoder_pos_delta maps a counter that wraps to positions that wrap: a
\* turn of less than half the positions is taken for a turn in its direction,
\* across the wrap of the positions too and also when samples were merged or
\* an overlay was shown in between, so turning right never lowers a speed or
\* parameter and turning left never raises one.  (Turns across the wrap of the
\* hardware counter are excluded, and so is lowering the zero line.)
KnobFollowsHand ==
    [][/\ handled' - handled \in 1 .. SmallTurn =>
             /\ NoneFalls(Speeds(hmi), Speeds(hmi'))
             /\ NoneFalls(hmi.parameter_setpoints, hmi'.parameter_setpoints)
       /\ handled - handled' \in 1 .. SmallTurn =>
             /\ NoneFalls(Speeds(hmi'), Speeds(hmi))
             /\ NoneFalls(Tuning(hmi'), Tuning(hmi))]_vars

\* The knob's samples go to the setpoint of motor m.
KnobSets(m) ==
    /\ hmi.control_mode = "Manual" /\ hmi.overlay_mode = "Default"
    /\ hmi.motor_selection /\ hmi.selected_motor = m

\* A position setpoint on its way: a new one has speed 0.
UnderWay(a) == a.kind = "MovePosition" /\ a.speed # 0

\* No sequence of buttons, modes and selections gives a motor a number: a
\* setpoint gets a new speed or target other than zero only when the knob has
\* really been turned, and a position setpoint its speed only by a sample of
\* the knob, both in manual mode, with that motor selected and no overlay
\* shown.  (The sample need not be of a turn: see UnturnedKnobChangesNothing.
\* Home and Seek are begun by button B.)
OnlyKnobSetsMotors ==
    [][\A m \in Motors :
          LET old == hmi.motor_setpoints[m]
              new == hmi'.motor_setpoints[m]
          IN /\ new.v \notin {0, old.v} => KnobSets(m) /\ handled' # handled
             /\ UnderWay(new) /\ ~UnderWay(old) =>
                   KnobSets(m) /\ turned /\ ~turned' /\ old.kind = "MovePosition"]_vars

\* "Encoder count change", "MotorSelected => change selected motor speed", "Only
\* act on encoder turns" (supervise_hmi): a sample of a knob that has not been
\* turned leaves the motors' setpoints alone.
UnturnedKnobChangesNothing ==
    [][turned /\ ~turned' /\ handled' = handled =>
          hmi'.motor_setpoints = hmi.motor_setpoints]_vars

\* The stop button stops: a press while the panel is enabled is followed by a
\* disabled panel, although supervise_hmi polls three other buttons first, two
\* presses may be merged, and the knob is sampled all the time.
StopServed == ("D" \in pressed /\ hmi.enable) ~> (~hmi.enable \/ panicked)

\* The only arithmetic that halts the base station is that of the zero line: no
\* sequence of inputs to the motors, the gain and the speed overflows, and
\* neither does raising the zero line.
PanicsOnlyLoweringZeroLine ==
    [][panicked' /\ ~panicked =>
          /\ hmi.control_mode = "Vision" /\ hmi.selected_parameter = "ZeroLine"
          /\ handled' - handled \notin 1 .. SmallTurn]_vars
=============================================================================
