----------------------------- MODULE BaseStation -----------------------------
(***************************************************************************)
(* The base station behind its operator panel: manage_appstate, which      *)
(* combines the panel's state with the ESP32's reports, control_motors,    *)
(* which turns the result into setpoints, and the two tasks that drive the *)
(* rotation and translation motors through their TB6600 drivers.  The      *)
(* panel (module Hmi) is here any sequence of panel states.                *)
(*                                                                         *)
(* The tasks share one executor and talk through watches of one slot: a    *)
(* task that is slow sees only the newest value.  Every action is what one *)
(* task does between two awaits.  A watch whose value is always the state  *)
(* its sender keeps (HMI_STATE_WATCH, APP_STATE_WATCH) is just a flag.     *)
(***************************************************************************)
EXTENDS Setpoints, Sequences

CONSTANTS
    Parameters,     \* values of ControlParams
    ResetParams,    \* ControlParams::reset
    ZeroParams,     \* ControlParams::default
    PanelStates,    \* the panel states that occur
    Efforts         \* the motor setpoints that vision reports carry

StepperMotors == {"Rotation", "Translation"}

\* The part of HmiState that the other tasks read.
Panels ==
    [enable : BOOLEAN, control_mode : ControlModes,
     motor_setpoints : [Motors -> MotorActions], parameter_setpoints : Parameters]

DefaultPanel ==
    [enable |-> FALSE, control_mode |-> "Manual",
     motor_setpoints |-> [m \in Motors |-> Velocity(0)], parameter_setpoints |-> ResetParams]

\* No command yet, or no effort in a report.
None == [kind |-> "None", v |-> 0]

ASSUME PanelAssumption ==
    /\ ResetParams \in Parameters /\ ZeroParams \in Parameters
    /\ PanelStates \subseteq Panels
    /\ Efforts \subseteq [StepperMotors -> MotorActions]

\* The knob sets the translation motor in steps of 0.01 mm/s, ten times the unit
\* its speed is given in here; an effort of the ESP32 may be any speed.
LIN_STEP == 10

ASSUME KnobStepAssumption ==
    \A p \in PanelStates :
        LET a == p.motor_setpoints["Translation"]
        IN a.kind = "MoveVelocity" => a.v % LIN_STEP = 0

VARIABLES
    hmi,        \* HMI_STATE_WATCH
    hmi_new,    \* it holds a value manage_appstate has not taken
    report,     \* REPORT_WATCH: the effort of a report not yet taken, or None
    report_new, \* it holds a report manage_appstate has not taken
    app,        \* appstate, and at the same time the value of APP_STATE_WATCH
    app_new,    \* APP_STATE_WATCH holds a value control_motors has not taken
    esp,        \* ESP_SETPOINT_WATCH, what is sent to the ESP32
    setpoint,   \* ROTATION_SETPOINT and TRANSLATION_SETPOINT
    setpoint_new,
    motor       \* the motor tasks and their drivers

MotorStates ==
    [pc : {"wait", "delay"}, cmd : MotorActions \cup {None}, prev : MotorActions \cup {None},
     enabled : BOOLEAN, dir : {"Forward", "Reverse"}, frequency : Nat]

panel == <<hmi, hmi_new>>
reports == <<report, report_new>>
appstate == <<app, app_new>>
outputs == <<esp, setpoint, setpoint_new>>
vars == <<panel, reports, appstate, outputs, motor>>

-----------------------------------------------------------------------------
(* manage_appstate and what it waits for.                                  *)

\* A press takes 50 ms of debouncing: by then every task has run once, and the
\* command that the rotation task drops was the Coast of the boot.
Booted == motor["Rotation"].prev # None

\* supervise_hmi has handled an input.
PanelSends(p) ==
    /\ Booted
    /\ hmi' = p
    /\ hmi_new' = TRUE
    /\ UNCHANGED <<reports, appstate, outputs, motor>>

\* A report arrives over the link; only one of vision mode carries an effort.
ReportArrives(effort) ==
    /\ report' = effort
    /\ report_new' = TRUE
    /\ UNCHANGED <<panel, appstate, outputs, motor>>

\* Mutant: the new panel state is not sent on.
TakeHmiSilently ==
    /\ hmi_new
    /\ app' = [app EXCEPT !.hmi_state = hmi]
    /\ hmi_new' = FALSE
    /\ UNCHANGED <<hmi, app_new, reports, outputs, motor>>

TakeHmi ==
    /\ hmi_new
    /\ app' = [app EXCEPT !.hmi_state = hmi]
    /\ app_new' = TRUE
    /\ hmi_new' = FALSE
    /\ UNCHANGED <<hmi, reports, outputs, motor>>

\* Mutant: a report of manual mode is taken for one with an effort.
TakeReportAlways ==
    /\ report_new
    /\ ~hmi_new
    /\ app' = [app EXCEPT !.esp_motor_setpoints = report]
    /\ app_new' = TRUE
    /\ report' = None /\ report_new' = FALSE
    /\ UNCHANGED <<panel, outputs, motor>>

\* Mutant: a report that changes nothing is not sent on.
TakeReportIfChanged ==
    /\ report_new
    /\ ~hmi_new
    /\ app' = IF report = None THEN app ELSE [app EXCEPT !.esp_motor_setpoints = report]
    /\ app_new' = (app_new \/ app' # app)
    /\ report' = None /\ report_new' = FALSE
    /\ UNCHANGED <<panel, outputs, motor>>

TakeReport ==
    /\ report_new
    /\ ~hmi_new
    /\ app' = IF report = None THEN app ELSE [app EXCEPT !.esp_motor_setpoints = report]
    /\ app_new' = TRUE
    /\ report' = None /\ report_new' = FALSE
    /\ UNCHANGED <<panel, outputs, motor>>

-----------------------------------------------------------------------------
(* control_motors.                                                         *)

SafeEsp == [control_mode |-> "Manual", knife |-> Plain("Coast"), params |-> ResetParams]

EspFor(p) ==
    IF p.enable
    THEN [control_mode |-> p.control_mode, knife |-> p.motor_setpoints["Cut"],
          params |-> p.parameter_setpoints]
    ELSE SafeEsp

\* Manual mode follows the panel, vision mode the ESP32, a stop neither.
SetpointFor(p, effort, m) ==
    IF ~p.enable THEN Plain("Coast")
    ELSE IF p.control_mode = "Manual" THEN p.motor_setpoints[m]
    ELSE effort[m]

\* Mutant: a stopped panel only tells the ESP32.
ControlMotorsEspFirst ==
    /\ app_new
    /\ app_new' = FALSE
    /\ esp' = EspFor(app.hmi_state)
    /\ IF app.hmi_state.enable
       THEN /\ setpoint' = [m \in StepperMotors |->
                              SetpointFor(app.hmi_state, app.esp_motor_setpoints, m)]
            /\ setpoint_new' = [m \in StepperMotors |-> TRUE]
       ELSE UNCHANGED <<setpoint, setpoint_new>>
    /\ UNCHANGED <<panel, reports, app, motor>>

ControlMotors ==
    /\ app_new
    /\ app_new' = FALSE
    /\ esp' = EspFor(app.hmi_state)
    /\ setpoint' = [m \in StepperMotors |-> SetpointFor(app.hmi_state, app.esp_motor_setpoints, m)]
    /\ setpoint_new' = [m \in StepperMotors |-> TRUE]
    /\ UNCHANGED <<panel, reports, app, motor>>

-----------------------------------------------------------------------------
(* The motor tasks and the TB6600 drivers.                                 *)

Abs(v) == IF v < 0 THEN -v ELSE v

\* The step frequency of a speed in steps of 0.1 mm/s (rotation: 2500 Hz for
\* 4.897 rotations a minute) and of 0.001 mm/s (translation: 750 Hz for 75.2 mm
\* in 22.74 s), without its fraction.  The finer unit is that of the efforts: a
\* hundredth (the lead of 1 %) of a speed in steps of 0.1 mm/s.
rotational_speed_to_step_freq(v) == (Abs(v) * 250000) \div 4897
translational_speed_to_step_freq(v) == (Abs(v) * 17055) \div 75200

StepFreq(m, v) ==
    IF m = "Rotation" THEN rotational_speed_to_step_freq(v)
                      ELSE translational_speed_to_step_freq(v)

DirOf(v) == IF v >= 0 THEN "Forward" ELSE "Reverse"

\* Mutant: a command of the same kind counts as the same command.
SkipsSameKind(m, cmd) ==
    m = "Rotation" /\ (motor[m].prev = None \/ motor[m].prev.kind = cmd.kind)

\* The rotation task drops its first command and those equal to the last one;
\* the translation task, whose prev is only a history variable, obeys all.
Skips(m, cmd) == m = "Rotation" /\ motor[m].prev \in {None, cmd}

Stopped(r) == [r EXCEPT !.enabled = FALSE]

\* A stop is carried out at once; a velocity begins with the direction pin and
\* a delay; the other actions are not implemented and change nothing.
Obey(r, cmd) ==
    CASE cmd.kind \in {"Coast", "Hold"} -> [Stopped(r) EXCEPT !.prev = cmd]
      [] cmd.kind = "MoveVelocity" -> [r EXCEPT !.pc = "delay", !.cmd = cmd, !.dir = DirOf(cmd.v)]
      [] OTHER -> [r EXCEPT !.prev = cmd]

\* Mutant: a running motor takes no command.
TakeCommandAtRest(m) ==
    /\ motor[m].pc = "wait" /\ ~motor[m].enabled
    /\ setpoint_new[m]
    /\ setpoint_new' = [setpoint_new EXCEPT ![m] = FALSE]
    /\ motor' = [motor EXCEPT ![m] = IF Skips(m, setpoint[m])
                                     THEN [motor[m] EXCEPT !.prev = setpoint[m]]
                                     ELSE Obey(motor[m], setpoint[m])]
    /\ UNCHANGED <<panel, reports, appstate, esp, setpoint>>

TakeCommand(m) ==
    /\ motor[m].pc = "wait"
    /\ setpoint_new[m]
    /\ setpoint_new' = [setpoint_new EXCEPT ![m] = FALSE]
    /\ motor' = [motor EXCEPT ![m] = IF Skips(m, setpoint[m])
                                     THEN [motor[m] EXCEPT !.prev = setpoint[m]]
                                     ELSE Obey(motor[m], setpoint[m])]
    /\ UNCHANGED <<panel, reports, appstate, esp, setpoint>>

\* run_hertz after its delay: the step frequency, or a stop if that is zero.
Started(m, r) ==
    LET freq == StepFreq(m, r.cmd.v)
    IN [r EXCEPT !.enabled = (freq # 0), !.frequency = freq]

\* Mutant: the command is not remembered as the last one.
RunHertzForgets(m) ==
    /\ motor[m].pc = "delay"
    /\ motor' = [motor EXCEPT ![m] = [Started(m, motor[m]) EXCEPT !.pc = "wait", !.cmd = None]]
    /\ UNCHANGED <<panel, reports, appstate, outputs>>

RunHertz(m) ==
    /\ motor[m].pc = "delay"
    /\ motor' = [motor EXCEPT ![m] = [Started(m, motor[m]) EXCEPT !.pc = "wait", !.cmd = None,
                                                                   !.prev = motor[m].cmd]]
    /\ UNCHANGED <<panel, reports, appstate, outputs>>

-----------------------------------------------------------------------------

\* Tb6600::new and AppState::default.
NewMotor ==
    [pc |-> "wait", cmd |-> None, prev |-> None,
     enabled |-> FALSE, dir |-> "Forward", frequency |-> 0]

DefaultApp ==
    [hmi_state |-> DefaultPanel,
     esp_motor_setpoints |-> [m \in StepperMotors |-> Plain("Coast")]]

\* Every task has sent its boot values and nothing has been taken yet.
Init ==
    /\ hmi = DefaultPanel /\ hmi_new = TRUE
    /\ report = None /\ report_new = FALSE
    /\ app = DefaultApp
    /\ app_new = TRUE
    /\ esp = [SafeEsp EXCEPT !.params = ZeroParams]
    /\ setpoint = [m \in StepperMotors |-> Plain("Coast")]
    /\ setpoint_new = [m \in StepperMotors |-> TRUE]
    /\ motor = [m \in StepperMotors |-> NewMotor]

Next ==
    \/ \E p \in PanelStates : PanelSends(p)
    \/ \E effort \in Efforts \cup {None} : ReportArrives(effort)
    \/ TakeHmi
    \/ TakeReport
    \/ ControlMotors
    \/ \E m \in StepperMotors : TakeCommand(m) \/ RunHertz(m)

Spec == Init /\ [][Next]_vars

\* The executor polls every task that has been woken, and a task handles what
\* it was woken for.  Nothing is assumed of the operator and of the link.
Fairness ==
    /\ WF_vars(TakeHmi \/ TakeReport)
    /\ WF_vars(ControlMotors)
    /\ \A m \in StepperMotors : WF_vars(TakeCommand(m) \/ RunHertz(m))

FairSpec == Spec /\ Fairness

-----------------------------------------------------------------------------
(* Properties.                                                             *)

\* Type invariant.
TypeOK ==
    /\ hmi \in Panels /\ hmi_new \in BOOLEAN
    /\ report \in [StepperMotors -> MotorActions] \cup {None} /\ report_new \in BOOLEAN
    /\ app \in [hmi_state : Panels, esp_motor_setpoints : [StepperMotors -> MotorActions]]
    /\ app_new \in BOOLEAN
    /\ esp \in [control_mode : ControlModes, knife : MotorActions, params : Parameters]
    /\ setpoint \in [StepperMotors -> MotorActions]
    /\ setpoint_new \in [StepperMotors -> BOOLEAN]
    /\ motor \in [StepperMotors -> MotorStates]

\* Every watch from the panel to the motor m has been taken.
Settled(m) == ~hmi_new /\ ~app_new /\ ~setpoint_new[m] /\ motor[m].pc = "wait"

\* "HMI disable -> set motors to known safe state" (control_motors): once the
\* state of a stopped panel has gone through the tasks, the driver gives no
\* step pulses and the ESP32 has been told to coast, whatever was overwritten,
\* merged or skipped on the way.
StoppedWhenDisabled ==
    \A m \in StepperMotors :
        Settled(m) /\ ~hmi.enable => ~motor[m].enabled /\ esp = SafeEsp

\* "motors follows HMI setpoint" (control_motors): once the state of an enabled
\* panel has gone through, a motor that is given a velocity runs at it and in
\* its direction, also when the rotation task has skipped the command; in manual
\* mode the slowest speed the knob can set is not lost in the conversion to
\* Hertz.  (In vision mode it may be, and then the motor is off: see
\* EffortMovesMotors.)
MotorFollowsSetpoint ==
    \A m \in StepperMotors :
        LET cmd == SetpointFor(hmi, app.esp_motor_setpoints, m)
        IN Settled(m) /\ cmd.kind = "MoveVelocity" =>
               /\ motor[m].enabled = (StepFreq(m, cmd.v) # 0)
               /\ motor[m].enabled => /\ motor[m].frequency = StepFreq(m, cmd.v)
                                      /\ motor[m].dir = DirOf(cmd.v)
               /\ hmi.control_mode = "Manual" /\ cmd.v # 0 => motor[m].enabled

\* "motors follows setpoints calculated by ESP" (control_motors): in vision mode
\* a motor that is given a velocity turns, unless that is zero.
EffortMovesMotors ==
    \A m \in StepperMotors :
        LET cmd == SetpointFor(hmi, app.esp_motor_setpoints, m)
        IN Settled(m) /\ hmi.control_mode = "Vision" /\ cmd.kind = "MoveVelocity" =>
               (motor[m].enabled <=> cmd.v # 0)

\* A stop reaches the motors: a panel that is disabled is followed by a state in
\* which no motor gets pulses and the ESP32 is told to coast, unless the panel
\* is enabled again; reports that keep arriving do not prevent it.
StopReaches ==
    ~hmi.enable ~> \/ hmi.enable
                   \/ (\A m \in StepperMotors : ~motor[m].enabled) /\ esp = SafeEsp

\* The commands on their way to the motor m: in its own watch, in
\* APP_STATE_WATCH and in HMI_STATE_WATCH.
InFlight(m) ==
    LET next == SetpointFor(app.hmi_state, app.esp_motor_setpoints, m)
        last == SetpointFor(hmi, app.esp_motor_setpoints, m)
    IN (IF setpoint_new[m] THEN <<setpoint[m]>> ELSE <<>>)
       \o (IF app_new THEN <<next>> ELSE <<>>)
       \o (IF hmi_new THEN <<last>> ELSE <<>>)

\* The last command a motor task has taken.
LastTaken(m) == IF motor[m].pc = "wait" THEN motor[m].prev ELSE motor[m].cmd

\* What the panel, a report or the boot has ever asked of the motor m.
Asked(m) ==
    {Plain("Coast"), Velocity(0)} \cup {p.motor_setpoints[m] : p \in PanelStates}
                                  \cup {e[m] : e \in Efforts}

RotationQueue == INSTANCE CommandQueue
    WITH Commands <- Asked("Rotation"), Idle <- Plain("Coast"),
         queue <- InFlight("Rotation"), obeyed <- LastTaken("Rotation")

TranslationQueue == INSTANCE CommandQueue
    WITH Commands <- Asked("Translation"), Idle <- Plain("Coast"),
         queue <- InFlight("Translation"), obeyed <- LastTaken("Translation")

\* The four watches between panel and driver, whose values are overwritten,
\* re-sent by reports and skipped by the rotation task, work as one queue: no
\* command is invented or taken out of order, and the newest is never lost.
CommandsInOrder == RotationQueue!QueueSpec /\ TranslationQueue!QueueSpec

\* No command waits for ever in the watches, also when reports keep coming, and
\* the motor task always returns from its delays to the next command.
CommandsArrive == RotationQueue!QueueFairness /\ TranslationQueue!QueueFairness
=============================================================================
