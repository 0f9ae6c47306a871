-------------------------- MODULE BaseStationProofs --------------------------
(***************************************************************************)
(* For every set of panel states and of efforts, a settled base station    *)
(* does what its panel says.  What makes the properties inductive is that  *)
(* every hop either has something new to take or agrees with the hop       *)
(* before it, and that a motor agrees with the last command it took.  The  *)
(* command that the rotation task drops needs the facts of the boot.       *)
(***************************************************************************)
EXTENDS BaseStation, TLAPS

\* Every hop from the panel to the setpoints agrees with the one before it.
HopsAgree ==
    /\ ~hmi_new => app.hmi_state = hmi
    /\ ~app_new => /\ esp = EspFor(app.hmi_state)
                   /\ \A m \in StepperMotors :
                        setpoint[m] = SetpointFor(app.hmi_state, app.esp_motor_setpoints, m)

\* The last command of a motor, unless a newer one is waiting.
CommandAgrees ==
    \A m \in StepperMotors : ~setpoint_new[m] =>
        setpoint[m] = IF motor[m].pc = "wait" THEN motor[m].prev ELSE motor[m].cmd

\* A driver does what the last command said.
Agrees(m, r) ==
    /\ r.pc = "wait" /\ r.prev.kind \in {"None", "Coast", "Hold"} => ~r.enabled
    /\ r.pc = "wait" /\ r.prev.kind = "MoveVelocity" =>
          /\ r.enabled = (StepFreq(m, r.prev.v) # 0)
          /\ r.enabled => r.frequency = StepFreq(m, r.prev.v) /\ r.dir = DirOf(r.prev.v)
    /\ r.pc = "delay" =>
          /\ r.cmd \in MotorActions /\ r.cmd.kind = "MoveVelocity"
          /\ r.dir = DirOf(r.cmd.v)

\* Until the rotation task has taken its first command, all is stopped.
BootIsStopped ==
    ~Booted => /\ ~hmi.enable /\ ~app.hmi_state.enable
               /\ motor["Rotation"].pc = "wait" /\ ~motor["Rotation"].enabled
               /\ setpoint["Rotation"] = Plain("Coast")

\* The panel shows its boot state or one that was sent.
PanelKnown == hmi \in PanelStates \cup {DefaultPanel}

IInv ==
    /\ TypeOK
    /\ PanelKnown
    /\ HopsAgree
    /\ CommandAgrees
    /\ \A m \in StepperMotors : Agrees(m, motor[m])
    /\ BootIsStopped

USE PanelAssumption

\* The two conversions of control_motors yield setpoints.
LEMMA ConversionTypes ==
    ASSUME NEW p \in Panels, NEW e \in [StepperMotors -> MotorActions], NEW m \in StepperMotors
    PROVE  /\ EspFor(p) \in [control_mode : ControlModes, knife : MotorActions, params : Parameters]
           /\ SetpointFor(p, e, m) \in MotorActions
    BY DEF Panels, EspFor, SafeEsp, SetpointFor, Motors, StepperMotors, ControlModes, Plain,
           MotorActions

\* A speed in the steps of the knob is lost in the conversion to Hertz only if it
\* is zero; a smaller one of the translation motor may be lost.
LEMMA StepFreqs ==
    ASSUME NEW m \in StepperMotors, NEW v \in Int
    PROVE  /\ StepFreq(m, v) \in Nat
           /\ (m = "Translation" => v % LIN_STEP = 0) /\ v # 0 => StepFreq(m, v) # 0
<1> DEFINE n == Abs(v)
<1>1. n \in Nat /\ (n = 0 <=> v = 0)
    BY DEF Abs
<1> HIDE DEF n
<1>2. (n * 250000) \div 4897 \in Nat /\ ((n * 250000) \div 4897 # 0 <=> n # 0)
    BY <1>1
<1>3. (n * 17055) \div 75200 \in Nat /\ (n >= LIN_STEP => (n * 17055) \div 75200 # 0)
    BY <1>1 DEF LIN_STEP
<1>4. v % LIN_STEP = 0 /\ v # 0 => n >= LIN_STEP
    BY DEF n, Abs, LIN_STEP
<1> QED
    BY <1>1, <1>2, <1>3, <1>4 DEF StepFreq, StepperMotors, rotational_speed_to_step_freq,
       translational_speed_to_step_freq, n

\* What a motor's record becomes when it takes or carries out a command.
LEMMA MotorTypes ==
    ASSUME NEW m \in StepperMotors, NEW r \in MotorStates, NEW c \in MotorActions
    PROVE  /\ Obey(r, c) \in MotorStates
           /\ [r EXCEPT !.prev = c] \in MotorStates
           /\ r.cmd \in MotorActions =>
                [Started(m, r) EXCEPT !.pc = "wait", !.cmd = None, !.prev = r.cmd] \in MotorStates
<1>1. \A v \in Int : Abs(v) \in Nat /\ DirOf(v) \in {"Forward", "Reverse"}
    BY DEF Abs, DirOf
<1>2. \A a \in MotorActions : a.v \in Int
    BY DEF MotorActions
<1>3. [r EXCEPT !.prev = c] \in MotorStates
    BY DEF MotorStates
<1>4. Obey(r, c) \in MotorStates
    <2>1. CASE c.kind \in {"Coast", "Hold"}
        BY <2>1 DEF MotorStates, Obey, Stopped
    <2>2. CASE c.kind = "MoveVelocity"
        BY <2>2, <1>1, <1>2 DEF MotorStates, Obey
    <2>3. CASE c.kind \notin {"Coast", "Hold", "MoveVelocity"}
        BY <2>3, <1>3 DEF Obey
    <2> QED
        BY <2>1, <2>2, <2>3
<1>5. ASSUME r.cmd \in MotorActions
      PROVE  [Started(m, r) EXCEPT !.pc = "wait", !.cmd = None, !.prev = r.cmd] \in MotorStates
    BY <1>5, <1>2, StepFreqs DEF MotorStates, Started
<1> QED
    BY <1>3, <1>4, <1>5

LEMMA InitIInv == Init => IInv
<1> SUFFICES ASSUME Init PROVE IInv
    OBVIOUS
<1>1. TypeOK
    <2>1. Plain("Coast") \in MotorActions /\ Velocity(0) \in MotorActions
        BY DEF Plain, Velocity, MotorActions
    <2>2. DefaultPanel \in Panels
        BY <2>1 DEF DefaultPanel, Panels, ControlModes
    <2>3. motor \in [StepperMotors -> MotorStates]
        BY DEF Init, NewMotor, DefaultApp, MotorStates
    <2>4. esp \in [control_mode : ControlModes, knife : MotorActions, params : Parameters]
        BY <2>1 DEF Init, NewMotor, DefaultApp, SafeEsp, ControlModes
    <2> QED
        BY <2>1, <2>2, <2>3, <2>4 DEF Init, NewMotor, DefaultApp, TypeOK
<1>2. HopsAgree /\ CommandAgrees /\ PanelKnown
    BY DEF Init, NewMotor, DefaultApp, HopsAgree, CommandAgrees, PanelKnown
<1>3. \A m \in StepperMotors : Agrees(m, motor[m])
    BY DEF Init, NewMotor, DefaultApp, Agrees, None
<1>4. BootIsStopped
    BY DEF Init, NewMotor, DefaultApp, BootIsStopped, DefaultPanel, StepperMotors, Plain
<1> QED
    BY <1>1, <1>2, <1>3, <1>4 DEF IInv

\* The effect of Obey and Started on the agreement of a driver.
LEMMA ObeyAgrees ==
    ASSUME NEW m \in StepperMotors, NEW r \in MotorStates, NEW c \in MotorActions, r.pc = "wait"
    PROVE  /\ Agrees(m, Obey(r, c))
           /\ c = IF Obey(r, c).pc = "wait" THEN Obey(r, c).prev ELSE Obey(r, c).cmd
           /\ Obey(r, c).prev # None \/ Obey(r, c).pc = "delay"
<1>1. CASE c.kind \in {"Coast", "Hold"}
    <2>1. Obey(r, c) = [[r EXCEPT !.enabled = FALSE] EXCEPT !.prev = c]
        BY <1>1 DEF Obey, Stopped
    <2>2. Obey(r, c).prev = c /\ Obey(r, c).pc = "wait" /\ ~Obey(r, c).enabled
        BY <2>1 DEF MotorStates
    <2>3. c # None
        BY DEF MotorActions, None
    <2> QED
        BY <1>1, <2>2, <2>3 DEF Agrees
<1>2. CASE c.kind = "MoveVelocity"
    BY <1>2 DEF MotorStates, Agrees, Obey
<1>3. CASE c.kind \notin {"Coast", "Hold", "MoveVelocity"}
    <2>1. Obey(r, c) = [r EXCEPT !.prev = c]
        BY <1>3 DEF Obey
    <2>2. Obey(r, c).prev = c /\ Obey(r, c).pc = "wait"
        BY <2>1 DEF MotorStates
    <2>3. c.kind # "None" /\ c # None
        BY DEF MotorActions, None
    <2> QED
        BY <1>3, <2>2, <2>3 DEF Agrees
<1> QED
    BY <1>1, <1>2, <1>3

LEMMA StartedAgrees ==
    ASSUME NEW m \in StepperMotors, NEW r \in MotorStates, Agrees(m, r), r.pc = "delay"
    PROVE  Agrees(m, [Started(m, r) EXCEPT !.pc = "wait", !.cmd = None, !.prev = r.cmd])
<1>1. r.cmd.v \in Int
    BY DEF Agrees, MotorActions
<1> QED
    BY <1>1, StepFreqs DEF MotorStates, MotorActions, Agrees, Started, None

\* One step: one case for each action.
LEMMA StepIInv == IInv /\ [Next]_vars => IInv'
<1> SUFFICES ASSUME IInv, [Next]_vars PROVE IInv'
    OBVIOUS
<1> USE DEF IInv, PanelKnown
<1>1. ASSUME NEW p \in PanelStates, PanelSends(p) PROVE IInv'
    <2>1. p \in Panels
        OBVIOUS
    <2> QED
        BY <1>1, <2>1 DEF PanelSends, TypeOK, HopsAgree, CommandAgrees, BootIsStopped, Booted,
           reports, appstate, outputs
<1>2. ASSUME NEW effort \in Efforts \cup {None}, ReportArrives(effort) PROVE IInv'
    BY <1>2 DEF ReportArrives, TypeOK, HopsAgree, CommandAgrees, BootIsStopped, Booted,
       panel, appstate, outputs
<1>3. CASE TakeHmi
    <2>1. TypeOK'
        BY <1>3 DEF TakeHmi, TypeOK, reports, outputs
    <2>2. app'.hmi_state = hmi
        BY <1>3 DEF TakeHmi, TypeOK
    <2> QED
        BY <1>3, <2>1, <2>2 DEF TakeHmi, HopsAgree, CommandAgrees, BootIsStopped, Booted,
           reports, outputs
<1>4. CASE TakeReport
    <2>1. app'.hmi_state = app.hmi_state
        BY <1>4 DEF TakeReport, TypeOK
    <2>2. TypeOK'
        BY <1>4 DEF TakeReport, TypeOK, panel, outputs
    <2> QED
        BY <1>4, <2>1, <2>2 DEF TakeReport, HopsAgree, CommandAgrees, BootIsStopped, Booted,
           panel, outputs
<1>5. CASE ControlMotors
    <2>1. TypeOK'
        <3>1. app.hmi_state \in Panels /\ app.esp_motor_setpoints \in [StepperMotors -> MotorActions]
            BY DEF TypeOK
        <3>2. esp' \in [control_mode : ControlModes, knife : MotorActions, params : Parameters]
            BY <1>5, <3>1, ConversionTypes DEF ControlMotors, StepperMotors
        <3>3. setpoint' \in [StepperMotors -> MotorActions]
            BY <1>5, <3>1, ConversionTypes DEF ControlMotors
        <3> QED
            BY <1>5, <3>2, <3>3 DEF ControlMotors, TypeOK, panel, reports
    <2>2. HopsAgree'
        BY <1>5 DEF ControlMotors, HopsAgree, panel, reports
    <2>3. CommandAgrees'
        BY <1>5 DEF ControlMotors, CommandAgrees
    <2>4. BootIsStopped'
        BY <1>5 DEF ControlMotors, BootIsStopped, Booted, SetpointFor, StepperMotors, panel, reports
    <2> QED
        BY <1>5, <2>1, <2>2, <2>3, <2>4 DEF ControlMotors, panel
<1>6. ASSUME NEW m \in StepperMotors, TakeCommand(m) PROVE IInv'
    <2> DEFINE r == IF Skips(m, setpoint[m]) THEN [motor[m] EXCEPT !.prev = setpoint[m]]
                    ELSE Obey(motor[m], setpoint[m])
    <2>0. /\ motor' = [motor EXCEPT ![m] = r] /\ setpoint_new' = [setpoint_new EXCEPT ![m] = FALSE]
          /\ motor[m] \in MotorStates /\ setpoint[m] \in MotorActions /\ motor[m].pc = "wait"
          /\ Agrees(m, motor[m])
        BY <1>6 DEF TakeCommand, TypeOK
    <2>a. Agrees(m, r) /\ r \in MotorStates
          /\ setpoint[m] = (IF r.pc = "wait" THEN r.prev ELSE r.cmd)
          /\ (r.prev = None => ~Skips(m, setpoint[m]) /\ r.pc = "delay")
        <3>1. CASE Skips(m, setpoint[m])
            <4>1. motor[m].prev = None => setpoint[m] = Plain("Coast")
                BY <3>1 DEF Skips, BootIsStopped, Booted
            <4>2. r = [motor[m] EXCEPT !.prev = setpoint[m]] /\ r \in MotorStates
                BY <3>1, <2>0, MotorTypes
            <4>3. Agrees(m, r)
                BY <3>1, <4>1, <4>2, <2>0 DEF Skips, Agrees, MotorStates, Plain, None
            <4> QED
                BY <4>2, <4>3, <2>0 DEF MotorStates, MotorActions, None
        <3>2. CASE ~Skips(m, setpoint[m])
            BY <3>2, <2>0, MotorTypes, ObeyAgrees
        <3> QED
            BY <3>1, <3>2, KnobStepAssumption
    <2> HIDE DEF r
    <2>1. TypeOK'
        BY <1>6, <2>0, <2>a DEF TakeCommand, TypeOK, panel, reports, appstate
    <2>2. HopsAgree'
        BY <1>6 DEF TakeCommand, HopsAgree, panel, reports, appstate
    <2>3. CommandAgrees'
        BY <1>6, <2>0, <2>a DEF TakeCommand, CommandAgrees, TypeOK
    <2>4. \A k \in StepperMotors : Agrees(k, motor[k])'
        BY <2>0, <2>a DEF TypeOK, Agrees
    <2>5. BootIsStopped'
        <3>1. CASE m = "Rotation"
            <4>1. motor["Rotation"].prev = None => Skips(m, setpoint[m])
                BY <3>1 DEF Skips
            <4>2. motor'["Rotation"] = r
                BY <2>0, <3>1 DEF TypeOK
            <4>3. r.prev = None => motor["Rotation"].prev = None
                BY <2>0, <2>a, <3>1 DEF r, Obey, Stopped, MotorStates, MotorActions, None
            <4> QED
                BY <4>1, <4>2, <4>3, <2>a DEF BootIsStopped, Booted
        <3>2. CASE m # "Rotation"
            <4>1. motor'["Rotation"] = motor["Rotation"]
                BY <2>0, <3>2 DEF TypeOK, StepperMotors
            <4> QED
                BY <1>6, <4>1 DEF TakeCommand, BootIsStopped, Booted, panel, appstate
        <3> QED
            BY <3>1, <3>2, KnobStepAssumption
    <2> QED
        BY <1>6, <2>1, <2>2, <2>3, <2>4, <2>5 DEF TakeCommand, panel
<1>7. ASSUME NEW m \in StepperMotors, RunHertz(m) PROVE IInv'
    <2> DEFINE r == [Started(m, motor[m]) EXCEPT !.pc = "wait", !.cmd = None, !.prev = motor[m].cmd]
    <2>0. /\ motor' = [motor EXCEPT ![m] = r] /\ motor[m] \in MotorStates
          /\ motor[m].pc = "delay" /\ Agrees(m, motor[m]) /\ motor[m].cmd \in MotorActions
        BY <1>7 DEF RunHertz, TypeOK, Agrees
    <2>a. /\ Agrees(m, r) /\ r \in MotorStates
          /\ r.pc = "wait" /\ r.prev = motor[m].cmd /\ r.prev # None
        <3>1. r \in MotorStates /\ Agrees(m, r)
            BY <2>0, MotorTypes, StartedAgrees
        <3>2. r.pc = "wait" /\ r.prev = motor[m].cmd
            BY <2>0 DEF Started, MotorStates
        <3>3. motor[m].cmd # None
            BY <2>0 DEF MotorActions, None
        <3> QED
            BY <3>1, <3>2, <3>3
    <2> HIDE DEF r
    <2>1. TypeOK'
        BY <1>7, <2>0, <2>a DEF RunHertz, TypeOK, panel, reports, appstate, outputs
    <2>2. HopsAgree'
        BY <1>7 DEF RunHertz, HopsAgree, panel, reports, appstate, outputs
    <2>3. CommandAgrees'
        BY <1>7, <2>0, <2>a DEF RunHertz, CommandAgrees, TypeOK, outputs
    <2>4. \A k \in StepperMotors : Agrees(k, motor[k])'
        BY <2>0, <2>a DEF TypeOK, Agrees
    <2>5. BootIsStopped'
        <3>1. motor'["Rotation"].prev = None => motor'["Rotation"] = motor["Rotation"]
            BY <2>0, <2>a DEF TypeOK, StepperMotors
        <3> QED
            BY <1>7, <3>1 DEF RunHertz, BootIsStopped, Booted, panel, appstate, outputs
    <2> QED
        BY <1>7, <2>1, <2>2, <2>3, <2>4, <2>5 DEF RunHertz, panel
<1>8. CASE UNCHANGED vars
    BY <1>8 DEF vars, panel, reports, appstate, outputs, TypeOK, HopsAgree, CommandAgrees,
       Agrees, BootIsStopped, Booted
<1> QED
    BY <1>1, <1>2, <1>3, <1>4, <1>5, <1>6, <1>7, <1>8 DEF Next

\* The inductive invariant holds in every reachable state.
THEOREM Invariance == Spec => []IInv
<1>1. Init => IInv
    BY InitIInv
<1>2. IInv /\ [Next]_vars => IInv'
    BY StepIInv
<1> QED
    BY <1>1, <1>2, PTL DEF Spec

\* The tasks keep their types for every set of panel states and efforts.
THEOREM TypeCorrect == Spec => []TypeOK
<1>1. IInv => TypeOK
    BY DEF IInv
<1> QED
    BY <1>1, Invariance, PTL

\* "HMI disable -> set motors to known safe state": a settled base station whose
\* panel is disabled gives no pulses and has told the ESP32 to coast.
THEOREM DisabledIsStopped == Spec => []StoppedWhenDisabled
<1>1. IInv => StoppedWhenDisabled
    <2> SUFFICES ASSUME IInv, NEW m \in StepperMotors, Settled(m), ~hmi.enable
                 PROVE  ~motor[m].enabled /\ esp = SafeEsp
        BY DEF StoppedWhenDisabled
    <2>1. app.hmi_state = hmi /\ esp = SafeEsp /\ setpoint[m] = Plain("Coast")
        BY DEF IInv, HopsAgree, Settled, EspFor, SetpointFor
    <2>2. motor[m].prev = Plain("Coast") /\ motor[m].pc = "wait"
        BY <2>1 DEF IInv, CommandAgrees, Settled
    <2> QED
        BY <2>1, <2>2 DEF IInv, Agrees, Plain
<1> QED
    BY <1>1, Invariance, PTL

\* A settled motor that is given a velocity runs at it, in its direction, also
\* when the rotation task has skipped the command as equal to the last one, and
\* in manual mode no velocity of the knob but zero leaves it off.
THEOREM SetpointsAreFollowed == Spec => []MotorFollowsSetpoint
<1>1. IInv => MotorFollowsSetpoint
    <2> DEFINE cmd(m) == SetpointFor(hmi, app.esp_motor_setpoints, m)
    <2> SUFFICES ASSUME IInv, NEW m \in StepperMotors, Settled(m), cmd(m).kind = "MoveVelocity"
                 PROVE  /\ motor[m].enabled = (StepFreq(m, cmd(m).v) # 0)
                        /\ motor[m].enabled => /\ motor[m].frequency = StepFreq(m, cmd(m).v)
                                               /\ motor[m].dir = DirOf(cmd(m).v)
                        /\ hmi.control_mode = "Manual" /\ cmd(m).v # 0 => motor[m].enabled
        BY DEF MotorFollowsSetpoint
    <2>1. setpoint[m] = cmd(m)
        BY DEF IInv, HopsAgree, Settled
    <2>2. motor[m].prev = setpoint[m] /\ motor[m].pc = "wait"
        BY DEF IInv, CommandAgrees, Settled
    <2>3. Agrees(m, motor[m])
        BY DEF IInv
    <2>4. ASSUME hmi.control_mode = "Manual", cmd(m).v # 0
          PROVE  StepFreq(m, cmd(m).v) # 0
        <3>1. hmi.enable /\ cmd(m) = hmi.motor_setpoints[m]
            BY <2>4 DEF SetpointFor, Plain
        <3>2. hmi \in PanelStates
            BY <3>1 DEF IInv, PanelKnown, DefaultPanel
        <3>3. m = "Translation" => cmd(m).v % LIN_STEP = 0
            BY <3>1, <3>2, KnobStepAssumption
        <3>4. cmd(m).v \in Int
            <4>1. cmd(m) \in MotorActions
                BY <2>1 DEF IInv, TypeOK
            <4> HIDE DEF cmd
            <4> QED
                BY <4>1 DEF MotorActions
        <3> QED
            BY <2>4, <3>3, <3>4, StepFreqs
    <2> HIDE DEF cmd
    <2> QED
        BY <2>1, <2>2, <2>3, <2>4 DEF Agrees
<1> QED
    BY <1>1, Invariance, PTL
=============================================================================
