---------------------------- MODULE BaseStationMC ----------------------------
(* A few panel states: both modes, setpoints the motors implement and ones  *)
(* they do not, with the panel enabled and stopped.                         *)
EXTENDS BaseStation

State(on, mode, r, t) ==
    [enable |-> on, control_mode |-> mode, parameter_setpoints |-> "reset",
     motor_setpoints |-> [Cut |-> Plain("Home"), Rotation |-> r, Translation |-> t]]

Panel ==
    {State(FALSE, "Manual", Velocity(4), Velocity(-10)),
     State(TRUE, "Manual", Velocity(4), Velocity(-10)),
     State(TRUE, "Manual", Velocity(-1), Position(1, POSITION_MODE_VELOCITY)),
     State(TRUE, "Vision", Velocity(4), Velocity(-10))}

\* The effort of the Speed parameter at 0.4 mm/s with the lead at 1 %: 0.4 mm/s
\* for the rotation motor and 0.004 mm/s for the translation motor.
SlowEffort == {[m \in StepperMotors |-> Velocity(4)]}
=============================================================================
