------------------------------ MODULE ExchangeMC -----------------------------
(* The panel is stopped and started in vision mode; there are two scenes.   *)
(* A damaged frame is taken for one that starts a motor.                    *)
EXTENDS Exchange

InVision ==
    [enable |-> TRUE, control_mode |-> "Vision", parameter_setpoints |-> "reset",
     motor_setpoints |-> [m \in Motors |-> Velocity(10)]]

TwoPanels == {DefaultPanel, InVision}

TwoScenes == {[m \in Motors |-> Velocity(v)] : v \in {20, 30}}

TheirEfforts == {EffortOf(s) : s \in TwoScenes}

BadSetpoint == {[control_mode |-> "Vision", knife |-> Velocity(10), params |-> "reset"]}

BadReport == {[m \in StepperMotors |-> Velocity(30)]}
=============================================================================
