----------------------------- MODULE KnifeMotor ------------------------------
(***************************************************************************)
(* The knife axis seen from above: control_knife_motor, which turns motor  *)
(* actions into stepper actions and runs homing and cable seeking off the  *)
(* stall events; the encoder stall monitor that produces those events; and *)
(* the control loop that homes the axis at startup and then repeats the    *)
(* requested action on every tick.                                         *)
(*                                                                         *)
(* The stepper (module Stepper) is seen as a motor that moves in the       *)
(* direction of the last stepper action.  The knife travels along          *)
(* 0 .. Top: the cable is at 0 and the home stop at Top, and HOMING_       *)
(* DIRECTION, Forward, leads to Top.  One unit is what the knife travels   *)
(* in a stall window of 200 ms.  The limit switch branch of the task is    *)
(* absent: no build spawns the task that would feed it.                    *)
(***************************************************************************)
EXTENDS Integers

CONSTANTS
    Top,                             \* length of the travel
    HOMING_DETECTED_STALL_COUNT,
    SEEK_FORWARD_STALL_COUNT,
    SEEK_REVERSE_RESOLVE_COUNT,
    Requests,                        \* motor actions upstream may request
    MaxRequests,                     \* bound: changes of the request
    MaxErrors,                       \* bound: windows without an encoder sample
    MaxCount,                        \* bound: the stall counters saturate here
    MaxPos                           \* bound: the step counter saturates here

ASSUME CountConstants ==
    /\ Top \in Nat
    /\ HOMING_DETECTED_STALL_COUNT \in Nat \ {0}
    /\ SEEK_FORWARD_STALL_COUNT \in Nat \ {0}
    /\ SEEK_REVERSE_RESOLVE_COUNT \in Nat
    /\ MaxCount \in Nat
    /\ HOMING_DETECTED_STALL_COUNT < MaxCount
    /\ SEEK_FORWARD_STALL_COUNT < MaxCount
    /\ SEEK_REVERSE_RESOLVE_COUNT < MaxCount
    /\ MaxRequests \in Nat /\ MaxErrors \in Nat
    /\ MaxPos \in Nat

\* A motor action: arg is the signed direction of a velocity, the target of a
\* position move, and 0 for the others.
MotorActions == [kind: {"Coast", "Hold", "Home", "Seek", "MoveVelocity", "MovePosition"},
                 arg: Int]

ASSUME RequestConstants == Requests \subseteq MotorActions

Plain(k) == [kind |-> k, arg |-> 0]

StepperActions == [kind: {"Coast", "MoveVelocity", "MovePosition"}, arg: Int]

new_stopped == Plain("Coast")
new_homing == [kind |-> "MoveVelocity", arg |-> 1]
new_seek_forward == [kind |-> "MoveVelocity", arg |-> -1]
new_seek_reverse == [kind |-> "MoveVelocity", arg |-> 1]

VARIABLES
    \* control_knife_motor
    current_action, current_cmd, home_status, seek_status, stall_cnt, resolve_cnt,
    pos_status,          \* the KNIFE_MOTOR_POS_STATUS watch
    \* watches it waits on: what has not been seen yet
    setpoint,            \* KNIFE_MOTOR_SETPOINT
    setpoint_new,
    stall_event,         \* STALL_EVENT, or "None"
    pos_new,             \* KNIFE_MOTOR_POS has a new value
    \* stepper and knife
    pos,                 \* step counter of the stepper
    axis,                \* where the knife really is
    \* stall monitor
    before,              \* the encoder's angle at the start of the window
    validity,            \* validity last published by the encoder task
    validity_before,     \* the same at the start of the window
    encoder_new,         \* KNIFE_MOTOR_HOME_STATUS not yet seen by the encoder task
    window,              \* "fresh", "partial" (new command in it) or "ticked" (moved)
    \* control loop
    phase,               \* "startup" or "main"
    home_new,            \* KNIFE_MOTOR_HOME_STATUS not yet seen by the control loop
    request, requests,
    \* history
    errors,              \* windows in which the encoder gave only errors
    counted,             \* the counters were reset when the last homing began, and
                         \* the encoder has answered since
    seek_run             \* the last seek: "clean", "touched" (met the cable) or "broken"
                         \* (left before its end, without encoder, or backing off
                         \* while the task was a whole window behind)

motor == <<current_action, current_cmd, home_status, seek_status, stall_cnt,
           resolve_cnt, pos_status>>
watches == <<setpoint, setpoint_new, stall_event, pos_new>>
plant == <<pos, axis, before, validity, validity_before, encoder_new, window>>
upstream == <<phase, home_new, request, requests>>
history == <<errors, counted, seek_run>>
vars == <<motor, watches, plant, upstream, history>>

-----------------------------------------------------------------------------
(* Stepper, knife and stall monitor.                                       *)

Sign(x) == IF x > 0 THEN 1 ELSE IF x < 0 THEN -1 ELSE 0

Within(x, low, high) == IF x < low THEN low ELSE IF x > high THEN high ELSE x

Capped(n) == IF n > MaxCount THEN MaxCount ELSE n

\* The direction the stepper runs in under the last stepper action.
Motion ==
    IF current_cmd.kind = "MoveVelocity" THEN Sign(current_cmd.arg)
    ELSE IF current_cmd.kind = "MovePosition" THEN Sign(current_cmd.arg - pos)
    ELSE 0

\* The stepper counts its pulses whether or not the knife can follow.
Move ==
    /\ Motion # 0
    /\ window # "ticked"
    /\ pos' = Within(pos + Motion, -MaxPos, MaxPos)
    /\ axis' = Within(axis + Motion, 0, Top)
    /\ pos_new' = TRUE
    /\ window' = "ticked"
    /\ seek_run' = IF seek_run = "clean" /\ axis' = 0 THEN "touched" ELSE seek_run
    /\ UNCHANGED <<motor, setpoint, setpoint_new, stall_event, before, validity,
                   validity_before, encoder_new, upstream, errors, counted>>

Validities == {"NotHomedYet", "Valid", "EncoderError"}

ValidityOf(status) == IF status = "Homed" THEN "Valid" ELSE "NotHomedYet"

\* The encoder task takes over a changed home status (on_homed, on_home_lost)
\* and publishes it with its next sample.
EncoderTick ==
    /\ encoder_new
    /\ encoder_new' = FALSE
    /\ validity' = ValidityOf(home_status)
    /\ UNCHANGED <<motor, watches, pos, axis, before, validity_before, window, upstream,
                   history>>

\* Two encoder states are equal: the knife did not move between them and the
\* validity is the same.
EncoderUnchanged == axis = before /\ validity = validity_before

\* detect_stalls: compare the encoder state, validity included, with what it
\* was 200 ms ago and send one event per window.  A motor that was commanded
\* to move for the whole window has moved in it, if it could, and the encoder
\* has sampled several times.
WindowOver == window # "fresh" \/ (Motion = 0 /\ ~encoder_new)

WindowEnd ==
    /\ WindowOver
    /\ stall_event' = IF EncoderUnchanged THEN "Stalled" ELSE "Resolved"
    /\ before' = axis /\ validity_before' = validity
    /\ window' = "fresh"
    /\ seek_run' = IF stall_event # "None" /\ seek_status = "ReversingAway" THEN "broken"
                   ELSE seek_run
    /\ UNCHANGED <<motor, setpoint, setpoint_new, pos_new, pos, axis, validity, encoder_new,
                   upstream, errors, counted>>

\* A seek that is under way can no longer be relied on.
SeekBroken == IF seek_status \in {"SeekingCable", "ReversingAway"} THEN "broken" ELSE "none"

\* A window in which every sample failed: the angle is published as it was, the
\* validity too if the sensor's error flag could be cleared.
BlindWindow ==
    /\ errors < MaxErrors /\ WindowOver
    /\ \E v \in {validity, "EncoderError"} :
          /\ stall_event' = IF v = validity_before THEN "Stalled" ELSE "Resolved"
          /\ validity' = v /\ validity_before' = v
    /\ window' = "fresh"
    /\ errors' = errors + 1
    /\ counted' = FALSE
    /\ seek_run' = SeekBroken
    /\ UNCHANGED <<motor, setpoint, setpoint_new, pos_new, pos, axis, before, encoder_new,
                   upstream>>

-----------------------------------------------------------------------------
(* control_knife_motor.                                                    *)

Disturbed == IF window = "ticked" THEN "ticked" ELSE "partial"

\* set_action: remember the action, send the stepper action.
SetAction(action, cmd) ==
    /\ current_action' = action
    /\ current_cmd' = cmd
    /\ window' = Disturbed

\* on_position_reached: report it and stop.
PositionReached ==
    /\ pos_status' = "Reached"
    /\ SetAction(Plain("Hold"), new_stopped)

\* Position events only matter to a position move.  The comparison is with
\* the outer target_pos_steps, which is Steps(0) for ever: the target of the
\* move is a shadowing local of the action branch.
OnPosition ==
    /\ pos_new
    /\ pos_new' = FALSE
    /\ \/ /\ current_action.kind = "MovePosition" /\ pos = 0
          /\ PositionReached
       \/ /\ ~(current_action.kind = "MovePosition" /\ pos = 0)
          /\ UNCHANGED <<pos_status, current_action, current_cmd, window>>
    /\ UNCHANGED <<home_status, seek_status, stall_cnt, resolve_cnt, setpoint,
                   setpoint_new, stall_event, pos, axis, before, validity, validity_before,
                   encoder_new, upstream, history>>

\* homing_finished: stop, record home, have the step counter reset.
HomingFinished ==
    /\ SetAction(Plain("Hold"), new_stopped)
    /\ home_status' = "Homed"
    /\ home_new' = TRUE /\ encoder_new' = TRUE
    /\ pos' = 0
    /\ pos_new' = TRUE
    /\ UNCHANGED seek_status

SeekStartReverse ==
    /\ current_cmd' = new_seek_reverse
    /\ window' = Disturbed
    /\ seek_status' = "ReversingAway"
    /\ UNCHANGED <<current_action, home_status, home_new, encoder_new, pos, pos_new>>

\* Mutant: the stop is recorded but not sent.
SeekFinishedSilently ==
    /\ current_action' = Plain("Hold")
    /\ seek_status' = "Done"
    /\ UNCHANGED <<current_cmd, window, home_status, home_new, encoder_new, pos, pos_new>>

SeekFinished ==
    /\ SetAction(Plain("Hold"), new_stopped)
    /\ seek_status' = "Done"
    /\ UNCHANGED <<home_status, home_new, encoder_new, pos, pos_new>>

HomeConfirmed ==
    /\ current_action.kind = "Home"
    /\ stall_event = "Stalled"
    /\ stall_cnt >= HOMING_DETECTED_STALL_COUNT

CableFound ==
    /\ current_action.kind = "Seek" /\ seek_status = "SeekingCable"
    /\ stall_event = "Stalled"
    /\ stall_cnt >= SEEK_FORWARD_STALL_COUNT

ReversedEnough ==
    /\ current_action.kind = "Seek" /\ seek_status = "ReversingAway"
    /\ stall_event = "Resolved"
    /\ resolve_cnt > SEEK_REVERSE_RESOLVE_COUNT

\* The stall branch: react to the event, then count it.
OnStall ==
    /\ ~pos_new /\ stall_event # "None"
    /\ stall_event' = "None"
    /\ \/ HomeConfirmed /\ HomingFinished
       \/ CableFound /\ SeekStartReverse
       \/ ReversedEnough /\ SeekFinished
       \/ /\ ~(HomeConfirmed \/ CableFound \/ ReversedEnough)
          /\ UNCHANGED <<current_action, current_cmd, window, home_status, home_new,
                         encoder_new, seek_status, pos, pos_new>>
    /\ stall_cnt' = IF stall_event = "Stalled" THEN Capped(stall_cnt + 1) ELSE 0
    /\ resolve_cnt' = IF stall_event = "Resolved" THEN Capped(resolve_cnt + 1) ELSE 0
    /\ UNCHANGED <<pos_status, setpoint, setpoint_new, axis, before, validity,
                   validity_before, phase, request, requests, history>>

\* Mutant: Hold is passed on as it is.
StepperActionForPassesHold(a) ==
    CASE a.kind = "Coast" -> new_stopped
      [] a.kind = "Home" -> new_homing
      [] a.kind = "Seek" -> IF seek_status = "NotStarted" THEN new_seek_forward
                            ELSE current_cmd
      [] OTHER -> a

\* What a new action does besides being sent on: its stepper action and its
\* effect on the seek and home status.  A seek that is in progress or done is
\* ignored, by repeating the last stepper action.
StepperActionFor(a) ==
    CASE a.kind \in {"Hold", "Coast"} -> new_stopped
      [] a.kind = "Home" -> new_homing
      [] a.kind = "Seek" -> IF seek_status = "NotStarted" THEN new_seek_forward
                            ELSE current_cmd
      [] OTHER -> a

SeekStatusFor(a) ==
    CASE a.kind \in {"Hold", "Coast"} -> seek_status
      [] a.kind = "Seek" -> IF seek_status = "NotStarted" THEN "SeekingCable"
                            ELSE seek_status
      [] OTHER -> "NotStarted"

SeekRunFor(a) ==
    CASE a.kind = "Seek" /\ seek_status = "NotStarted" ->
              IF axis = 0 THEN "touched" ELSE "clean"
      [] a.kind = "Seek" /\ seek_status # "NotStarted" -> seek_run
      [] OTHER -> SeekBroken

\* Mutant: a new action goes on with the counts of the last one.
KeepCounters == UNCHANGED <<stall_cnt, resolve_cnt>>

\* The counters are reset only here.
ResetCounters == stall_cnt' = 0 /\ resolve_cnt' = 0

\* Mutant: a motor that is lost takes new actions too.
TakeActionUngated ==
    /\ setpoint # current_action
    /\ ResetCounters
    /\ SetAction(setpoint, StepperActionFor(setpoint))
    /\ seek_status' = SeekStatusFor(setpoint)
    /\ home_status' = IF setpoint.kind = "Home" THEN "Lost" ELSE home_status
    /\ home_new' = IF setpoint.kind = "Home" THEN TRUE ELSE home_new
    /\ encoder_new' = IF setpoint.kind = "Home" THEN TRUE ELSE encoder_new
    /\ pos_status' = IF setpoint.kind = "MovePosition" THEN "InProgress" ELSE pos_status
    /\ counted' = IF setpoint.kind = "Home" THEN TRUE ELSE counted
    /\ seek_run' = SeekRunFor(setpoint)
    /\ UNCHANGED errors

\* A homed motor takes a new action.
TakeAction ==
    /\ home_status = "Homed" /\ setpoint # current_action
    /\ ResetCounters
    /\ SetAction(setpoint, StepperActionFor(setpoint))
    /\ seek_status' = SeekStatusFor(setpoint)
    /\ home_status' = IF setpoint.kind = "Home" THEN "Lost" ELSE home_status
    /\ home_new' = IF setpoint.kind = "Home" THEN TRUE ELSE home_new
    /\ encoder_new' = IF setpoint.kind = "Home" THEN TRUE ELSE encoder_new
    /\ pos_status' = IF setpoint.kind = "MovePosition" THEN "InProgress" ELSE pos_status
    /\ counted' = IF setpoint.kind = "Home" THEN TRUE ELSE counted
    /\ seek_run' = SeekRunFor(setpoint)
    /\ UNCHANGED errors

\* Mutant: every action sent to a lost motor starts the homing over.
HomeFirstAgain ==
    /\ home_status = "Lost"
    /\ SetAction(Plain("Home"), new_homing)
    /\ counted' = FALSE
    /\ ResetCounters
    /\ UNCHANGED <<home_status, home_new, encoder_new, seek_status, pos_status, errors, seek_run>>

\* A motor that is lost homes first, whatever was asked.
HomeFirst ==
    /\ home_status = "Lost" /\ current_action.kind # "Home"
    /\ SetAction(Plain("Home"), new_homing)
    /\ counted' = FALSE
    /\ UNCHANGED <<home_status, home_new, encoder_new, seek_status, stall_cnt, resolve_cnt,
                   pos_status, errors, seek_run>>

IgnoreAction ==
    /\ \/ home_status = "Homed" /\ setpoint = current_action
       \/ home_status = "Lost" /\ current_action.kind = "Home"
    /\ UNCHANGED <<motor, window, home_new, encoder_new, history>>

OnAction ==
    /\ setpoint_new /\ ~pos_new /\ stall_event = "None"
    /\ setpoint_new' = FALSE
    /\ TakeAction \/ HomeFirst \/ IgnoreAction
    /\ UNCHANGED <<setpoint, stall_event, pos_new, pos, axis, before, validity,
                   validity_before, phase, request, requests>>

-----------------------------------------------------------------------------
(* The control loop.                                                       *)

Send(a) == setpoint' = a /\ setpoint_new' = TRUE

\* Startup: ask for Home, wait for a home status or the 30 s timeout, ask
\* again unless it was Homed.
StartupHome ==
    /\ phase = "startup"
    /\ ~(home_new /\ home_status = "Homed")
    /\ Send(Plain("Home"))
    /\ home_new' = FALSE
    /\ UNCHANGED <<motor, stall_event, pos_new, plant, phase, request, requests, history>>

StartupDone ==
    /\ phase = "startup"
    /\ home_new /\ home_status = "Homed"
    /\ home_new' = FALSE
    /\ phase' = "main"
    /\ UNCHANGED <<motor, watches, plant, request, requests, history>>

\* The main loop sends the requested action on every tick, changed or not.
Tick ==
    /\ phase = "main"
    /\ Send(request)
    /\ UNCHANGED <<motor, stall_event, pos_new, plant, upstream, history>>

ChangeRequest(a) ==
    /\ phase = "main" /\ requests < MaxRequests
    /\ request' = a
    /\ requests' = requests + 1
    /\ UNCHANGED <<motor, watches, plant, phase, home_new, history>>

-----------------------------------------------------------------------------

\* The knife may be anywhere when the machine is switched on.
Init ==
    /\ current_action = Plain("Coast") /\ current_cmd = new_stopped
    /\ home_status = "Lost" /\ seek_status = "NotStarted"
    /\ stall_cnt = 0 /\ resolve_cnt = 0
    /\ pos_status = "Reached"
    /\ setpoint = Plain("Coast") /\ setpoint_new = FALSE
    /\ stall_event = "None"
    /\ pos_new = FALSE /\ pos = 0
    /\ axis \in 0 .. Top
    /\ before = axis /\ window = "fresh"
    /\ validity = "NotHomedYet" /\ validity_before = "NotHomedYet" /\ encoder_new = TRUE
    /\ phase = "startup" /\ home_new = TRUE
    /\ request = Plain("Coast") /\ requests = 0
    /\ errors = 0 /\ counted = FALSE /\ seek_run = "none"

Next ==
    \/ Move \/ EncoderTick \/ WindowEnd \/ BlindWindow
    \/ OnPosition \/ OnStall \/ OnAction
    \/ StartupHome \/ StartupDone \/ Tick
    \/ \E a \in Requests : ChangeRequest(a)

Spec == Init /\ [][Next]_vars

\* Timers expire, woken tasks are polled, a motor that is driven moves.
Fairness ==
    /\ WF_vars(Move) /\ WF_vars(EncoderTick) /\ WF_vars(WindowEnd \/ BlindWindow)
    /\ WF_vars(OnPosition) /\ SF_vars(OnStall) /\ SF_vars(OnAction)
    /\ WF_vars(StartupHome) /\ WF_vars(StartupDone) /\ WF_vars(Tick)

FairSpec == Spec /\ Fairness

-----------------------------------------------------------------------------
(* Properties.                                                             *)

\* Type invariant.
TypeOK ==
    /\ current_action \in MotorActions /\ current_cmd \in StepperActions
    /\ home_status \in {"Lost", "Homed"}
    /\ seek_status \in {"NotStarted", "SeekingCable", "ReversingAway", "Done"}
    /\ stall_cnt \in 0 .. MaxCount /\ resolve_cnt \in 0 .. MaxCount
    /\ pos_status \in {"InProgress", "Reached"}
    /\ setpoint \in MotorActions /\ setpoint_new \in BOOLEAN
    /\ stall_event \in {"None", "Stalled", "Resolved"}
    /\ pos_new \in BOOLEAN
    /\ pos \in -MaxPos .. MaxPos
    /\ axis \in 0 .. Top /\ before \in 0 .. Top
    /\ validity \in Validities /\ validity_before \in Validities /\ encoder_new \in BOOLEAN
    /\ window \in {"fresh", "partial", "ticked"}
    /\ phase \in {"startup", "main"} /\ home_new \in BOOLEAN
    /\ request \in MotorActions /\ requests \in 0 .. MaxRequests
    /\ errors \in 0 .. MaxErrors /\ counted \in BOOLEAN
    /\ seek_run \in {"none", "clean", "touched", "broken"}

\* "We must be homed before accepting new motor actions": a motor that is lost
\* is stopped or homing, whatever upstream has sent since; and a homed one is
\* not homing.
HomeGate ==
    /\ home_status = "Lost" =>
          \/ current_action.kind = "Coast" /\ current_cmd = new_stopped
          \/ current_action.kind = "Home" /\ current_cmd = new_homing
    /\ home_status = "Homed" => current_action.kind # "Home"

\* Whenever the task considers the motor stopped, the last stepper action it
\* sent is the stopping one, however the stop came about (request, homing
\* done, seek done, position reached).
StopMeansStop == current_action.kind \in {"Coast", "Hold"} => current_cmd = new_stopped

\* A homing that began with fresh counters, and whose encoder answers, is
\* confirmed only at the home stop: a window cut short by the command, one slow
\* event or angles from before an error do not suffice.
CountedHomingAtStop ==
    [][home_status = "Lost" /\ home_status' = "Homed" /\ counted => axis = Top]_vars

\* The axis gets homed after power-up, wherever the knife stood and whatever
\* upstream asks for meanwhile.
HomingCompletes == <>(home_status = "Homed")

\* "Seeking is the act of positioning the knife at the correct initial cable
\* peeling high": a seek that is not left before its end backs off from the
\* cable only after having met it, although the stall events of the action
\* before may still be on their way when it begins.
UnbrokenSeekTouchesCable == seek_status = "ReversingAway" => seek_run # "clean"

\* A seek that is not left, by a task that keeps up with the windows, comes to
\* an end with the motor at rest, and the Seek that upstream repeats on every
\* tick does not start it again.
SeekSettles ==
    [](seek_run # "broken") /\ <>[](request.kind = "Seek") => <>[](Motion = 0)

\* "Stalled during homing, indicates succesful homing": home is confirmed only
\* with the knife at the home stop.
HomedAtStop == [][home_status = "Lost" /\ home_status' = "Homed" => axis = Top]_vars

\* UnbrokenSeekTouchesCable for every seek.
SeekTouchesCable == seek_status = "ReversingAway" => seek_run = "touched"

\* "Did we reach position target?": a position move is reported as reached
\* only at its target.
ReachedAtTarget ==
    [][pos_status = "InProgress" /\ pos_status' = "Reached" =>
          pos = current_action.arg]_vars

\* A motor asked to home, and to do nothing else, homes and stays homed.
HomingSettles == <>[](home_status = "Homed")
=============================================================================
