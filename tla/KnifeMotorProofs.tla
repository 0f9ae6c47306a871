-------------------------- MODULE KnifeMotorProofs ---------------------------
(***************************************************************************)
(* Proofs about the knife axis, for every travel, every value of the stall *)
(* counts and every set of requests.                                       *)
(***************************************************************************)
EXTENDS KnifeMotor, TLAPS

-----------------------------------------------------------------------------
(* The inductive invariant.                                                *)

\* A homing in progress whose counters were reset when it began.
CountedHoming == current_action.kind = "Home" /\ counted

\* A window has ended since the counters were reset.
WindowSeen == stall_cnt >= 1 \/ stall_event # "None"

\* During a counted homing the first Stalled may come from the window in which
\* the command arrived; every later one comes from a window the motor was
\* driven in from start to end, and so from the home stop.  The window compares
\* with the angle at its start: the knife moves only in a step that marks it.
StallsAreReal ==
    CountedHoming =>
        /\ stall_cnt >= 2 => axis = Top
        /\ stall_event = "Stalled" /\ stall_cnt >= 1 => axis = Top
        /\ WindowSeen => window # "partial"
        /\ WindowSeen /\ window # "ticked" => axis = before
        /\ WindowSeen /\ window = "ticked" => axis # before \/ axis = Top

\* The same for a clean seek, towards the cable: it has at most the one Stalled
\* of the window it began in, since every later window has seen the knife move.
SeekStallsAreReal ==
    seek_run = "clean" =>
        /\ current_action.kind = "Seek" /\ seek_status = "SeekingCable"
        /\ current_cmd = new_seek_forward
        /\ axis # 0
        /\ stall_cnt <= 1
        /\ stall_event = "Stalled" => stall_cnt = 0
        /\ WindowSeen => window # "partial"
        /\ WindowSeen /\ window # "ticked" => axis = before
        /\ WindowSeen /\ window = "ticked" => axis # before

Inv ==
    /\ TypeOK /\ HomeGate /\ StopMeansStop
    /\ StallsAreReal /\ SeekStallsAreReal

\* The initial states satisfy the invariant.
LEMMA InitInv == Init => Inv
  <1> SUFFICES ASSUME Init
               PROVE  Inv
    OBVIOUS
  <1> USE CountConstants DEF Init, Plain, new_stopped
  <1>1. TypeOK
    <2>1. Plain("Coast") \in MotorActions /\ Plain("Coast") \in StepperActions
      BY DEF MotorActions, StepperActions
    <2>2. /\ 0 \in -MaxPos .. MaxPos /\ 0 \in 0 .. MaxCount /\ 0 \in 0 .. MaxRequests
          /\ 0 \in 0 .. MaxErrors
      OBVIOUS
    <2> HIDE DEF Plain
    <2> QED
      BY <2>1, <2>2 DEF TypeOK, Validities
  <1>2. HomeGate /\ StopMeansStop
    BY DEF HomeGate, StopMeansStop
  <1>3. StallsAreReal /\ SeekStallsAreReal
    BY DEF StallsAreReal, CountedHoming, SeekStallsAreReal
  <1> QED
    BY <1>1, <1>2, <1>3 DEF Inv

-----------------------------------------------------------------------------
(* Typing.                                                                 *)

\* What may be assigned to the actions and counters has their types.
LEMMA Constructors ==
    /\ \A k \in {"Coast", "Hold", "Home", "Seek"} : Plain(k) \in MotorActions
    /\ new_stopped \in StepperActions
    /\ new_homing \in StepperActions
    /\ new_seek_forward \in StepperActions
    /\ new_seek_reverse \in StepperActions
    /\ \A n \in Nat : Capped(n) \in 0 .. MaxCount
  BY CountConstants DEF Plain, MotorActions, StepperActions, new_stopped, new_homing,
     new_seek_forward, new_seek_reverse, Capped

\* Every motor action is translated into a stepper action.
LEMMA StepperActionForType ==
    ASSUME NEW a \in MotorActions, current_cmd \in StepperActions
    PROVE  StepperActionFor(a) \in StepperActions
  <1>1. CASE a.kind \in {"Hold", "Coast", "Home", "Seek"}
    BY <1>1, Constructors DEF StepperActionFor
  <1>2. CASE a.kind \in {"MoveVelocity", "MovePosition"}
    <2>1. a \in StepperActions
      BY <1>2 DEF MotorActions, StepperActions
    <2> QED
      BY <1>2, <2>1 DEF StepperActionFor
  <1> QED
    BY <1>1, <1>2 DEF MotorActions

\* Wherever the motor drives it, the knife stays on its travel.
LEMMA MotionType ==
    ASSUME TypeOK
    PROVE  Motion \in {-1, 0, 1}
  BY DEF Motion, Sign

\* Every step preserves the types.
LEMMA TypeStep == TypeOK /\ [Next]_vars => TypeOK'
  <1> SUFFICES ASSUME TypeOK, [Next]_vars
               PROVE  TypeOK'
    OBVIOUS
  <1> USE CountConstants, RequestConstants
  <1>1. CASE Move
    <2>1. pos' \in -MaxPos .. MaxPos /\ axis' \in 0 .. Top
      BY <1>1, MotionType DEF Move, Within, TypeOK
    <2> QED
      BY <1>1, <2>1 DEF Move, TypeOK, motor, upstream
  <1>2. CASE EncoderTick
    <2>1. /\ encoder_new' \in BOOLEAN
          /\ validity' = ValidityOf(home_status)
          /\ UNCHANGED <<motor, watches, pos, axis, before, validity_before, window,
                         upstream, history>>
      BY <1>2, Zenon DEF EncoderTick
    <2> QED
      BY <2>1 DEF ValidityOf, Validities, TypeOK, motor, watches, upstream, history
  <1>3. CASE WindowEnd
    <2>1. /\ stall_event' \in {"Stalled", "Resolved"}
          /\ before' = axis /\ validity_before' = validity /\ window' = "fresh"
          /\ seek_run' \in {"broken", seek_run}
          /\ UNCHANGED <<motor, setpoint, setpoint_new, pos_new, pos, axis, validity,
                         encoder_new, upstream, errors, counted>>
      BY <1>3, Zenon DEF WindowEnd
    <2> QED
      BY <2>1 DEF TypeOK, motor, upstream
  <1>12. CASE BlindWindow
    <2>1. /\ stall_event' \in {"Stalled", "Resolved"}
          /\ validity' \in {validity, "EncoderError"}
          /\ validity_before' \in {validity, "EncoderError"}
          /\ window' = "fresh"
      BY <1>12 DEF BlindWindow
    <2>2. seek_run' \in {"broken", "none"}
      BY <1>12 DEF BlindWindow, SeekBroken
    <2>3. /\ counted' \in BOOLEAN
          /\ UNCHANGED <<motor, setpoint, setpoint_new, pos_new, pos, axis, before,
                         encoder_new, upstream>>
      BY <1>12, Zenon DEF BlindWindow
    <2>4. errors' \in 0 .. MaxErrors
      BY <1>12 DEF BlindWindow, TypeOK
    <2> QED
      BY <2>1, <2>2, <2>3, <2>4 DEF Validities, TypeOK, motor, upstream
  <1>4. CASE OnPosition
    <2>1. /\ pos_new' \in BOOLEAN
          /\ \/ /\ pos_status' = "Reached"
                /\ SetAction(Plain("Hold"), new_stopped)
             \/ UNCHANGED <<pos_status, current_action, current_cmd, window>>
          /\ UNCHANGED <<home_status, seek_status, stall_cnt, resolve_cnt, setpoint,
                         setpoint_new, stall_event, pos, axis, before, validity,
                         validity_before, encoder_new, upstream, history>>
      BY <1>4, Zenon DEF OnPosition, PositionReached
    <2> QED
      BY <2>1, Constructors DEF SetAction, Disturbed, TypeOK, upstream, history
  <1>5. CASE OnStall
    <2>1. stall_cnt' \in 0 .. MaxCount /\ resolve_cnt' \in 0 .. MaxCount
      BY <1>5, Constructors DEF OnStall, TypeOK
    <2>2. /\ stall_event' = "None"
          /\ UNCHANGED <<pos_status, setpoint, setpoint_new, axis, before, validity,
                         validity_before, phase, request, requests, history>>
      BY <1>5, Zenon DEF OnStall
    <2>3. /\ home_new' \in BOOLEAN /\ pos_new' \in BOOLEAN /\ encoder_new' \in BOOLEAN
      BY <1>5, Zenon DEF OnStall, HomingFinished, SeekStartReverse, SeekFinished, TypeOK
    <2>4. /\ current_action' \in {Plain("Hold"), current_action}
          /\ current_cmd' \in {new_stopped, new_seek_reverse, current_cmd}
          /\ window' \in {"ticked", "partial", window}
          /\ home_status' \in {"Homed", home_status}
          /\ seek_status' \in {"ReversingAway", "Done", seek_status}
          /\ pos' \in {0, pos}
      BY <1>5, Zenon DEF OnStall, HomingFinished, SeekStartReverse, SeekFinished, SetAction,
         Disturbed
    <2> QED
      BY <2>1, <2>2, <2>3, <2>4, Constructors DEF TypeOK, history
  <1>6. CASE OnAction
    <2>1. CASE TakeAction
      <3>1. current_cmd' \in StepperActions
        BY <2>1, StepperActionForType DEF TakeAction, SetAction, TypeOK
      <3>2. seek_status' \in {"NotStarted", "SeekingCable", "ReversingAway", "Done"}
        BY <2>1 DEF TakeAction, SeekStatusFor, TypeOK
      <3>3. /\ stall_cnt' = 0 /\ resolve_cnt' = 0
            /\ current_action' = setpoint /\ window' = Disturbed
            /\ home_status' \in {"Lost", home_status}
            /\ pos_status' \in {"InProgress", pos_status}
        BY <2>1 DEF TakeAction, ResetCounters, SetAction
      <3>4. /\ home_new' \in BOOLEAN /\ encoder_new' \in BOOLEAN /\ counted' \in BOOLEAN
            /\ errors' = errors
        BY <2>1, Zenon DEF TakeAction, TypeOK
      <3>6. seek_run' \in {"none", "clean", "touched", "broken"}
        BY <2>1 DEF TakeAction, SeekRunFor, SeekBroken, TypeOK
      <3>5. /\ setpoint_new' \in BOOLEAN
            /\ UNCHANGED <<setpoint, stall_event, pos_new, pos, axis, before, validity,
                           validity_before, phase, request, requests>>
        BY <1>6, Zenon DEF OnAction
      <3> QED
        BY <3>1, <3>2, <3>3, <3>4, <3>5, <3>6 DEF Disturbed, TypeOK
    <2>2. CASE HomeFirst
      <3>1. /\ setpoint_new' \in BOOLEAN
            /\ UNCHANGED <<setpoint, stall_event, pos_new, pos, axis, before, validity,
                           validity_before, phase, request, requests>>
        BY <1>6, Zenon DEF OnAction
      <3>2. /\ current_action' = Plain("Home") /\ current_cmd' = new_homing
            /\ window' = Disturbed /\ counted' \in BOOLEAN
            /\ UNCHANGED <<home_status, home_new, encoder_new, seek_status, stall_cnt,
                           resolve_cnt, pos_status, errors, seek_run>>
        BY <2>2, Zenon DEF HomeFirst, SetAction
      <3> QED
        BY <3>1, <3>2, Constructors DEF Disturbed, TypeOK
    <2>3. CASE IgnoreAction
      <3>1. /\ setpoint_new' \in BOOLEAN
            /\ UNCHANGED <<setpoint, stall_event, pos_new, pos, axis, before, validity,
                           validity_before, phase, request, requests>>
        BY <1>6, Zenon DEF OnAction
      <3>2. UNCHANGED <<motor, window, home_new, encoder_new, history>>
        BY <2>3, Zenon DEF IgnoreAction
      <3> QED
        BY <3>1, <3>2 DEF TypeOK, motor, history
    <2> QED
      BY <1>6, <2>1, <2>2, <2>3 DEF OnAction
  <1>7. CASE StartupHome
    <2>1. /\ setpoint' = Plain("Home")
          /\ setpoint_new' \in BOOLEAN /\ home_new' \in BOOLEAN
          /\ UNCHANGED <<motor, stall_event, pos_new, plant, phase, request, requests,
                         history>>
      BY <1>7, Zenon DEF StartupHome, Send
    <2> QED
      BY <2>1, Constructors DEF TypeOK, motor, plant, history
  <1>8. CASE StartupDone
    <2>1. /\ home_new' \in BOOLEAN /\ phase' = "main"
          /\ UNCHANGED <<motor, watches, plant, request, requests, history>>
      BY <1>8, Zenon DEF StartupDone
    <2> QED
      BY <2>1 DEF TypeOK, motor, watches, plant, history
  <1>9. CASE Tick
    BY <1>9 DEF Tick, Send, TypeOK, motor, plant, upstream, history
  <1>10. CASE \E a \in Requests : ChangeRequest(a)
    BY <1>10 DEF ChangeRequest, TypeOK, motor, watches, plant, history
  <1>11. CASE UNCHANGED vars
    BY <1>11 DEF vars, TypeOK, motor, watches, plant, upstream, history
  <1> QED
    BY <1>1, <1>2, <1>3, <1>4, <1>5, <1>6, <1>7, <1>8, <1>9, <1>10, <1>11,
       <1>12 DEF Next

-----------------------------------------------------------------------------
(* Homing gate and stops.                                                  *)

\* Steps of the plant and of the control loop leave the motor task alone.
LEMMA OthersLeaveMotor ==
    ASSUME \/ Move \/ EncoderTick \/ WindowEnd \/ BlindWindow
           \/ StartupHome \/ StartupDone \/ Tick
           \/ \E a \in Requests : ChangeRequest(a)
           \/ UNCHANGED vars
    PROVE  /\ UNCHANGED <<current_action, current_cmd, home_status, stall_cnt>>
           /\ UNCHANGED counted \/ counted' = FALSE
  <1>1. CASE BlindWindow
    BY <1>1, Zenon DEF BlindWindow, motor
  <1>2. CASE UNCHANGED vars
    BY <1>2, Zenon DEF vars, motor, history
  <1>3. CASE Move \/ EncoderTick \/ WindowEnd
    BY <1>3, Zenon DEF Move, EncoderTick, WindowEnd, motor, history
  <1>4. CASE StartupHome \/ StartupDone \/ Tick
    BY <1>4, Zenon DEF StartupHome, StartupDone, Tick, motor, history
  <1>5. CASE \E a \in Requests : ChangeRequest(a)
    BY <1>5, Zenon DEF ChangeRequest, motor, history
  <1> QED
    BY <1>1, <1>2, <1>3, <1>4, <1>5

\* Every step keeps a lost motor stopped or homing, and a stopped one stopped.
LEMMA GateStep ==
    TypeOK /\ HomeGate /\ StopMeansStop /\ [Next]_vars => HomeGate' /\ StopMeansStop'
  <1> SUFFICES ASSUME TypeOK, HomeGate, StopMeansStop, [Next]_vars
               PROVE  HomeGate' /\ StopMeansStop'
    OBVIOUS
  <1> USE DEF HomeGate, StopMeansStop
  <1>1. CASE OnPosition
    <2>1. UNCHANGED home_status
      BY <1>1, Zenon DEF OnPosition, PositionReached
    <2>2. CASE UNCHANGED <<current_action, current_cmd>>
      BY <2>1, <2>2
    <2>3. CASE ~UNCHANGED <<current_action, current_cmd>>
      <3>1. /\ current_action.kind = "MovePosition"
            /\ current_action' = Plain("Hold") /\ current_cmd' = new_stopped
        BY <1>1, <2>3, Zenon DEF OnPosition, PositionReached, SetAction
      <3>2. home_status = "Homed"
        BY <3>1 DEF TypeOK
      <3> QED
        BY <2>1, <3>1, <3>2 DEF Plain
    <2> QED
      BY <2>2, <2>3
  <1>2. CASE OnStall
    <2>1. CASE HomingFinished
      BY <2>1 DEF HomingFinished, SetAction, Plain
    <2>2. CASE CableFound /\ SeekStartReverse
      BY <2>2 DEF CableFound, SeekStartReverse
    <2>3. CASE ReversedEnough /\ SeekFinished
      <3>1. home_status = "Homed"
        BY <2>3 DEF ReversedEnough, TypeOK
      <3> QED
        BY <2>3, <3>1 DEF SeekFinished, SetAction, Plain
    <2>4. CASE UNCHANGED <<current_action, current_cmd, home_status>>
      BY <2>4
    <2> QED
      BY <1>2, <2>1, <2>2, <2>3, <2>4, Zenon DEF OnStall
  <1>3. CASE OnAction
    <2>1. CASE TakeAction
      <3>1. /\ home_status = "Homed"
            /\ current_action' = setpoint
            /\ current_cmd' = StepperActionFor(setpoint)
            /\ home_status' = IF setpoint.kind = "Home" THEN "Lost" ELSE home_status
        BY <2>1, Zenon DEF TakeAction, SetAction
      <3>2. CASE setpoint.kind \in {"Coast", "Hold"}
        BY <3>1, <3>2 DEF StepperActionFor
      <3>3. CASE setpoint.kind = "Home"
        BY <3>1, <3>3 DEF StepperActionFor
      <3>4. CASE setpoint.kind \notin {"Coast", "Hold", "Home"}
        BY <3>1, <3>4
      <3> QED
        BY <3>2, <3>3, <3>4
    <2>2. CASE HomeFirst
      BY <2>2 DEF HomeFirst, SetAction, Plain
    <2>3. CASE IgnoreAction
      BY <2>3 DEF IgnoreAction, motor
    <2> QED
      BY <1>3, <2>1, <2>2, <2>3, Zenon DEF OnAction
  <1>4. CASE ~(OnPosition \/ OnStall \/ OnAction)
    <2>1. UNCHANGED <<current_action, current_cmd, home_status, stall_cnt>>
      BY <1>4, OthersLeaveMotor, Zenon DEF Next
    <2> QED
      BY <2>1
  <1> QED
    BY <1>1, <1>2, <1>3, <1>4

-----------------------------------------------------------------------------
(* Stall windows.                                                          *)

\* A homing motor drives towards the home stop.
LEMMA HomingMotion ==
    ASSUME TypeOK, HomeGate, current_action.kind = "Home"
    PROVE  Motion = 1
  <1>1. current_cmd = new_homing
    BY DEF HomeGate, TypeOK
  <1> QED
    BY <1>1 DEF Motion, Sign, new_homing

\* Every step keeps the counted stalls of a homing real.
LEMMA StallStep == Inv /\ [Next]_vars => StallsAreReal'
  <1> SUFFICES ASSUME Inv, [Next]_vars, CountedHoming'
               PROVE  /\ stall_cnt' >= 2 => axis' = Top
                      /\ stall_event' = "Stalled" /\ stall_cnt' >= 1 => axis' = Top
                      /\ WindowSeen' => window' # "partial"
                      /\ WindowSeen' /\ window' # "ticked" => axis' = before'
                      /\ WindowSeen' /\ window' = "ticked" => axis' # before' \/ axis' = Top
    BY DEF StallsAreReal
  <1> USE DEF Inv
  <1>1. CASE Move
    <2>1. CountedHoming /\ UNCHANGED <<stall_cnt, stall_event, before>>
      BY <1>1, OthersLeaveMotor DEF CountedHoming, Move
    <2>2. /\ window # "ticked" /\ window' = "ticked"
          /\ axis' = Within(axis + 1, 0, Top)
      BY <1>1, <2>1, HomingMotion DEF Move, CountedHoming
    <2>3. WindowSeen => axis = before
      BY <2>1, <2>2 DEF StallsAreReal
    <2>4. WindowSeen => axis' # before \/ axis' = Top
      BY <2>2, <2>3, CountConstants DEF Within, TypeOK
    <2>5. axis = Top => axis' = Top
      BY <2>2, CountConstants DEF Within, TypeOK
    <2> QED
      BY <2>1, <2>2, <2>4, <2>5 DEF StallsAreReal, WindowSeen
  <1>2. CASE WindowEnd
    <2>1. CountedHoming /\ UNCHANGED <<stall_cnt, axis>> /\ window' = "fresh" /\ before' = axis
      BY <1>2, OthersLeaveMotor DEF CountedHoming, WindowEnd, EncoderUnchanged
    <2>2. window # "fresh"
      BY <1>2, <2>1, HomingMotion DEF WindowEnd, WindowOver, CountedHoming
    <2>3. stall_event' = "Stalled" => axis = before
      BY <1>2 DEF WindowEnd, EncoderUnchanged
    <2>4. stall_cnt >= 1 /\ stall_event' = "Stalled" => axis = Top
      BY <2>1, <2>2, <2>3 DEF StallsAreReal, WindowSeen, TypeOK
    <2> QED
      BY <2>1, <2>4 DEF StallsAreReal
  <1>7. CASE BlindWindow
    BY <1>7 DEF BlindWindow, CountedHoming
  <1>3. CASE OnPosition
    <2>1. UNCHANGED <<stall_cnt, stall_event, axis, before, counted>>
      BY <1>3, Zenon DEF OnPosition, PositionReached, history
    <2>2. UNCHANGED <<current_action, window>>
      <3>1. CASE current_action' = Plain("Hold")
        BY <3>1 DEF CountedHoming, Plain
      <3> QED
        BY <1>3, <3>1, Zenon DEF OnPosition, PositionReached, SetAction
    <2> QED
      BY <2>1, <2>2 DEF StallsAreReal, CountedHoming, WindowSeen
  <1>4. CASE OnStall
    <2>1. CASE HomingFinished \/ SeekFinished
      BY <2>1 DEF HomingFinished, SeekFinished, SetAction, CountedHoming, Plain
    <2>2. CASE CableFound /\ SeekStartReverse
      BY <2>2 DEF CableFound, SeekStartReverse, CountedHoming
    <2>3. CASE UNCHANGED <<current_action, window>>
      <3>1. /\ UNCHANGED <<axis, before, counted>>
            /\ stall_event # "None" /\ stall_event' = "None"
            /\ stall_cnt' = IF stall_event = "Stalled" THEN Capped(stall_cnt + 1) ELSE 0
        BY <1>4, Zenon DEF OnStall, history
      <3>2. CountedHoming /\ WindowSeen
        BY <2>3, <3>1 DEF CountedHoming, WindowSeen
      <3>3. stall_cnt' >= 2 => stall_event = "Stalled" /\ stall_cnt >= 1
        BY <3>1, CountConstants DEF Capped, TypeOK
      <3> QED
        BY <2>3, <3>1, <3>2, <3>3 DEF StallsAreReal
    <2> QED
      BY <1>4, <2>1, <2>2, <2>3, Zenon DEF OnStall
  <1>5. CASE OnAction
    <2>1. UNCHANGED <<axis, before, stall_event>> /\ stall_event = "None"
      BY <1>5, Zenon DEF OnAction
    <2>2. CASE TakeAction
      BY <2>1, <2>2 DEF TakeAction, ResetCounters, WindowSeen
    <2>3. CASE HomeFirst
      BY <2>3, Zenon DEF HomeFirst, CountedHoming
    <2>4. CASE IgnoreAction
      <3>1. UNCHANGED <<current_action, stall_cnt, window, counted>>
        BY <2>4, Zenon DEF IgnoreAction, motor, history
      <3> QED
        BY <2>1, <3>1 DEF StallsAreReal, CountedHoming, WindowSeen
    <2> QED
      BY <1>5, <2>2, <2>3, <2>4, Zenon DEF OnAction
  <1>6. CASE \/ EncoderTick \/ StartupHome \/ StartupDone \/ Tick
             \/ \E a \in Requests : ChangeRequest(a)
             \/ UNCHANGED vars
    <2>1. UNCHANGED <<axis, before, window, stall_event>>
      BY <1>6, Zenon DEF EncoderTick, StartupHome, StartupDone, Tick, ChangeRequest, plant,
         watches, vars
    <2>2. UNCHANGED <<current_action, stall_cnt>> /\ (UNCHANGED counted \/ counted' = FALSE)
      BY <1>6, OthersLeaveMotor, Zenon
    <2> QED
      BY <2>1, <2>2 DEF StallsAreReal, CountedHoming, WindowSeen
  <1> QED
    BY <1>1, <1>2, <1>3, <1>4, <1>5, <1>6, <1>7 DEF Next

\* A clean seek drives towards the cable.
LEMMA SeekMotion ==
    ASSUME current_cmd = new_seek_forward
    PROVE  Motion = -1
  BY DEF Motion, Sign, new_seek_forward

\* Every step keeps the stalls of a clean seek real.
LEMMA SeekStep == Inv /\ [Next]_vars => SeekStallsAreReal'
  <1> SUFFICES ASSUME Inv, [Next]_vars, seek_run' = "clean"
               PROVE  /\ current_action'.kind = "Seek" /\ seek_status' = "SeekingCable"
                      /\ current_cmd' = new_seek_forward
                      /\ axis' # 0
                      /\ stall_cnt' <= 1
                      /\ stall_event' = "Stalled" => stall_cnt' = 0
                      /\ WindowSeen' => window' # "partial"
                      /\ WindowSeen' /\ window' # "ticked" => axis' = before'
                      /\ WindowSeen' /\ window' = "ticked" => axis' # before'
    BY DEF SeekStallsAreReal, new_seek_forward
  <1> USE DEF Inv
  <1>1. CASE Move
    <2>1. /\ seek_run = "clean" /\ axis' # 0
          /\ window # "ticked" /\ window' = "ticked"
          /\ axis' = Within(axis + Motion, 0, Top)
          /\ UNCHANGED <<motor, stall_event, before>>
      BY <1>1, Zenon DEF Move
    <2>2. Motion = -1
      BY <2>1, SeekMotion DEF SeekStallsAreReal
    <2>3. axis' # axis
      BY <2>1, <2>2, CountConstants DEF Within, TypeOK
    <2> QED
      BY <2>1, <2>3 DEF SeekStallsAreReal, WindowSeen, motor
  <1>2. CASE WindowEnd
    <2>1. /\ seek_run = "clean" /\ window' = "fresh" /\ before' = axis
          /\ UNCHANGED <<motor, axis>>
      BY <1>2 DEF WindowEnd
    <2>2. window # "fresh"
      BY <1>2, <2>1, SeekMotion DEF WindowEnd, WindowOver, SeekStallsAreReal
    <2>3. stall_event' = "Stalled" => axis = before
      BY <1>2 DEF WindowEnd, EncoderUnchanged
    <2>4. stall_event' = "Stalled" => stall_cnt = 0
      BY <2>1, <2>2, <2>3 DEF SeekStallsAreReal, WindowSeen, TypeOK
    <2> QED
      BY <2>1, <2>4 DEF SeekStallsAreReal, motor
  <1>3. CASE BlindWindow
    BY <1>3 DEF BlindWindow, SeekBroken
  <1>4. CASE OnPosition
    <2>1. seek_run = "clean" /\ UNCHANGED <<stall_cnt, stall_event, axis, before, seek_status>>
      BY <1>4, Zenon DEF OnPosition, PositionReached, history
    <2>2. current_action.kind # "MovePosition"
      BY <2>1 DEF SeekStallsAreReal
    <2>3. UNCHANGED <<current_action, current_cmd, window>>
      BY <1>4, <2>2, Zenon DEF OnPosition
    <2> QED
      BY <2>1, <2>3 DEF SeekStallsAreReal, WindowSeen
  <1>5. CASE OnStall
    <2>1. /\ seek_run = "clean"
          /\ UNCHANGED <<axis, before>>
          /\ stall_event # "None" /\ stall_event' = "None"
          /\ stall_cnt' = IF stall_event = "Stalled" THEN Capped(stall_cnt + 1) ELSE 0
      BY <1>5, Zenon DEF OnStall, history
    <2>2. /\ current_action.kind = "Seek" /\ seek_status = "SeekingCable"
          /\ stall_event = "Stalled" => stall_cnt = 0
          /\ WindowSeen
      BY <2>1 DEF SeekStallsAreReal, WindowSeen
    <2>3. ~(HomeConfirmed \/ CableFound \/ ReversedEnough)
      BY <2>2, CountConstants DEF HomeConfirmed, CableFound, ReversedEnough
    <2>4. UNCHANGED <<current_action, current_cmd, window, seek_status>>
      BY <1>5, <2>3, Zenon DEF OnStall
    <2>5. stall_cnt' <= 1
      BY <2>1, <2>2, CountConstants DEF Capped, TypeOK
    <2> QED
      BY <2>1, <2>2, <2>4, <2>5 DEF SeekStallsAreReal
  <1>6. CASE OnAction
    <2>1. UNCHANGED <<axis, before, stall_event>> /\ stall_event = "None"
      BY <1>6, Zenon DEF OnAction
    <2>2. CASE TakeAction
      <3>1. /\ current_action' = setpoint /\ current_cmd' = StepperActionFor(setpoint)
            /\ seek_status' = SeekStatusFor(setpoint)
            /\ seek_run' = SeekRunFor(setpoint)
            /\ stall_cnt' = 0
        BY <2>2, Zenon DEF TakeAction, SetAction, ResetCounters
      <3>2. setpoint.kind = "Seek"
        BY <3>1 DEF SeekRunFor, SeekBroken
      <3>3. CASE seek_status = "NotStarted"
        BY <2>1, <3>1, <3>2, <3>3
           DEF SeekRunFor, StepperActionFor, SeekStatusFor, WindowSeen
      <3>4. CASE seek_status # "NotStarted"
        BY <2>1, <3>1, <3>2, <3>4
           DEF SeekRunFor, StepperActionFor, SeekStatusFor, WindowSeen, SeekStallsAreReal
      <3> QED
        BY <3>3, <3>4
    <2>3. CASE HomeFirst
      BY <2>3 DEF HomeFirst, SeekStallsAreReal, HomeGate
    <2>4. CASE IgnoreAction
      BY <2>1, <2>4 DEF IgnoreAction, motor, history, SeekStallsAreReal, WindowSeen
    <2> QED
      BY <1>6, <2>2, <2>3, <2>4, Zenon DEF OnAction
  <1>7. CASE \/ EncoderTick \/ StartupHome \/ StartupDone \/ Tick
             \/ \E a \in Requests : ChangeRequest(a)
             \/ UNCHANGED vars
    <2>1. UNCHANGED <<motor, axis, before, window, stall_event, seek_run>>
      BY <1>7, Zenon DEF EncoderTick, StartupHome, StartupDone, Tick, ChangeRequest, plant,
         watches, history, vars
    <2> QED
      BY <2>1 DEF SeekStallsAreReal, WindowSeen, motor
  <1> QED
    BY <1>1, <1>2, <1>3, <1>4, <1>5, <1>6, <1>7 DEF Next

-----------------------------------------------------------------------------

\* The invariant holds in every reachable state.
THEOREM Invariance == Spec => []Inv
  <1>1. Inv /\ [Next]_vars => Inv'
    BY TypeStep, GateStep, StallStep, SeekStep DEF Inv
  <1> QED
    BY InitInv, <1>1, PTL DEF Spec

\* The variables keep their types, for every travel and set of requests.
THEOREM TypeCorrect == Spec => []TypeOK
  <1>1. Inv => TypeOK
    BY DEF Inv
  <1> QED
    BY <1>1, Invariance, PTL

\* A motor that is lost is stopped or homing, whatever upstream sends and
\* whenever it sends it (the test of home_status in control_knife_motor).
THEOREM GateHolds == Spec => []HomeGate
  <1>1. Inv => HomeGate
    BY DEF Inv
  <1> QED
    BY <1>1, Invariance, PTL

\* A motor the task considers stopped was sent the stopping action (set_action
\* and its callers).
THEOREM StopsAreSent == Spec => []StopMeansStop
  <1>1. Inv => StopMeansStop
    BY DEF Inv
  <1> QED
    BY <1>1, Invariance, PTL

\* A seek that is not broken backs off only after having met the cable,
\* whatever stall events were on their way when it began (the seek branches of
\* control_knife_motor together with detect_stalls).
THEOREM SeekMeetsCable == Spec => []UnbrokenSeekTouchesCable
  <1>1. Inv => UnbrokenSeekTouchesCable
    BY DEF Inv, SeekStallsAreReal, UnbrokenSeekTouchesCable
  <1> QED
    BY <1>1, Invariance, PTL

\* Home is confirmed only in a step of the stall branch.
LEMMA ConfirmStep ==
    ASSUME [Next]_vars, home_status = "Lost", home_status' = "Homed"
    PROVE  HomeConfirmed
  <1>1. CASE OnStall
    BY <1>1 DEF OnStall, HomingFinished, SeekStartReverse, SeekFinished
  <1>2. CASE OnPosition \/ OnAction
    BY <1>2 DEF OnPosition, PositionReached, OnAction, TakeAction, HomeFirst, IgnoreAction, motor
  <1>3. CASE ~(OnStall \/ OnPosition \/ OnAction)
    BY <1>3, OthersLeaveMotor DEF Next
  <1> QED
    BY <1>1, <1>2, <1>3

\* A homing that began with fresh counters ends at the home stop, however
\* windows, commands and position updates interleave (the stall branch of
\* control_knife_motor together with detect_stalls).
THEOREM CountedHomingEndsAtStop == Spec => CountedHomingAtStop
  <1>1. Inv /\ [Next]_vars =>
           [home_status = "Lost" /\ home_status' = "Homed" /\ counted => axis = Top]_vars
    <2> SUFFICES ASSUME Inv, [Next]_vars,
                        home_status = "Lost", home_status' = "Homed", counted
                 PROVE  axis = Top
      OBVIOUS
    <2>1. HomeConfirmed
      BY ConfirmStep
    <2>2. CountedHoming /\ stall_event = "Stalled" /\ stall_cnt >= 1
      BY <2>1, CountConstants DEF HomeConfirmed, CountedHoming, Inv, TypeOK
    <2> QED
      BY <2>2 DEF Inv, StallsAreReal
  <1> QED
    BY <1>1, Invariance, PTL DEF Spec, CountedHomingAtStop
=============================================================================
