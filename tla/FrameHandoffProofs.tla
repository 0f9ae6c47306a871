-------------------------- MODULE FrameHandoffProofs -------------------------
(***************************************************************************)
(* The frame protocol, for every sequence of modes: a frame that had not   *)
(* been released when the control loop took it stays lent while it is      *)
(* read, and no frame is returned unprocessed behind the back of the       *)
(* control loop.  Only a pass in manual mode can bring the two tasks out   *)
(* of step; then a frame may be taken late (see ViewInvariant).            *)
(***************************************************************************)
EXTENDS FrameHandoff, TLAPS

\* The camera task offers the frame and does not yet know it is done.
Offering == camera_pc \in {"publish_web", "wait"}

\* The camera task has seen the signal and takes the frame back.
Withdrawing == camera_pc \in {"clear_web", "clear", "return"}

\* Who holds what at each statement of the camera task.
Protocol ==
    /\ lent <=> camera_pc # "capture"
    /\ camera_pc \in {"return", "capture", "reset", "publish"} => control_watch = None
    /\ camera_pc = "publish" /\ done => unread
    /\ Offering => control_watch = generation
    /\ Offering /\ done => processed = generation \/ unread
    /\ Withdrawing => done /\ (processed = generation \/ unread)
    /\ control_pc = "process" /\ ~late =>
            Offering /\ ~done /\ ~control_new /\ frame = generation

Inv == TypeOK /\ Protocol

\* While the tasks are in step, a frame that has been released has been taken.
InStep ==
    /\ late => control_pc = "process"
    /\ ~late /\ ~unread /\ done /\ (Offering \/ Withdrawing) => ~control_new

\* The initial state satisfies the invariant.
LEMMA InitInv == Init => Inv
  <1> SUFFICES ASSUME Init
               PROVE  Inv
    OBVIOUS
  <1>1. TypeOK
    <2>1. 0 \in Generations
      BY HandoffConstants DEF Generations
    <2>2. setpoint_mode \in {"Manual", "Vision"}
      BY HandoffConstants DEF Init
    <2> QED
      BY <2>1, <2>2 DEF Init, TypeOK
  <1>2. Protocol
    BY DEF Init, Protocol, Offering, Withdrawing
  <1> QED
    BY <1>1, <1>2 DEF Inv

\* Every step preserves the types.
LEMMA TypeStep == TypeOK /\ [Next]_vars => TypeOK'
  <1> SUFFICES ASSUME TypeOK, [Next]_vars
               PROVE  TypeOK'
    OBVIOUS
  <1> USE HandoffConstants DEF TypeOK, camera, channels, control, history
  <1>1. CASE Capture
    <2>1. generation' \in Generations
      BY <1>1 DEF Capture, NextGeneration, Generations
    <2> QED
      BY <1>1, <2>1 DEF Capture
  <1>2. CASE ResetSignal
    <2>1. done' \in BOOLEAN /\ unread' \in BOOLEAN /\ camera_pc' = "publish"
      BY <1>2, Zenon DEF ResetSignal
    <2> QED
      BY <1>2, <2>1 DEF ResetSignal
  <1>3. CASE Publish \/ PublishWeb
    <2>1. CASE Publish
      BY <2>1 DEF Publish
    <2>2. CASE PublishWeb
      BY <2>2 DEF PublishWeb
    <2> QED
      BY <1>3, <2>1, <2>2
  <1>4. CASE WaitDone \/ ClearWeb \/ Clear
    <2>1. CASE WaitDone
      BY <2>1 DEF WaitDone
    <2>2. CASE ClearWeb
      BY <2>2 DEF ClearWeb
    <2>3. CASE Clear
      BY <2>3 DEF Clear
    <2> QED
      BY <1>4, <2>1, <2>2, <2>3
  <1>5. CASE ReturnToDriver
    <2>1. lent' \in BOOLEAN /\ camera_pc' = "capture"
      BY <1>5, Zenon DEF ReturnToDriver
    <2> QED
      BY <1>5, <2>1 DEF ReturnToDriver
  <1>6. CASE Homed \/ FetchSetpoint \/ FrameDone \/ ManualRelease \/ Tick
    <2>1. CASE Homed
      <3>1. control_pc' = "top"
        BY <2>1 DEF Homed
      <3> QED
        BY <2>1, <3>1 DEF Homed
    <2>2. CASE FetchSetpoint
      BY <2>2 DEF FetchSetpoint
    <2>3. CASE FrameDone
      BY <2>3 DEF FrameDone
    <2>4. CASE ManualRelease
      BY <2>4 DEF ManualRelease
    <2>5. CASE Tick
      BY <2>5 DEF Tick
    <2> QED
      BY <1>6, <2>1, <2>2, <2>3, <2>4, <2>5
  <1>7. CASE TakeFrame
    <2>1. control_new' \in BOOLEAN
      BY <1>7, Zenon DEF TakeFrame
    <2> QED
      BY <1>7, <2>1 DEF TakeFrame
  <1>8. CASE \E m \in Modes : NewSetpoint(m)
    BY <1>8 DEF NewSetpoint
  <1>9. CASE WebPoll
    <2>1. web_new' \in BOOLEAN
      BY <1>9, Zenon DEF WebPoll
    <2> QED
      BY <1>9, <2>1 DEF WebPoll
  <1>10. CASE WebDone
    BY <1>10 DEF WebDone
  <1>11. CASE CaptureFails \/ UNCHANGED vars
    BY <1>11 DEF CaptureFails, vars
  <1> QED
    BY <1>1, <1>2, <1>3, <1>4, <1>5, <1>6, <1>7, <1>8, <1>9, <1>10, <1>11
    DEF Next, CameraStep, ControlStep

\* Every step preserves the protocol.
LEMMA ProtocolStep == ASSUME Inv, [Next]_vars PROVE Protocol'
  <1> USE DEF Inv, Protocol, Offering, Withdrawing, TypeOK, camera, channels, control,
          history
  <1>1. CASE Capture
    BY <1>1 DEF Capture
  <1>2. CASE ResetSignal
    BY <1>2 DEF ResetSignal
  <1>3. CASE Publish
    BY <1>3 DEF Publish
  <1>4. CASE PublishWeb
    BY <1>4 DEF PublishWeb
  <1>5. CASE WaitDone
    BY <1>5 DEF WaitDone
  <1>6. CASE ClearWeb \/ Clear
    BY <1>6 DEF ClearWeb, Clear
  <1>7. CASE ReturnToDriver
    <2>1. /\ camera_pc = "return" /\ camera_pc' = "capture" /\ ~lent'
          /\ UNCHANGED <<done, control_watch, control_new, control_pc, late>>
      BY <1>7, Zenon DEF ReturnToDriver
    <2>2. ~(control_pc = "process" /\ ~late)
      BY <2>1
    <2>3. control_watch = None
      BY <2>1
    <2> QED
      BY <2>1, <2>2, <2>3
  <1>8. CASE Homed \/ FetchSetpoint \/ Tick
    BY <1>8 DEF Homed, FetchSetpoint, Tick
  <1>9. CASE ManualRelease
    BY <1>9 DEF ManualRelease
  <1>10. CASE TakeFrame
    BY <1>10 DEF TakeFrame
  <1>11. CASE FrameDone
    BY <1>11 DEF FrameDone
  <1>12. CASE \E m \in Modes : NewSetpoint(m)
    BY <1>12 DEF NewSetpoint
  <1>13. CASE WebPoll \/ WebDone \/ CaptureFails \/ UNCHANGED vars
    BY <1>13 DEF WebPoll, WebDone, CaptureFails, vars
  <1> QED
    BY <1>1, <1>2, <1>3, <1>4, <1>5, <1>6, <1>7, <1>8, <1>9, <1>10, <1>11, <1>12, <1>13
    DEF Next, CameraStep, ControlStep

\* The invariant holds in every reachable state.
LEMMA Invariance == Spec => []Inv
  <1>1. Inv /\ [Next]_vars => Inv'
    BY TypeStep, ProtocolStep DEF Inv
  <1> QED
    BY InitInv, <1>1, PTL DEF Spec

\* Every variable of the two tasks keeps its type; the generation counter of
\* get_framebuffer wraps.
THEOREM TypeCorrect == Spec => []TypeOK
  BY Invariance, PTL DEF Inv

\* In every sequence of modes the control loop reads a frame that was not yet
\* released when it took it only while that frame is lent (get_control_effort
\* against return_to_driver).
THEOREM FramesReadAreLent == Spec => []ReadsLentFrame
  <1>1. Inv => ReadsLentFrame
    BY Zenon DEF Inv, Protocol, Offering, ReadsLentFrame
  <1> QED
    BY <1>1, Invariance, PTL

\* A frame that is returned has been processed, or was released by a pass that
\* was not reading it.
THEOREM FramesAreProcessed == Spec => NoFrameLost
  <1>1. Inv /\ [Next]_vars => [lent /\ ~lent' => processed = generation \/ unread]_vars
    <2> SUFFICES ASSUME Inv, [Next]_vars, lent, ~lent'
                 PROVE  processed = generation \/ unread
      OBVIOUS
    <2>1. ReturnToDriver
      BY Zenon DEF Next, CameraStep, ControlStep, Capture, CaptureFails, ResetSignal, Publish,
         PublishWeb, WaitDone, ClearWeb, Clear, ReturnToDriver, Homed, FetchSetpoint,
         TakeFrame, FrameDone, ManualRelease, Tick, NewSetpoint, WebPoll, WebDone, vars, camera
    <2> QED
      BY <2>1 DEF ReturnToDriver, Inv, Protocol, Withdrawing
  <1> QED
    BY <1>1, Invariance, PTL DEF Spec, NoFrameLost

\* Every step keeps a released frame a taken one.
LEMMA InStepStep == ASSUME Inv, InStep, [Next]_vars PROVE InStep'
  <1> USE DEF Inv, InStep, Protocol, Offering, Withdrawing, TypeOK, camera, channels, control,
          history
  <1>1. CASE Capture \/ ResetSignal
    BY <1>1 DEF Capture, ResetSignal
  <1>2. CASE Publish
    BY <1>2 DEF Publish
  <1>3. CASE PublishWeb \/ WaitDone
    BY <1>3 DEF PublishWeb, WaitDone
  <1>4. CASE ClearWeb \/ Clear \/ ReturnToDriver
    BY <1>4 DEF ClearWeb, Clear, ReturnToDriver
  <1>5. CASE Homed \/ FetchSetpoint \/ ManualRelease \/ Tick
    BY <1>5 DEF Homed, FetchSetpoint, ManualRelease, Tick
  <1>6. CASE TakeFrame
    BY <1>6 DEF TakeFrame
  <1>7. CASE FrameDone
    BY <1>7 DEF FrameDone
  <1>8. CASE \E m \in Modes : NewSetpoint(m)
    BY <1>8 DEF NewSetpoint
  <1>9. CASE WebPoll \/ WebDone \/ CaptureFails \/ UNCHANGED vars
    BY <1>9 DEF WebPoll, WebDone, CaptureFails, vars
  <1> QED
    BY <1>1, <1>2, <1>3, <1>4, <1>5, <1>6, <1>7, <1>8, <1>9
    DEF Next, CameraStep, ControlStep

\* Only a pass in manual mode brings the tasks out of step: from a state in
\* which they are in step no frame is taken that was released before, and none
\* is released by another pass than the one that reads it.
THEOREM OnlyManualIsOutOfStep == Spec => OnlyManualLosesStep
  <1>1. Init => InStep
    BY DEF Init, InStep, Offering, Withdrawing
  <1>2. Inv /\ InStep /\ [Next]_vars => InStep'
    BY InStepStep
  <1>3. Inv /\ InStep /\ [Next]_vars
          => [~late /\ ~unread /\ (late' \/ unread') => control_pc = "release"]_vars
    <2> SUFFICES ASSUME Inv, InStep, [Next]_vars, ~late, ~unread, late' \/ unread'
                 PROVE  control_pc = "release"
      OBVIOUS
    <2>1. CASE TakeFrame
      <3>1. Offering \/ Withdrawing
        BY <2>1 DEF TakeFrame, Inv, TypeOK, Protocol, Offering, Withdrawing
      <3>2. ~done
        BY <2>1, <3>1 DEF TakeFrame, InStep
      <3> QED
        BY <2>1, <3>2 DEF TakeFrame
    <2>2. CASE FrameDone
      <3>1. ~late' /\ ~unread'
        BY <2>2 DEF FrameDone, Inv, TypeOK
      <3> QED
        BY <3>1, Zenon
    <2>3. CASE ManualRelease
      BY <2>3 DEF ManualRelease
    <2>4. CASE ~TakeFrame /\ ~FrameDone /\ ~ManualRelease
      <3>1. (UNCHANGED <<late, unread>>) \/ (~unread' /\ late' = late)
        BY <2>4 DEF Next, CameraStep, ControlStep, Capture, CaptureFails, ResetSignal, Publish,
           PublishWeb, WaitDone, ClearWeb, Clear, ReturnToDriver, Homed, FetchSetpoint,
           Tick, NewSetpoint, WebPoll, WebDone, vars, control, history
      <3> QED
        BY <3>1
    <2> QED
      BY <2>1, <2>2, <2>3, <2>4
  <1> QED
    BY <1>1, <1>2, <1>3, Invariance, PTL DEF Spec, OnlyManualLosesStep
=============================================================================
