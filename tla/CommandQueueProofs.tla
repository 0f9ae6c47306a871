------------------------- MODULE CommandQueueProofs --------------------------
(***************************************************************************)
(* The base station implements CommandQueue for each of its motors: every  *)
(* step of panel, application state, motor controller and motor tasks is a *)
(* step of the queue of commands on their way to that motor, or leaves it  *)
(* alone.                                                                  *)
(***************************************************************************)
EXTENDS BaseStationProofs, SequenceTheorems

\* The commands in flight are ones that were asked for.
Known ==
    /\ hmi \in PanelStates \cup {DefaultPanel}
    /\ app.hmi_state \in PanelStates \cup {DefaultPanel}
    /\ report \in Efforts \cup {None}
    /\ app.esp_motor_setpoints \in Efforts \cup {[m \in StepperMotors |-> Plain("Coast")]}
    /\ \A m \in StepperMotors : setpoint[m] \in Asked(m)

QInv == IInv /\ Known

-----------------------------------------------------------------------------
(* Short sequences.                                                        *)

LEMMA Tuple1 == ASSUME NEW S, NEW s \in Seq(S), Len(s) = 1, NEW x, s[1] = x
                PROVE  s = <<x>>
<1>1. <<x>> \in Seq(S) /\ Len(<<x>>) = 1 /\ <<x>>[1] = x
    OBVIOUS
<1> QED
    BY <1>1, SeqEqual

LEMMA Tuple2 == ASSUME NEW S, NEW s \in Seq(S), Len(s) = 2, NEW x, NEW y, s[1] = x, s[2] = y
                PROVE  s = <<x, y>>
<1>1. <<x, y>> \in Seq(S) /\ Len(<<x, y>>) = 2 /\ <<x, y>>[1] = x /\ <<x, y>>[2] = y
    OBVIOUS
<1> QED
    BY <1>1, SeqEqual

LEMMA Tuple3 == ASSUME NEW S, NEW s \in Seq(S), Len(s) = 3, NEW x, NEW y, NEW z,
                       s[1] = x, s[2] = y, s[3] = z
                PROVE  s = <<x, y, z>>
<1>1. /\ <<x, y, z>> \in Seq(S) /\ Len(<<x, y, z>>) = 3
      /\ <<x, y, z>>[1] = x /\ <<x, y, z>>[2] = y /\ <<x, y, z>>[3] = z
    OBVIOUS
<1> QED
    BY <1>1, SeqEqual

\* Concatenation, appending and dropping of an element, on up to three.
LEMMA Short == ASSUME NEW S, NEW x \in S, NEW y \in S, NEW z \in S
               PROVE  /\ <<x>> \o <<y>> = <<x, y>>
                      /\ <<x, y>> \o <<z>> = <<x, y, z>>
                      /\ <<x>> \o <<>> = <<x>> /\ <<>> \o <<x>> = <<x>>
                      /\ <<x, y>> \o <<>> = <<x, y>>
                      /\ <<>> \o <<>> = <<>>
<1>1. <<x>> \o <<y>> = <<x, y>>
    <2> DEFINE s == <<x>> \o <<y>>
    <2>1. s \in Seq(S) /\ Len(s) = 2 /\ s[1] = x /\ s[2] = y
        OBVIOUS
    <2> HIDE DEF s
    <2>2. s = <<x, y>>
        BY <2>1, Tuple2
    <2> QED
        BY <2>2 DEF s
<1>2. <<x, y>> \o <<z>> = <<x, y, z>>
    <2> DEFINE s == <<x, y>> \o <<z>>
    <2>1. s \in Seq(S) /\ Len(s) = 3 /\ s[1] = x /\ s[2] = y /\ s[3] = z
        OBVIOUS
    <2> HIDE DEF s
    <2>2. s = <<x, y, z>>
        BY <2>1, Tuple3
    <2> QED
        BY <2>2 DEF s
<1>3. <<x, y>> \in Seq(S) /\ <<x>> \in Seq(S)
    OBVIOUS
<1>4. <<x, y>> \o <<>> = <<x, y>> /\ <<x>> \o <<>> = <<x>> /\ <<>> \o <<x>> = <<x>>
    BY <1>3, ConcatEmptySeq
<1> QED
    BY <1>1, <1>2, <1>4

LEMMA ShortQueue == ASSUME NEW S, NEW x \in S, NEW y \in S, NEW z \in S, NEW c \in S
                    PROVE  /\ Append(<<>>, c) = <<c>>
                           /\ Append(<<x>>, c) = <<x, c>>
                           /\ Append(<<x, y>>, c) = <<x, y, c>>
                           /\ [<<x>> EXCEPT ![Len(<<x>>)] = c] = <<c>>
                           /\ [<<x, y>> EXCEPT ![Len(<<x, y>>)] = c] = <<x, c>>
                           /\ [<<x, y, z>> EXCEPT ![Len(<<x, y, z>>)] = c] = <<x, y, c>>
                           /\ Tail(<<x>>) = <<>> /\ Tail(<<x, y>>) = <<y>>
                           /\ Tail(<<x, y, z>>) = <<y, z>>
                           /\ Head(<<x>>) = x /\ Head(<<x, y>>) = x /\ Head(<<x, y, z>>) = x
<1>1. /\ <<>> \in Seq(S) /\ <<x>> \in Seq(S) /\ <<x, y>> \in Seq(S)
    OBVIOUS
<1>2. /\ Append(<<>>, c) = <<>> \o <<c>> /\ Append(<<x>>, c) = <<x>> \o <<c>>
      /\ Append(<<x, y>>, c) = <<x, y>> \o <<c>>
    BY <1>1, AppendIsConcat
<1>3. /\ [<<x>> EXCEPT ![Len(<<x>>)] = c] = <<c>>
      /\ [<<x, y>> EXCEPT ![Len(<<x, y>>)] = c] = <<x, c>>
      /\ [<<x, y, z>> EXCEPT ![Len(<<x, y, z>>)] = c] = <<x, y, c>>
    OBVIOUS
<1>4. /\ Tail(<<x>>) = <<>> /\ Tail(<<x, y>>) = <<y>> /\ Tail(<<x, y, z>>) = <<y, z>>
      /\ Head(<<x>>) = x /\ Head(<<x, y>>) = x /\ Head(<<x, y, z>>) = x
    OBVIOUS
<1>5. /\ <<>> \o <<c>> = <<c>> /\ <<x>> \o <<c>> = <<x, c>>
      /\ <<x, y>> \o <<c>> = <<x, y, c>>
    BY Short
<1>6. /\ Append(<<>>, c) = <<c>> /\ Append(<<x>>, c) = <<x, c>>
      /\ Append(<<x, y>>, c) = <<x, y, c>>
    BY <1>2, <1>5, Zenon
<1> QED
    BY <1>3, <1>4, <1>6, Zenon

\* The sequence without its i-th element.
Without(s, i) == SubSeq(s, 1, i - 1) \o SubSeq(s, i + 1, Len(s))

LEMMA WithoutFirst == ASSUME NEW S, NEW x \in S, NEW y \in S, NEW z \in S
                      PROVE  Without(<<x, y, z>>, 1) = <<y, z>>
<1> DEFINE s == SubSeq(<<x, y, z>>, 1, 0) \o SubSeq(<<x, y, z>>, 2, 3)
<1>1. s \in Seq(S) /\ Len(s) = 2 /\ s[1] = y /\ s[2] = z
    OBVIOUS
<1> HIDE DEF s
<1>2. s = <<y, z>>
    BY <1>1, Tuple2
<1> QED
    BY <1>2 DEF s, Without

LEMMA ShortWithout == ASSUME NEW S, NEW x \in S, NEW y \in S, NEW z \in S
                      PROVE  /\ Without(<<x, y>>, 1) = <<y>>
                             /\ Without(<<x, y, z>>, 2) = <<x, z>>
<1>1. Without(<<x, y>>, 1) = <<y>>
    <2> DEFINE s == SubSeq(<<x, y>>, 1, 0) \o SubSeq(<<x, y>>, 2, 2)
    <2>1. s \in Seq(S) /\ Len(s) = 1 /\ s[1] = y
        OBVIOUS
    <2> HIDE DEF s
    <2>2. s = <<y>>
        BY <2>1, Tuple1
    <2> QED
        BY <2>2 DEF s, Without
<1>2. Without(<<x, y, z>>, 2) = <<x, z>>
    <2> DEFINE s == SubSeq(<<x, y, z>>, 1, 1) \o SubSeq(<<x, y, z>>, 3, 3)
    <2>1. s \in Seq(S) /\ Len(s) = 2 /\ s[1] = x /\ s[2] = z
        OBVIOUS
    <2> HIDE DEF s
    <2>2. s = <<x, z>>
        BY <2>1, Tuple2
    <2> QED
        BY <2>2 DEF s, Without
<1> QED
    BY <1>1, <1>2

-----------------------------------------------------------------------------
(* The queue of a motor is put together of the three watches, each empty   *)
(* or with one command; the steps it takes.                                *)

Posted(S, q, r) ==
    \E c \in S : r = Append(q, c) \/ (q # <<>> /\ r = [q EXCEPT ![Len(q)] = c])

Overtaken(q, r) == \E i \in 1 .. Len(q) : i \in 1 .. Len(q) - 1 /\ r = Without(q, i)

OvertakenOrSame(q, r) == Overtaken(q, r) \/ r = q

\* A new last command is appended, or takes the place of the last one.
LEMMA FlightPost ==
    ASSUME NEW S, NEW x \in S, NEW y \in S, NEW z \in S, NEW c \in S,
           NEW A \in {<<>>, <<x>>}, NEW B \in {<<>>, <<y>>}, NEW C \in {<<>>, <<z>>}
    PROVE  Posted(S, (A \o B) \o C, (A \o B) \o <<c>>)
<1>1. CASE A = <<>> /\ B = <<>> /\ C = <<>>
    <2>1. (A \o B) \o C = <<>> /\ (A \o B) \o <<c>> = <<c>>
        BY <1>1, Short
    <2>2. <<c>> = Append(<<>>, c)
        BY ShortQueue
    <2> QED
        BY <2>1, <2>2, Zenon DEF Posted
<1>2. CASE A = <<>> /\ B = <<>> /\ C = <<z>>
    <2>1. (A \o B) \o C = <<z>> /\ (A \o B) \o <<c>> = <<c>>
        BY <1>2, Short
    <2>2. <<z>> # <<>> /\ <<c>> = [<<z>> EXCEPT ![Len(<<z>>)] = c]
        BY ShortQueue
    <2> QED
        BY <2>1, <2>2, Zenon DEF Posted
<1>3. CASE A = <<>> /\ B = <<y>> /\ C = <<>>
    <2>1. (A \o B) \o C = <<y>> /\ (A \o B) \o <<c>> = <<y, c>>
        BY <1>3, Short
    <2>2. <<y, c>> = Append(<<y>>, c)
        BY ShortQueue
    <2> QED
        BY <2>1, <2>2, Zenon DEF Posted
<1>4. CASE A = <<>> /\ B = <<y>> /\ C = <<z>>
    <2>1. (A \o B) \o C = <<y, z>> /\ (A \o B) \o <<c>> = <<y, c>>
        BY <1>4, Short
    <2>2. <<y, z>> # <<>> /\ <<y, c>> = [<<y, z>> EXCEPT ![Len(<<y, z>>)] = c]
        BY ShortQueue
    <2> QED
        BY <2>1, <2>2, Zenon DEF Posted
<1>5. CASE A = <<x>> /\ B = <<>> /\ C = <<>>
    <2>1. (A \o B) \o C = <<x>> /\ (A \o B) \o <<c>> = <<x, c>>
        BY <1>5, Short
    <2>2. <<x, c>> = Append(<<x>>, c)
        BY ShortQueue
    <2> QED
        BY <2>1, <2>2, Zenon DEF Posted
<1>6. CASE A = <<x>> /\ B = <<>> /\ C = <<z>>
    <2>1. (A \o B) \o C = <<x, z>> /\ (A \o B) \o <<c>> = <<x, c>>
        BY <1>6, Short
    <2>2. <<x, z>> # <<>> /\ <<x, c>> = [<<x, z>> EXCEPT ![Len(<<x, z>>)] = c]
        BY ShortQueue
    <2> QED
        BY <2>1, <2>2, Zenon DEF Posted
<1>7. CASE A = <<x>> /\ B = <<y>> /\ C = <<>>
    <2>1. (A \o B) \o C = <<x, y>> /\ (A \o B) \o <<c>> = <<x, y, c>>
        BY <1>7, Short
    <2>2. <<x, y, c>> = Append(<<x, y>>, c)
        BY ShortQueue
    <2> QED
        BY <2>1, <2>2, Zenon DEF Posted
<1>8. CASE A = <<x>> /\ B = <<y>> /\ C = <<z>>
    <2>1. (A \o B) \o C = <<x, y, z>> /\ (A \o B) \o <<c>> = <<x, y, c>>
        BY <1>8, Short
    <2>2. <<x, y, z>> # <<>> /\ <<x, y, c>> = [<<x, y, z>> EXCEPT ![Len(<<x, y, z>>)] = c]
        BY ShortQueue
    <2> QED
        BY <2>1, <2>2, Zenon DEF Posted
<1> QED
    BY <1>1, <1>2, <1>3, <1>4, <1>5, <1>6, <1>7, <1>8, Zenon

\* A report is appended to what is on its way, or takes the place of the state
\* that APP_STATE_WATCH holds.
LEMMA FlightReport ==
    ASSUME NEW S, NEW x \in S, NEW y \in S, NEW c \in S,
           NEW A \in {<<>>, <<x>>}, NEW B \in {<<>>, <<y>>}
    PROVE  Posted(S, (A \o B) \o <<>>, (A \o <<c>>) \o <<>>)
<1>1. CASE A = <<>> /\ B = <<>>
    <2>1. (A \o B) \o <<>> = <<>> /\ (A \o <<c>>) \o <<>> = <<c>>
        BY <1>1, Short
    <2>2. <<c>> = Append(<<>>, c)
        BY ShortQueue
    <2> QED
        BY <2>1, <2>2, Zenon DEF Posted
<1>2. CASE A = <<>> /\ B = <<y>>
    <2>1. (A \o B) \o <<>> = <<y>> /\ (A \o <<c>>) \o <<>> = <<c>>
        BY <1>2, Short
    <2>2. <<y>> # <<>> /\ <<c>> = [<<y>> EXCEPT ![Len(<<y>>)] = c]
        OBVIOUS
    <2> QED
        BY <2>1, <2>2, Zenon DEF Posted
<1>3. CASE A = <<x>> /\ B = <<>>
    <2>1. (A \o B) \o <<>> = <<x>> /\ (A \o <<c>>) \o <<>> = <<x, c>>
        BY <1>3, Short
    <2>2. <<x, c>> = Append(<<x>>, c)
        BY ShortQueue
    <2> QED
        BY <2>1, <2>2, Zenon DEF Posted
<1>4. CASE A = <<x>> /\ B = <<y>>
    <2>1. (A \o B) \o <<>> = <<x, y>> /\ (A \o <<c>>) \o <<>> = <<x, c>>
        BY <1>4, Short
    <2>2. <<x, y>> # <<>> /\ <<x, c>> = [<<x, y>> EXCEPT ![Len(<<x, y>>)] = c]
        BY ShortQueue
    <2> QED
        BY <2>1, <2>2, Zenon DEF Posted
<1> QED
    BY <1>1, <1>2, <1>3, <1>4, Zenon

\* The panel's state overtakes the one that APP_STATE_WATCH holds, if any.
LEMMA FlightHmi ==
    ASSUME NEW S, NEW x \in S, NEW y \in S, NEW z \in S,
           NEW A \in {<<>>, <<x>>}, NEW B \in {<<>>, <<y>>}
    PROVE  OvertakenOrSame((A \o B) \o <<z>>, (A \o <<z>>) \o <<>>)
<1>1. CASE A = <<>> /\ B = <<>>
    <2>1. (A \o B) \o <<z>> = <<z>> /\ (A \o <<z>>) \o <<>> = <<z>>
        BY <1>1, Short
    <2> QED
        BY <2>1, Zenon DEF OvertakenOrSame
<1>2. CASE A = <<>> /\ B = <<y>>
    <2>1. (A \o B) \o <<z>> = <<y, z>> /\ (A \o <<z>>) \o <<>> = <<z>>
        BY <1>2, Short
    <2>2. 1 \in 1 .. Len(<<y, z>>) /\ 1 \in 1 .. Len(<<y, z>>) - 1
        OBVIOUS
    <2>3. <<z>> = Without(<<y, z>>, 1)
        BY ShortWithout
    <2> QED
        BY <2>1, <2>2, <2>3, Zenon DEF Overtaken, OvertakenOrSame
<1>3. CASE A = <<x>> /\ B = <<>>
    <2>1. (A \o B) \o <<z>> = <<x, z>> /\ (A \o <<z>>) \o <<>> = <<x, z>>
        BY <1>3, Short
    <2> QED
        BY <2>1, Zenon DEF OvertakenOrSame
<1>4. CASE A = <<x>> /\ B = <<y>>
    <2>1. (A \o B) \o <<z>> = <<x, y, z>> /\ (A \o <<z>>) \o <<>> = <<x, z>>
        BY <1>4, Short
    <2>2. 2 \in 1 .. Len(<<x, y, z>>) /\ 2 \in 1 .. Len(<<x, y, z>>) - 1
        OBVIOUS
    <2>3. <<x, z>> = Without(<<x, y, z>>, 2)
        BY ShortWithout
    <2> QED
        BY <2>1, <2>2, <2>3, Zenon DEF Overtaken, OvertakenOrSame
<1> QED
    BY <1>1, <1>2, <1>3, <1>4, Zenon

\* A setpoint overtakes the one that the motor's watch holds, if any.
LEMMA FlightSetpoint ==
    ASSUME NEW S, NEW x \in S, NEW y \in S, NEW z \in S,
           NEW A \in {<<>>, <<x>>}, NEW C \in {<<>>, <<z>>}
    PROVE  OvertakenOrSame((A \o <<y>>) \o C, (<<y>> \o <<>>) \o C)
<1>1. CASE A = <<>> /\ C = <<>>
    <2>1. (A \o <<y>>) \o C = <<y>> /\ (<<y>> \o <<>>) \o C = <<y>>
        BY <1>1, Short
    <2> QED
        BY <2>1, Zenon DEF OvertakenOrSame
<1>2. CASE A = <<>> /\ C = <<z>>
    <2>1. (A \o <<y>>) \o C = <<y, z>> /\ (<<y>> \o <<>>) \o C = <<y, z>>
        BY <1>2, Short
    <2> QED
        BY <2>1, Zenon DEF OvertakenOrSame
<1>3. CASE A = <<x>> /\ C = <<>>
    <2>1. (A \o <<y>>) \o C = <<x, y>> /\ (<<y>> \o <<>>) \o C = <<y>>
        BY <1>3, Short
    <2>2. 1 \in 1 .. Len(<<x, y>>) /\ 1 \in 1 .. Len(<<x, y>>) - 1
        OBVIOUS
    <2>3. <<y>> = Without(<<x, y>>, 1)
        BY ShortWithout
    <2> QED
        BY <2>1, <2>2, <2>3, Zenon DEF Overtaken, OvertakenOrSame
<1>4. CASE A = <<x>> /\ C = <<z>>
    <2>1. (A \o <<y>>) \o C = <<x, y, z>> /\ (<<y>> \o <<>>) \o C = <<y, z>>
        BY <1>4, Short
    <2>2. 1 \in 1 .. Len(<<x, y, z>>) /\ 1 \in 1 .. Len(<<x, y, z>>) - 1
        OBVIOUS
    <2>3. <<y, z>> = Without(<<x, y, z>>, 1)
        BY WithoutFirst
    <2> QED
        BY <2>1, <2>2, <2>3, Zenon DEF Overtaken, OvertakenOrSame
<1> QED
    BY <1>1, <1>2, <1>3, <1>4, Zenon

\* A motor task takes the first command.
LEMMA FlightTaken ==
    ASSUME NEW S, NEW x \in S, NEW y \in S, NEW z \in S,
           NEW B \in {<<>>, <<y>>}, NEW C \in {<<>>, <<z>>}
    PROVE  (<<x>> \o B) \o C # <<>> /\ Head((<<x>> \o B) \o C) = x /\ (<<>> \o B) \o C = Tail((<<x>> \o B) \o C)
<1>1. CASE B = <<>> /\ C = <<>>
    <2>1. (<<x>> \o B) \o C = <<x>> /\ (<<>> \o B) \o C = <<>>
        BY <1>1, Short
    <2>2. <<x>> # <<>> /\ Head(<<x>>) = x /\ <<>> = Tail(<<x>>)
        BY ShortQueue
    <2> QED
        BY <2>1, <2>2, Zenon
<1>2. CASE B = <<>> /\ C = <<z>>
    <2>1. (<<x>> \o B) \o C = <<x, z>> /\ (<<>> \o B) \o C = <<z>>
        BY <1>2, Short
    <2>2. <<x, z>> # <<>> /\ Head(<<x, z>>) = x /\ <<z>> = Tail(<<x, z>>)
        BY ShortQueue
    <2> QED
        BY <2>1, <2>2, Zenon
<1>3. CASE B = <<y>> /\ C = <<>>
    <2>1. (<<x>> \o B) \o C = <<x, y>> /\ (<<>> \o B) \o C = <<y>>
        BY <1>3, Short
    <2>2. <<x, y>> # <<>> /\ Head(<<x, y>>) = x /\ <<y>> = Tail(<<x, y>>)
        BY ShortQueue
    <2> QED
        BY <2>1, <2>2, Zenon
<1>4. CASE B = <<y>> /\ C = <<z>>
    <2>1. (<<x>> \o B) \o C = <<x, y, z>> /\ (<<>> \o B) \o C = <<y, z>>
        BY <1>4, Short
    <2>2. <<x, y, z>> # <<>> /\ Head(<<x, y, z>>) = x /\ <<y, z>> = Tail(<<x, y, z>>)
        BY ShortQueue
    <2> QED
        BY <2>1, <2>2, Zenon
<1> QED
    BY <1>1, <1>2, <1>3, <1>4, Zenon

-----------------------------------------------------------------------------
(* What is on its way has been asked for.                                  *)

LEMMA KnownCommand ==
    ASSUME NEW p \in PanelStates \cup {DefaultPanel}, NEW m \in StepperMotors,
           NEW e \in Efforts \cup {[k \in StepperMotors |-> Plain("Coast")]}
    PROVE  SetpointFor(p, e, m) \in Asked(m)
<1>1. e[m] \in Asked(m)
    BY DEF Asked
<1>2. p.enable => p.motor_setpoints[m] \in Asked(m)
    BY DEF Asked, DefaultPanel
<1>3. Plain("Coast") \in Asked(m)
    BY DEF Asked
<1> QED
    BY <1>1, <1>2, <1>3 DEF SetpointFor

LEMMA InitKnown == Init => Known
<1>1. \A m \in StepperMotors : Plain("Coast") \in Asked(m)
    BY DEF Asked
<1> QED
    BY <1>1 DEF Init, Known, DefaultApp

LEMMA StepKnown == QInv /\ [Next]_vars => QInv'
<1> SUFFICES ASSUME QInv, [Next]_vars PROVE Known'
    BY StepIInv DEF QInv
<1> USE DEF QInv
<1>0. \A m \in StepperMotors : Asked(m)' = Asked(m)
    BY DEF Asked
<1>1. ASSUME NEW p \in PanelStates, PanelSends(p) PROVE Known'
    BY <1>0, <1>1 DEF PanelSends, Known, reports, appstate, outputs
<1>2. ASSUME NEW effort \in Efforts \cup {None}, ReportArrives(effort) PROVE Known'
    BY <1>0, <1>2 DEF ReportArrives, Known, panel, appstate, outputs
<1>3. CASE TakeHmi
    <2>1. /\ app'.hmi_state = hmi /\ app'.esp_motor_setpoints = app.esp_motor_setpoints
        BY <1>3 DEF TakeHmi, IInv, TypeOK
    <2> QED
        BY <1>0, <1>3, <2>1 DEF TakeHmi, Known, reports, outputs
<1>4. CASE TakeReport
    <2>1. /\ app'.hmi_state = app.hmi_state
          /\ app'.esp_motor_setpoints \in {app.esp_motor_setpoints} \cup Efforts
        BY <1>4 DEF TakeReport, Known, IInv, TypeOK
    <2> QED
        BY <1>0, <1>4, <2>1 DEF TakeReport, Known, panel, outputs
<1>5. CASE ControlMotors
    <2>1. \A m \in StepperMotors : setpoint'[m] \in Asked(m)
        BY <1>5, KnownCommand DEF ControlMotors, Known
    <2> QED
        BY <1>0, <1>5, <2>1 DEF ControlMotors, Known, panel, reports
<1>6. ASSUME NEW m \in StepperMotors, TakeCommand(m) \/ RunHertz(m) PROVE Known'
    BY <1>0, <1>6 DEF TakeCommand, RunHertz, Known, panel, reports, appstate, outputs
<1>7. CASE UNCHANGED vars
    BY <1>0, <1>7 DEF vars, Known, panel, reports, appstate, outputs
<1> QED
    BY <1>1, <1>2, <1>3, <1>4, <1>5, <1>6, <1>7 DEF Next

-----------------------------------------------------------------------------
(* Every step of the base station is a step of the queue of each motor.    *)

QueueStep(m) ==
    \/ Posted(Asked(m), InFlight(m), InFlight(m)') /\ LastTaken(m)' = LastTaken(m)
    \/ Overtaken(InFlight(m), InFlight(m)') /\ LastTaken(m)' = LastTaken(m)
    \/ InFlight(m) # <<>> /\ LastTaken(m)' = Head(InFlight(m)) /\ InFlight(m)' = Tail(InFlight(m))
    \/ UNCHANGED <<InFlight(m), LastTaken(m)>>

LEMMA StepQueue == ASSUME QInv, [Next]_vars, NEW m \in StepperMotors
                   PROVE  QueueStep(m)
<1> DEFINE x == setpoint[m]
           y == SetpointFor(app.hmi_state, app.esp_motor_setpoints, m)
           z == SetpointFor(hmi, app.esp_motor_setpoints, m)
           A == IF setpoint_new[m] THEN <<x>> ELSE <<>>
           B == IF app_new THEN <<y>> ELSE <<>>
           C == IF hmi_new THEN <<z>> ELSE <<>>
<1>a. x \in Asked(m) /\ y \in Asked(m) /\ z \in Asked(m)
    BY KnownCommand DEF QInv, Known
<1>b. y' \in Asked(m) /\ z' \in Asked(m)
    <2>1. QInv'
        BY StepKnown
    <2> QED
        BY <2>1, KnownCommand DEF QInv, Known
<1>c. A \in {<<>>, <<x>>} /\ B \in {<<>>, <<y>>} /\ C \in {<<>>, <<z>>}
    OBVIOUS
<1>d. InFlight(m) = (A \o B) \o C /\ InFlight(m)' = (A' \o B') \o C'
    BY DEF InFlight
<1>e. ASSUME motor' = motor PROVE LastTaken(m)' = LastTaken(m)
    BY <1>e DEF LastTaken
<1>1. ASSUME NEW p \in PanelStates, PanelSends(p) PROVE QueueStep(m)
    <2>1. A' = A /\ B' = B /\ C' = <<z'>> /\ motor' = motor
        BY <1>1 DEF PanelSends, reports, appstate, outputs
    <2> HIDE DEF x, y, z, A, B, C
    <2>2. Posted(Asked(m), (A \o B) \o C, (A \o B) \o <<z'>>)
        BY <1>a, <1>b, <1>c, FlightPost
    <2> QED
        BY <1>d, <1>e, <2>1, <2>2, Zenon DEF QueueStep
<1>2. ASSUME NEW effort \in Efforts \cup {None}, ReportArrives(effort) PROVE QueueStep(m)
    <2>1. InFlight(m)' = InFlight(m) /\ motor' = motor
        BY <1>2 DEF ReportArrives, InFlight, panel, appstate, outputs
    <2> QED
        BY <1>e, <2>1 DEF QueueStep
<1>3. CASE TakeHmi
    <2>1. app'.hmi_state = hmi /\ app'.esp_motor_setpoints = app.esp_motor_setpoints
        BY <1>3 DEF TakeHmi, QInv, IInv, TypeOK
    <2>2. C = <<z>> /\ A' = A /\ B' = <<z>> /\ C' = <<>> /\ motor' = motor
        BY <1>3, <2>1 DEF TakeHmi, reports, outputs
    <2> HIDE DEF x, y, z, A, B, C
    <2>3. OvertakenOrSame((A \o B) \o <<z>>, (A \o <<z>>) \o <<>>)
        BY <1>a, <1>c, FlightHmi
    <2> QED
        BY <1>d, <1>e, <2>2, <2>3, Zenon DEF QueueStep, OvertakenOrSame
<1>4. CASE TakeReport
    <2>1. C = <<>> /\ A' = A /\ B' = <<y'>> /\ C' = <<>> /\ motor' = motor
        BY <1>4 DEF TakeReport, panel, outputs
    <2> HIDE DEF x, y, z, A, B, C
    <2>2. Posted(Asked(m), (A \o B) \o <<>>, (A \o <<y'>>) \o <<>>)
        BY <1>a, <1>b, <1>c, FlightReport
    <2> QED
        BY <1>d, <1>e, <2>1, <2>2, Zenon DEF QueueStep
<1>5. CASE ControlMotors
    <2>1. B = <<y>> /\ A' = <<y>> /\ B' = <<>> /\ C' = C /\ motor' = motor
        BY <1>5 DEF ControlMotors, panel, reports
    <2> HIDE DEF x, y, z, A, B, C
    <2>2. OvertakenOrSame((A \o <<y>>) \o C, (<<y>> \o <<>>) \o C)
        BY <1>a, <1>c, FlightSetpoint
    <2> QED
        BY <1>d, <1>e, <2>1, <2>2, Zenon DEF QueueStep, OvertakenOrSame
<1>6. ASSUME NEW k \in StepperMotors, TakeCommand(k) PROVE QueueStep(m)
    <2>1. B' = B /\ C' = C
        BY <1>6 DEF TakeCommand, panel, reports, appstate
    <2>2. CASE k = m
        <3>1. A = <<x>> /\ A' = <<>> /\ ~setpoint_new'[m] /\ setpoint'[m] = x
            BY <1>6, <2>2 DEF TakeCommand, QInv, IInv, TypeOK
        <3>2. LastTaken(m)' = x
            <4>1. CommandAgrees'
                BY StepIInv DEF QInv, IInv
            <4> QED
                BY <3>1, <4>1 DEF CommandAgrees, LastTaken
        <3> HIDE DEF x, y, z, A, B, C
        <3>3. /\ (<<x>> \o B) \o C # <<>> /\ Head((<<x>> \o B) \o C) = x
              /\ (<<>> \o B) \o C = Tail((<<x>> \o B) \o C)
            BY <1>a, <1>c, FlightTaken
        <3> QED
            BY <1>d, <2>1, <3>1, <3>2, <3>3, Zenon DEF QueueStep
    <2>3. CASE k # m
        <3>1. A' = A /\ motor'[m] = motor[m]
            BY <1>6, <2>3 DEF TakeCommand, QInv, IInv, TypeOK
        <3>2. LastTaken(m)' = LastTaken(m)
            BY <3>1 DEF LastTaken
        <3> HIDE DEF x, y, z, A, B, C
        <3> QED
            BY <1>d, <2>1, <3>1, <3>2, Zenon DEF QueueStep
    <2> QED
        BY <2>2, <2>3
<1>7. ASSUME NEW k \in StepperMotors, RunHertz(k) PROVE QueueStep(m)
    <2>1. InFlight(m)' = InFlight(m)
        BY <1>7 DEF RunHertz, InFlight, panel, reports, appstate, outputs
    <2>2. LastTaken(m)' = LastTaken(m)
        BY <1>7 DEF RunHertz, LastTaken, Started, QInv, IInv, TypeOK, MotorStates
    <2> QED
        BY <2>1, <2>2 DEF QueueStep
<1>8. CASE UNCHANGED vars
    BY <1>8 DEF vars, QueueStep, InFlight, LastTaken, panel, reports, appstate, outputs
<1> QED
    BY <1>1, <1>2, <1>3, <1>4, <1>5, <1>6, <1>7, <1>8 DEF Next

\* The chain of watches implements the queue of commands for both motors.
THEOREM ImplementsQueues == Spec => CommandsInOrder
<1>1. Init => RotationQueue!QueueInit /\ TranslationQueue!QueueInit
    <2> SUFFICES ASSUME Init PROVE RotationQueue!QueueInit /\ TranslationQueue!QueueInit
        OBVIOUS
    <2>1. ASSUME NEW m \in StepperMotors
          PROVE  InFlight(m) = <<Plain("Coast"), Plain("Coast"), Plain("Coast")>>
                 /\ LastTaken(m) \notin Asked(m)
        <3>1. InFlight(m) = (<<Plain("Coast")>> \o <<Plain("Coast")>>) \o <<Plain("Coast")>>
            BY DEF Init, InFlight, SetpointFor, DefaultApp, DefaultPanel
        <3>2. LastTaken(m) = None
            BY DEF Init, LastTaken, NewMotor
        <3>3. \A c \in Asked(m) : c \in MotorActions
            <4>1. Plain("Coast") \in MotorActions /\ Velocity(0) \in MotorActions
                BY DEF Plain, Velocity, MotorActions
            <4>2. \A p \in PanelStates : p.motor_setpoints[m] \in MotorActions
                BY PanelAssumption DEF Panels, StepperMotors, Motors
            <4>3. \A e \in Efforts : e[m] \in MotorActions
                BY PanelAssumption
            <4> QED
                BY <4>1, <4>2, <4>3 DEF Asked
        <3>4. None \notin MotorActions
            BY DEF None, MotorActions
        <3> QED
            BY <3>1, <3>2, <3>3, <3>4, Short
    <2> QED
        BY <2>1 DEF StepperMotors, RotationQueue!QueueInit, TranslationQueue!QueueInit
<1>2. QInv /\ [Next]_vars => /\ [RotationQueue!QueueNext]_RotationQueue!queueVars
                             /\ [TranslationQueue!QueueNext]_TranslationQueue!queueVars
    <2> SUFFICES ASSUME QInv, [Next]_vars
                 PROVE  /\ [RotationQueue!QueueNext]_RotationQueue!queueVars
                        /\ [TranslationQueue!QueueNext]_TranslationQueue!queueVars
        OBVIOUS
    <2>1. QueueStep("Rotation") /\ QueueStep("Translation")
        BY StepQueue DEF StepperMotors
    <2>2. [RotationQueue!QueueNext]_RotationQueue!queueVars
        BY <2>1, Zenon DEF QueueStep, Posted, Overtaken, Without, RotationQueue!QueueNext,
           RotationQueue!Post, RotationQueue!Overtake, RotationQueue!Follow, RotationQueue!queueVars
    <2>3. [TranslationQueue!QueueNext]_TranslationQueue!queueVars
        BY <2>1, Zenon DEF QueueStep, Posted, Overtaken, Without, TranslationQueue!QueueNext,
           TranslationQueue!Post, TranslationQueue!Overtake, TranslationQueue!Follow,
           TranslationQueue!queueVars
    <2> QED
        BY <2>2, <2>3
<1>3. Init => QInv
    BY InitIInv, InitKnown DEF QInv
<1>4. Spec => []QInv
    BY <1>3, StepKnown, PTL DEF Spec
<1> QED
    BY <1>1, <1>2, <1>4, PTL DEF Spec, CommandsInOrder, RotationQueue!QueueSpec,
       TranslationQueue!QueueSpec
=============================================================================
