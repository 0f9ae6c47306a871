---------------------------- MODULE KnifeMotorMC -----------------------------
(* The knife axis on a short travel.                                        *)
EXTENDS KnifeMotor

Velocity(d) == [kind |-> "MoveVelocity", arg |-> d]
Position(t) == [kind |-> "MovePosition", arg |-> t]

AllRequests ==
    {Plain("Hold"), Plain("Home"), Plain("Seek"), Velocity(-1),
     Position(-1)}

PositionRequests == {Plain("Hold"), Velocity(-1), Position(-2), Position(1)}

SeekRequests == {Plain("Coast"), Plain("Seek")}

HomeRequest == {Plain("Home")}

NoRequests == {}
=============================================================================
