-------------------------------- MODULE HmiMC --------------------------------
(* A knob of six positions with two counts each, on a counter that does not *)
(* wrap with them, as 65536 counts and 24 positions of four do not either.  *)
EXTENDS Hmi

FewSpeeds == [m \in Motors |-> 3]
SmallParams == [ZeroLine |-> 4, Gain |-> 3, Speed |-> 3]
SmallDefaults == [ZeroLine |-> 2, Gain |-> 1, Speed |-> 2]
SomeTurns == {1, 4, -2, -3}
=============================================================================
