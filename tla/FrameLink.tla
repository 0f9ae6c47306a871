------------------------------ MODULE FrameLink ------------------------------
(***************************************************************************)
(* What one direction of the serial link promises, with none of its bytes, *)
(* pipes and buffers: the newest value of a watch becomes a frame, frames  *)
(* arrive in the order in which they were sent, a frame nothing happened   *)
(* to delivers its value, and a loss harms no frame but the one it hits    *)
(* and the one that then runs into it.  Link implements it; Exchange joins *)
(* the two processors by two of them.                                      *)
(***************************************************************************)
EXTENDS Naturals, Sequences

CONSTANTS
    Values,     \* what is sent
    Damaged     \* what a damaged frame may be decoded to

VARIABLES
    slot,       \* the sender's watch
    slot_new,   \* its value has not been taken
    flight,     \* frames on their way, the oldest first
    held        \* the receiver's watch

linkVars == <<slot, slot_new, flight, held>>

\* A frame is whole, or has lost bytes of its own or to the frame before it, or
\* is open: its delimiter is lost and the next frame runs into it.
Frames == [value : Values, state : {"whole", "damaged", "open"}]

LastIsOpen == flight # <<>> /\ flight[Len(flight)].state = "open"

LinkInit == slot_new = FALSE /\ flight = <<>>

\* A new value takes the place of one that has not been taken.
Post(v) ==
    /\ slot' = v /\ slot_new' = TRUE
    /\ UNCHANGED <<flight, held>>

Take ==
    /\ slot_new
    /\ slot_new' = FALSE
    /\ flight' = Append(flight, [value |-> slot,
                                 state |-> IF LastIsOpen THEN "damaged" ELSE "whole"])
    /\ UNCHANGED <<slot, held>>

\* A byte of the frame i gets lost.
Damage(i) ==
    /\ flight[i].state = "whole"
    /\ flight' = [flight EXCEPT ![i].state = "damaged"]
    /\ UNCHANGED <<slot, slot_new, held>>

\* The delimiter of the frame i gets lost.
Open(i) ==
    /\ flight[i].state # "open"
    /\ flight' = [k \in DOMAIN flight |->
                    IF k = i THEN [flight[k] EXCEPT !.state = "open"]
                    ELSE IF k = i + 1 /\ flight[k].state = "whole"
                    THEN [flight[k] EXCEPT !.state = "damaged"]
                    ELSE flight[k]]
    /\ UNCHANGED <<slot, slot_new, held>>

\* The delimiter of the frame n arrives, behind the open frames before it.
Ends(n) ==
    /\ flight[n].state # "open"
    /\ \A i \in 1 .. n - 1 : flight[i].state = "open"
    /\ flight' = SubSeq(flight, n + 1, Len(flight))
    /\ UNCHANGED <<slot, slot_new>>

\* What arrived is decoded: to the value that was sent if the frame is whole,
\* else to a value of the frames that ran together or to any other.
Deliver(n) ==
    /\ Ends(n)
    /\ held' \in (IF flight[n].state = "whole" THEN {flight[n].value}
                  ELSE {flight[i].value : i \in 1 .. n} \cup Damaged)

\* A damaged frame is rejected.
Reject(n) ==
    /\ Ends(n)
    /\ flight[n].state = "damaged"
    /\ UNCHANGED held

Arrive == \E n \in DOMAIN flight : Deliver(n) \/ Reject(n)

Lose == \E i \in DOMAIN flight : Damage(i) \/ Open(i)

LinkNext == (\E v \in Values : Post(v)) \/ Take \/ Arrive \/ Lose

LinkSpec == LinkInit /\ [][LinkNext]_linkVars

\* Values do not wait for ever, nor do frames that have a delimiter.
LinkFairness == WF_linkVars(Take) /\ WF_linkVars(Arrive)
=============================================================================
