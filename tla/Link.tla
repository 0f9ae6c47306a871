--------------------------------- MODULE Link --------------------------------
(***************************************************************************)
(* One direction of the serial link between the processors: setpoints from *)
(* the base station to the ESP32, or reports back.  The newest value of a  *)
(* watch is serialised to a frame that ends with the only zero byte, and   *)
(* written to a pipe; tx_task moves bytes from the pipe to the UART,       *)
(* rx_task from the UART to the pipe of the receiving side, and the        *)
(* deserialising task collects them up to the next zero and puts the       *)
(* decoded value into a watch.  Pipes hold back their writers; the UART    *)
(* has no flow control, and what is lost on it is not sent again.          *)
(*                                                                         *)
(* The k-th value that is sent has the number k.  The i-th byte of the     *)
(* f-th frame is <<f, i>> and its delimiter <<f, 0>>.  Bytes move one at a *)
(* time where the code moves as many as there are.                         *)
(***************************************************************************)
EXTENDS Integers, Sequences, FiniteSets

CONSTANTS
    SIZE,           \* bytes of a serialised value without its delimiter
    PIPE,           \* capacity of the pipes
    UART,           \* bound: bytes on their way between the two UARTs
    FRAMING,        \* capacity of the framing buffer
    Directions,     \* the directions that are looked at
    MaxSent,        \* bound: values sent
    MaxLost         \* bound: bytes lost

ASSUME LinkAssumption ==
    /\ SIZE \in Nat /\ SIZE >= 2        \* COBS adds a byte to at least one
    /\ PIPE \in Nat \ {0} /\ UART \in Nat \ {0}
    /\ FRAMING \in Nat /\ FRAMING >= SIZE
    /\ Directions \subseteq {"setpoints", "reports"}
    /\ MaxSent \in Nat /\ MaxLost \in Nat

VARIABLES
    direction,  \* which direction this is
    sent,       \* the number of the value in the sender's watch
    sent_new,   \* the serialising task has not taken it yet
    framed,     \* history: the values that were serialised, in that order
    out,        \* bytes of the current frame not yet written to the pipe
    pipe,       \* the sender's pipe
    uart,       \* bytes on their way
    lost,       \* history: the bytes that got lost
    rx_pipe,    \* the receiver's pipe
    framing,    \* framing_buf
    ended,      \* history: the frame whose delimiter was read last
    got         \* the receiver's watch: the value's number, or 0 for a value
                \* that was never sent

sender == <<sent, sent_new, framed, out>>
receiver == <<rx_pipe, framing, ended, got>>
vars == <<direction, sender, pipe, uart, lost, receiver>>

Bytes == (1 .. MaxSent) \X (0 .. SIZE)
Garbage == 0
Error == -1

\* The COBS encoding: the payload has no zero byte, the delimiter is one.
Encode(f) == [i \in 1 .. SIZE + 1 |-> <<f, IF i <= SIZE THEN i ELSE 0>>]

\* The buffer starts with the frame f up to its delimiter.
StartsWith(buf, f) == Len(buf) >= SIZE /\ \A i \in 1 .. SIZE : buf[i] = Encode(f)[i]

\* What from_bytes_cobs may make of a buffer.  There is no checksum: a damaged
\* frame is rejected or decoded to some other value.  Behind a whole frame the
\* decoder ignores what follows, if the COBS blocks of that are well formed.
Decoded(buf) ==
    LET whole == {framed[f] : f \in {g \in DOMAIN framed : StartsWith(buf, g)}}
    IN IF buf = <<>> THEN {Error}
       ELSE IF whole = {} THEN {Error, Garbage}
       ELSE IF Len(buf) = SIZE THEN whole
       ELSE whole \cup {Error}

-----------------------------------------------------------------------------
(* The sending side.                                                       *)

\* A new value overwrites one that has not been taken.
Send ==
    /\ sent < MaxSent
    /\ sent' = sent + 1 /\ sent_new' = TRUE
    /\ UNCHANGED <<direction, framed, out, pipe, uart, lost, receiver>>

\* The task takes the next value when its last frame is in the pipe.
Serialise ==
    /\ sent_new /\ out = <<>>
    /\ out' = Encode(Len(framed) + 1)
    /\ framed' = Append(framed, sent)
    /\ sent_new' = FALSE
    /\ UNCHANGED <<direction, sent, pipe, uart, lost, receiver>>

Write ==
    /\ out # <<>> /\ Len(pipe) < PIPE
    /\ pipe' = Append(pipe, Head(out))
    /\ out' = Tail(out)
    /\ UNCHANGED <<direction, sent, sent_new, framed, uart, lost, receiver>>

Transmit ==
    /\ pipe # <<>> /\ Len(uart) < UART
    /\ uart' = Append(uart, Head(pipe))
    /\ pipe' = Tail(pipe)
    /\ UNCHANGED <<direction, sender, lost, receiver>>

-----------------------------------------------------------------------------
(* The receiving side.                                                     *)

Receive ==
    /\ uart # <<>> /\ Len(rx_pipe) < PIPE
    /\ rx_pipe' = Append(rx_pipe, Head(uart))
    /\ uart' = Tail(uart)
    /\ UNCHANGED <<direction, sender, pipe, lost, framing, ended, got>>

\* An error or overrun of the UART: logged by rx_task, or not noticed at all.
Lose ==
    /\ uart # <<>> /\ Cardinality(lost) < MaxLost
    /\ lost' = lost \cup {Head(uart)}
    /\ uart' = Tail(uart)
    /\ UNCHANGED <<direction, sender, pipe, receiver>>

NextIsDelimiter == rx_pipe # <<>> /\ Head(rx_pipe)[2] = 0

\* Mutant: a byte is pushed into the full buffer.
CollectUnchecked ==
    /\ rx_pipe # <<>> /\ ~NextIsDelimiter
    /\ rx_pipe' = Tail(rx_pipe)
    /\ framing' = Append(framing, Head(rx_pipe))
    /\ UNCHANGED <<direction, sender, pipe, uart, lost, ended, got>>

\* Mutant: a full buffer is not emptied.
CollectWaits ==
    /\ rx_pipe # <<>> /\ ~NextIsDelimiter
    /\ Len(framing) < FRAMING
    /\ rx_pipe' = Tail(rx_pipe)
    /\ framing' = Append(framing, Head(rx_pipe))
    /\ UNCHANGED <<direction, sender, pipe, uart, lost, ended, got>>

\* A byte that the buffer has no room for empties it.
Collect ==
    /\ rx_pipe # <<>> /\ ~NextIsDelimiter
    /\ rx_pipe' = Tail(rx_pipe)
    /\ framing' = IF Len(framing) < FRAMING THEN Append(framing, Head(rx_pipe)) ELSE <<>>
    /\ UNCHANGED <<direction, sender, pipe, uart, lost, ended, got>>

\* The base station drops reports of a single byte, "as these are likely noise".
TooShort == direction = "reports" /\ Len(framing) <= 1

\* Mutant: the buffer is emptied only when the value could be decoded.
DeliverKeepsErrors ==
    /\ NextIsDelimiter
    /\ rx_pipe' = Tail(rx_pipe)
    /\ \E v \in (IF TooShort THEN {Error} ELSE Decoded(framing)) :
          /\ got' = IF v = Error THEN got ELSE v
          /\ framing' = IF v = Error THEN framing ELSE <<>>
    /\ ended' = Head(rx_pipe)[1]
    /\ UNCHANGED <<direction, sender, pipe, uart, lost>>

Deliver ==
    /\ NextIsDelimiter
    /\ rx_pipe' = Tail(rx_pipe)
    /\ \E v \in (IF TooShort THEN {Error} ELSE Decoded(framing)) :
          got' = IF v = Error THEN got ELSE v
    /\ framing' = <<>>
    /\ ended' = Head(rx_pipe)[1]
    /\ UNCHANGED <<direction, sender, pipe, uart, lost>>

-----------------------------------------------------------------------------

Init ==
    /\ direction \in Directions
    /\ sent = 0 /\ sent_new = FALSE /\ framed = <<>> /\ out = <<>>
    /\ pipe = <<>> /\ uart = <<>> /\ lost = {}
    /\ rx_pipe = <<>> /\ framing = <<>> /\ ended = 0 /\ got = 0

Next == Send \/ Serialise \/ Write \/ Transmit \/ Receive \/ Lose \/ Collect \/ Deliver

Spec == Init /\ [][Next]_vars

\* Every task is polled when the pipe, watch or UART it waits for is ready.
Fairness ==
    /\ WF_vars(Serialise) /\ WF_vars(Write) /\ WF_vars(Transmit) /\ WF_vars(Receive)
    /\ WF_vars(Collect \/ Deliver)

FairSpec == Spec /\ Fairness

-----------------------------------------------------------------------------
(* Properties.                                                             *)

\* Type invariant: with the pipes and the framing buffer within their capacity.
TypeOK ==
    /\ direction \in Directions
    /\ sent \in 0 .. MaxSent /\ sent_new \in BOOLEAN
    /\ framed \in Seq(1 .. MaxSent) /\ Len(framed) <= sent
    /\ out \in Seq(Bytes) /\ Len(out) <= SIZE + 1
    /\ pipe \in Seq(Bytes) /\ Len(pipe) <= PIPE
    /\ uart \in Seq(Bytes) /\ Len(uart) <= UART
    /\ lost \subseteq Bytes
    /\ rx_pipe \in Seq(Bytes) /\ Len(rx_pipe) <= PIPE
    /\ framing \in Seq(Bytes) /\ Len(framing) <= FRAMING
    /\ ended \in 0 .. Len(framed)
    /\ got \in 0 .. MaxSent

\* Nothing of the frame f was lost, nor the delimiter of the frame before.
Undamaged(f) == <<f - 1, 0>> \notin lost /\ \A i \in 0 .. SIZE : <<f, i>> \notin lost

\* What losses have left of the frame f.
StateOf(f) ==
    IF <<f, 0>> \in lost THEN "open" ELSE IF Undamaged(f) THEN "whole" ELSE "damaged"

\* The frames on their way: those behind the last delimiter that was read.
InFlight ==
    [i \in 1 .. Len(framed) - ended |->
        [value |-> framed[ended + i], state |-> StateOf(ended + i)]]

FrameLevel == INSTANCE FrameLink
    WITH Values <- 1 .. MaxSent, Damaged <- {Garbage},
         slot <- sent, slot_new <- sent_new, flight <- InFlight, held <- got

\* Pipes, UARTs and framing buffers implement a link of frames: none is
\* reordered, repeated or lost without a lost byte, and a lost byte harms no
\* frame but its own and, with a delimiter, the next.
LinksFrames == FrameLevel!LinkSpec

\* No value waits for ever in the watch and no frame on its way, whatever was
\* lost before it: neither a full pipe nor a full framing buffer stops the link.
FramesArrive == FrameLevel!LinkFairness
=============================================================================
