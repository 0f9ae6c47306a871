---------------------------- MODULE CommandQueue -----------------------------
(***************************************************************************)
(* What the chain of watches between the panel and a motor promises, with  *)
(* none of its tasks: a queue of commands in which a newer command may     *)
(* overtake an older one, but is never overtaken itself, never reordered   *)
(* and never lost.  BaseStation implements it once for each motor.         *)
(***************************************************************************)
EXTENDS Naturals, Sequences

CONSTANTS
    Commands,   \* what can be asked of the motor
    Idle        \* what it does before the first command, and the boot's commands

VARIABLES
    queue,      \* commands on their way, the newest last
    obeyed      \* the command the motor follows

queueVars == <<queue, obeyed>>

QueueInit ==
    /\ queue = <<Idle, Idle, Idle>>
    /\ obeyed \notin Commands

\* A new command is put behind the others, or in the place of the newest.
Post(c) ==
    /\ \/ queue' = Append(queue, c)
       \/ queue # <<>> /\ queue' = [queue EXCEPT ![Len(queue)] = c]
    /\ UNCHANGED obeyed

\* A command is dropped because a newer one is behind it.
Overtake(i) ==
    /\ i \in 1 .. Len(queue) - 1
    /\ queue' = SubSeq(queue, 1, i - 1) \o SubSeq(queue, i + 1, Len(queue))
    /\ UNCHANGED obeyed

Follow ==
    /\ queue # <<>>
    /\ obeyed' = Head(queue)
    /\ queue' = Tail(queue)

QueueNext ==
    \/ \E c \in Commands : Post(c)
    \/ \E i \in 1 .. Len(queue) : Overtake(i)
    \/ Follow

QueueSpec == QueueInit /\ [][QueueNext]_queueVars

\* Commands do not wait for ever.
QueueFairness == WF_queueVars(Follow)
=============================================================================
