--------------------------- MODULE CommandStream ---------------------------
(***************************************************************************)
(* What the control library promises a program that sends servo commands:  *)
(* accepted commands come into force one after the other, in the order in  *)
(* which they were accepted; none is lost, none overtakes another, and the *)
(* last one stays in force until a newer one replaces it.                  *)
(*                                                                         *)
(* Restarting the worker of ExcavatorClient makes the machine neutral for  *)
(* a moment, but the queue outlives the worker: the command that was in    *)
(* force may come into force AGAIN, without anybody having sent it again.  *)
(***************************************************************************)
EXTENDS Sequences

CONSTANTS Command,   \* what may be sent
          Neutral    \* no command has come into force yet: not a Command

VARIABLES pending,   \* accepted, not yet in force, oldest first
          current    \* the command in force, or Neutral

vars == <<pending, current>>

Init == /\ pending = <<>>
        /\ current = Neutral

\* A command is accepted.
Submit(c) == /\ pending' = Append(pending, c)
             /\ UNCHANGED current

\* The oldest pending command replaces the one in force.
Apply == /\ pending # <<>>
         /\ current' = Head(pending)
         /\ pending' = Tail(pending)

\* The worker is started again: the outputs are neutral until its first
\* cycle, and the command that was in force may be due once more.
Restart == /\ current' = Neutral
           /\ \/ pending' = pending
              \/ /\ current # Neutral
                 /\ pending' = <<current>> \o pending

Next == \/ \E c \in Command : Submit(c)
        \/ Apply
        \/ Restart

Spec == Init /\ [][Next]_vars
=============================================================================
