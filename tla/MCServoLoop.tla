---------------------------- MODULE MCServoLoop ----------------------------
(***************************************************************************)
(* ServoLoop and StateSnapshot on one small instance.  part says what a    *)
(* behaviour is about: in "loop" two control objects send commands, toggle *)
(* bits, start and stop; in "gears" one of them starts, stops and shifts   *)
(* gears; in "snapshot" it starts and stops while a receive object reads.  *)
(***************************************************************************)
EXTENDS StateSnapshot

CONSTANT First   \* the control object of the parts "gears" and "snapshot"

VARIABLE part

InitParts == part \in {"loop", "gears", "snapshot"} /\ InitSnapshot

OnlyFirst == \A c \in Controls \ {First} : ctl'[c] = Idle

NextLoop == Next /\ \A c \in Controls : ctl'[c].bit # 9

NextGears == /\ Next /\ OnlyFirst
             /\ UNCHANGED <<mode, log>> /\ cached'[0] = cached[0]
             /\ ctl'[First].at # "submit" /\ ctl'[First].bit # 5

NextStamped == /\ NextSnapshot /\ OnlyFirst
               /\ UNCHANGED mode /\ cached'[0] = cached[0]
               /\ ctl'[First].at \notin {"submit", "toggle"}

Unread == UNCHANGED <<stampVars, receiveVars>>

NextParts == /\ UNCHANGED part
             /\ \/ part = "loop" /\ NextLoop /\ Unread
                \/ part = "gears" /\ NextGears /\ Unread
                \/ part = "snapshot" /\ NextStamped

\* FairSpec of ServoLoop; the part "snapshot", whose cycles are bounded, has no
\* command that waits.
SpecParts == /\ InitParts /\ [][NextParts]_<<allVars, part>>
             /\ WF_<<allVars, part>>(Worker /\ part # "snapshot" /\ UNCHANGED part /\ Unread)
=============================================================================
