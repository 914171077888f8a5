----------------------------- MODULE MCLearning -----------------------------
(***************************************************************************)
(* Training and inference have no variable in common: part says which of   *)
(* the two a behaviour is about, and the other stays as it is at first.    *)
(***************************************************************************)
EXTENDS Training, ActInference

VARIABLE part

Seen == [image |-> TRUE, env |-> FALSE, ns |-> TRUE]
Unseen == [Seen EXCEPT !.image = FALSE]
Good == Recorded(<<Seen, Seen, Seen>>)
Short == Recorded(<<Seen, Unseen>>)
TooLong == Recorded(<<Seen, Seen, Seen, Seen>>)
Narrow == [Good EXCEPT !.axes.qpos = 3]
KindsDef == {Good, Short, TooLong, Narrow}
TwoFiles(a, b) == [id \in {0, 1} |-> IF id = 0 THEN a ELSE b]
BegunDef == {TwoFiles(Good, ep) : ep \in KindsDef \cup {Torn}} \cup {TwoFiles(Narrow, Narrow)}

InitLearning ==
    /\ part \in {"training", "inference"}
    /\ Init /\ InitInference
    /\ part = "training" => temporalAgg = FALSE
    /\ part = "inference" => dir = TwoFiles(Good, Good)

NextLearning ==
    /\ UNCHANGED part
    /\ \/ part = "training" /\ Next /\ UNCHANGED actVars
       \/ part = "inference" /\ NextInference /\ UNCHANGED vars

SpecLearning == InitLearning /\ [][NextLearning]_<<part, vars, actVars>>
=============================================================================
