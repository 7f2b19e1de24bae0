--------------------------- MODULE MCPolicyTraining ---------------------------
(* Three actions of which an old checkpoint has two, three specifications of   *)
(* which the last two are equally wide, histories of two slots: the smallest   *)
(* sizes at which a slot, a row and a column can be taken for another.         *)
EXTENDS PolicyTraining
MCSpecs == 4..6
MCFeatureCount == [s \in MCSpecs |-> IF s = 4 THEN 1 ELSE 2]
MCCompanions == {1}
MCProbeRows == {0}
MCLengths == {2}
\* Every parameter of a checkpoint was learned for what it is about.
Learned(config) ==
  Built(config, [u \in Units(config) |->
    [of |-> CHOOSE l \in Labels(config) : UnitOf(config, l) = u, moved |-> 0]])
MCInitial ==
  {Learned(config) : config \in
    {c \in [actions : {2, 3}, spec : MCSpecs, history : {0, 2}, residual : BOOLEAN] :
       Valid(c)}}
===============================================================================
