--------------------------- MODULE LabelledPolicy ---------------------------
(* What the migrations of a policy promise: a parameter belongs to what it is *)
(* about - a feature, an action remembered in a slot, an action's logit - and *)
(* a tool that extends a checkpoint adds parameters about new things only,    *)
(* which leave the function of the old ones alone.  Where a tensor keeps a    *)
(* parameter cannot be seen.                                                  *)
CONSTANTS Paths,
          Zero,      \* an added parameter contributes nothing
          Low,       \* except the bias that keeps an added action unlikely
          None

VARIABLES files,  \* path -> function from labels to values, or None
          held    \* the function a running tool holds, or None

Fresh(label) == IF label[1] = "bias" THEN Low ELSE Zero

\* The hidden layers and the value head are never added.
Extends(new, old) ==
  /\ DOMAIN old \subseteq DOMAIN new
  /\ \A l \in DOMAIN old : new[l] = old[l]
  /\ \A l \in DOMAIN new \ DOMAIN old :
       l[1] \notin {"hidden", "value"} /\ new[l] = Fresh(l)

Init == held = None

Open(p) ==
  /\ held = None /\ files[p] # None
  /\ held' # None /\ Extends(held', files[p])
  /\ UNCHANGED files

Learn ==
  /\ held # None /\ held' # None
  /\ DOMAIN held' = DOMAIN held
  /\ UNCHANGED files

Save(p) ==
  /\ held # None
  /\ files' = [files EXCEPT ![p] = held]
  /\ held' \in {held, None}

Close == held # None /\ held' = None /\ UNCHANGED files

Next == (\E p \in Paths : Open(p) \/ Save(p)) \/ Learn \/ Close

Spec == Init /\ [][Next]_<<files, held>>
===============================================================================
