--------------------- MODULE WhenGroupChangedDefineGroup ---------------------
(***************************************************************************)
(* ActionWhenGroupChangedDefineGroup: a group that holds an atom for       *)
(* Duration frames, Delay frames after it was fed in, either by            *)
(* ChangeGroupTime (addNewChange) or from ParentGroup at every frame.      *)
(***************************************************************************)
EXTENDS ReactionSettings

VARIABLES
  pending,   (* mvToDo: AtomDurationDelay records                           *)
  group      (* the atoms of the group                                      *)

groupVars == <<pending, group>>

GroupInit == pending = {} /\ group = {}

(* processSingleToDo: what becomes of an element ...                       *)
ProcessSingleToDo(e) ==
  IF e.delay > 0 THEN [e EXCEPT !.delay = @ - 1]
  ELSE IF e.duration >= 0 THEN [e EXCEPT !.duration = @ - 1]
  ELSE e

(* ... and whether its atom is added to the group.                         *)
Adds(e) == e.delay <= 0 /\ e.duration >= 0

Fed(atoms) == {[atom |-> a, duration |-> Duration, delay |-> Delay] : a \in atoms}

(* Mutated form: the group is not cleared.                                 *)
DefineGroupAction_NoClear(parents, changed) ==
  LET work == pending \cup Fed(IF FromParentGroup THEN parents ELSE {}) \cup Fed(changed)
  IN /\ group' = group \cup {e.atom : e \in {w \in work : Adds(w)}}
     /\ pending' = {f \in {ProcessSingleToDo(e) : e \in work} : f.duration > 0}

(* internalAction, followed in the same frame by a call of addNewChange    *)
(* for each atom of changed.  Both work off one element at a time and keep *)
(* those with some duration left, so they are one pass over the elements   *)
(* pending and those fed in at this frame.                                 *)
DefineGroupAction(parents, changed) ==
  LET work == pending \cup Fed(IF FromParentGroup THEN parents ELSE {}) \cup Fed(changed)
  IN /\ group' = {e.atom : e \in {w \in work : Adds(w)}}
     /\ pending' = {f \in {ProcessSingleToDo(e) : e \in work} : f.duration > 0}

=============================================================================
