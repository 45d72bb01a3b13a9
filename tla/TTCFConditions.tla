--------------------------- MODULE TTCFConditions ---------------------------
(***************************************************************************)
(* The Escape options of the T... actions: conditions on the history of a  *)
(* flag, evaluated at the time origin (Old...) or at the time end (New...) *)
(* of a pair of frames.  checkIfMemberFor, checkTCFCondition, doICare and  *)
(* quickCorrelate of ttcf.cpp, and addCondition of actionttcfparent.cpp.   *)
(*                                                                         *)
(* A condition is a record                                                 *)
(*   type         which flag is looked at, and when                        *)
(*   history, continuous, max                                              *)
(*                the three numbers given in the input file, in frames     *)
(*   negate       written with a "!"                                       *)
(*   softhistory  followed by SoftStart                                    *)
(*   consequence  what happens when the condition is not fulfilled         *)
(* Every condition has a vector of flags of its own, because               *)
(* parseTCFOptions sets bii to the position of the condition.              *)
(***************************************************************************)
EXTENDS TTCF

OldTypes == {"OldMember", "OldValue1", "OldValue2", "OldCoordination"}
NewTypes == {"NewMember", "NewValue1", "NewValue2", "NewCoordination"}

Consequences == {"UncareRemaining", "UncareThis", "ValueRemaining", "ValueThis",
                 "NoConsequence"}

(* p1, p2 and p3: addCondition sets them for the types it lists, and they  *)
(* stay 0 for the others.                                                  *)
AddCondition(c) ==
  IF c.type \in {"OldMember", "NewMember", "OldValue1", "NewValue1"}
  THEN <<c.history, c.continuous, c.max>>
  ELSE <<0, 0, 0>>

(* The counters of the loop of checkIfMemberFor, which goes from start to  *)
(* index in steps of NumItems: the current and the longest run of false    *)
(* flags, and their total.  (The code leaves the loop when one of them     *)
(* exceeds its maximum; the longest run and the total tell the same.)      *)
Zeroes(flags, start, index) ==
  LET upto[k \in 0 .. (index - start) \div NumItems] ==
        LET last == IF k = 0 THEN [run |-> 0, longest |-> 0, total |-> 0]
                             ELSE upto[k - 1]
            run  == IF flags[start + k * NumItems] THEN 0 ELSE last.run + 1
        IN [run     |-> run,
            longest |-> IF run > last.longest THEN run ELSE last.longest,
            total   |-> last.total + IF flags[start + k * NumItems] THEN 0 ELSE 1]
  IN upto[(index - start) \div NumItems]

CheckIfMemberFor(flags, index, maxhistory, maxcontinuous, maxtotal, soft) ==
  IF maxhistory = 0 THEN flags[index]
  ELSE LET start == index - maxhistory
           z     == Zeroes(flags, IF start < 0 THEN 0 ELSE start, index)
       IN /\ start >= 0 \/ soft
          /\ maxcontinuous >= 0 => z.longest <= maxcontinuous
          /\ maxtotal >= 0 => z.total <= maxtotal

(* One condition, with its flags, for the pair (oldindex, newindex).       *)
Fulfilled(c, flags, oldindex, newindex) ==
  LET p         == AddCondition(c)
      myhistory == IF p[1] < 0 THEN newindex - oldindex ELSE p[1] * NumItems
      index     == IF c.type \in OldTypes THEN oldindex ELSE newindex
      result    == CheckIfMemberFor(flags, index, myhistory, p[2], p[3], c.softhistory)
  IN IF c.negate THEN ~result ELSE result

(* FALSE iff a condition with this consequence is not fulfilled.           *)
CheckTCFCondition(conditions, flags, oldindex, newindex, consequence) ==
  \A k \in DOMAIN conditions :
    conditions[k].consequence = consequence =>
      Fulfilled(conditions[k], flags[k], oldindex, newindex)

DoICare(conditions, flags, oldindex, newindex) ==
  IF ~CheckTCFCondition(conditions, flags, oldindex, newindex, "UncareRemaining")
  THEN "UncareRemaining"
  ELSE IF ~CheckTCFCondition(conditions, flags, oldindex, newindex, "UncareThis")
  THEN "UncareThis"
  ELSE "NoConsequence"

(* The consequence quickCorrelate reports.                                 *)
QuickCorrelate(conditions, flags, oldindex, newindex) ==
  IF ~CheckTCFCondition(conditions, flags, oldindex, newindex, "ValueRemaining")
  THEN "ValueRemaining"
  ELSE IF ~CheckTCFCondition(conditions, flags, oldindex, newindex, "ValueThis")
  THEN "ValueThis"
  ELSE "NoConsequence"

=============================================================================
