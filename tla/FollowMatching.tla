---------------------------- MODULE FollowMatching ----------------------------
(***************************************************************************)
(* How TMSDFollow finds out which atom of the group now is at which of the *)
(* positions of the last frame: the loop of internalComplicatedAddToTCF in *)
(* actiontmsdfollow.cpp, for a group that has as many members as there are *)
(* positions, and the Hungarian method in its place.                       *)
(*                                                                         *)
(* Atoms and positions are numbered from 1.  One step is one turn of the   *)
(* loop, that is, one atom.  The distances, floats in the code, are any    *)
(* matrix of multiples of 1 / resolution; 0 in vOccupiedSwitchIndices and  *)
(* vSwitchIndices is the -1 of the code.  Distances of 10000 and more,     *)
(* which getShortDistance does not see, are left out, and so are costs     *)
(* that do not fit an int.                                                 *)
(***************************************************************************)
EXTENDS Integers, FiniteSetsExt

CONSTANTS
  MaxSize,      (* bound on the size of the group                          *)
  MaxDistance,  (* bound on a distance, in units of 1 / resolution         *)
  Resolutions   (* the resolutions to choose from                          *)

ASSUME MatchingAssumption ==
  /\ MaxSize \in Nat \ {0} /\ MaxDistance \in Nat
  /\ \A r \in Resolutions :
       /\ r \in Nat \ {0} /\ MaxDistance < 10000 * r
       /\ (100 * MaxDistance * MaxDistance) \div (r * r) < 2147483647

VARIABLES
  resolution, (* the units of distance in 1, fixed                         *)
  distance,   (* distance[a][p] from atom a to the old position p          *)
  method,     (* "greedy", or one of the Hungarian options                *)
  atom,       (* i of the loop                                             *)
  occupied,   (* vOccupiedSwitchIndices: the atom found for a position     *)
  switch,     (* vSwitchIndices: the position found for an atom            *)
  minDist,    (* vMinDists: the least distance of an atom                  *)
  conflict    (* found_conflict                                            *)

matchingVars == <<resolution, distance, method, atom, occupied, switch, minDist, conflict>>

Methods == {"greedy", "Hungarian", "HungarianSquaredPenalty"}
Members == DOMAIN distance
Matrices(n) == [1 .. n -> [1 .. n -> 0 .. MaxDistance]]

MatchingInit ==
  /\ resolution \in Resolutions
  /\ \E n \in 1 .. MaxSize : distance \in Matrices(n)
  /\ method \in Methods
  /\ atom = 1
  /\ occupied = [p \in Members |-> 0]
  /\ switch = [a \in Members |-> 0]
  /\ minDist = [a \in Members |-> -1]
  /\ conflict = FALSE

(* getShortDistance: the first of the nearest positions, one left out      *)
(* (0: none).                                                              *)
Nearest(a, ignored) ==
  CHOOSE p \in Members \ {ignored} :
    \A q \in Members \ {ignored} :
      /\ distance[a][p] <= distance[a][q]
      /\ distance[a][p] = distance[a][q] => p <= q

(* The position this atom wants and the atom that has it.                  *)
Wanted == Nearest(atom, 0)
Previous == occupied[Wanted]

(* Mutated forms: the nearest position that is free instead of the nearest *)
(* of the others.                                                          *)
NearestFree(a) ==
  CHOOSE p \in Members : occupied[p] = 0 /\
    \A q \in Members : occupied[q] = 0 => distance[a][p] <= distance[a][q]
AltThis_NearestFree == NearestFree(atom)
AltPrevious_NearestFree == NearestFree(Previous)

(* The second best position of each of the two.                            *)
AltThis == Nearest(atom, Wanted)
AltPrevious == Nearest(Previous, switch[Previous])
AltThisAllowed == occupied[AltThis] = 0
AltPreviousAllowed == occupied[AltPrevious] = 0

Magnitude(x) == IF x < 0 THEN -x ELSE x
PreviousDelta == Magnitude(distance[Previous][AltPrevious] - minDist[Previous])
ThisDelta == Magnitude(distance[atom][AltThis] - distance[atom][Wanted])

Looping == method = "greedy" /\ ~conflict /\ atom \in Members

(* vMinDists[i] is set before it is known where atom i will go.            *)
NextAtom ==
  /\ atom' = atom + 1
  /\ minDist' = [minDist EXCEPT ![atom] = distance[atom][Wanted]]
  /\ UNCHANGED <<resolution, distance, method, conflict>>

(* Nobody has the position.                                                *)
TakeWanted ==
  /\ Looping
  /\ Previous = 0
  /\ occupied' = [occupied EXCEPT ![Wanted] = atom]
  /\ switch' = [switch EXCEPT ![atom] = Wanted]
  /\ NextAtom

(* Mutated form: the second best distance itself is compared.              *)
PreviousGivesWay_Distances ==
  AltPreviousAllowed /\
  (AltThisAllowed => distance[Previous][AltPrevious] < distance[atom][AltThis])

(* The previous atom goes to its second best position if only it can, or   *)
(* if that is the smaller movement.                                        *)
PreviousGivesWay == AltPreviousAllowed /\ (AltThisAllowed => PreviousDelta < ThisDelta)

(* The atom goes to its own second best position.                          *)
MoveThis ==
  /\ Looping
  /\ Previous # 0
  /\ AltThisAllowed
  /\ ~PreviousGivesWay
  /\ occupied' = [occupied EXCEPT ![AltThis] = atom]
  /\ switch' = [switch EXCEPT ![atom] = AltThis]
  /\ NextAtom

(* Mutated form: the position of the previous atom is not noted for it.    *)
MovePrevious_SwitchKept ==
  /\ Looping
  /\ Previous # 0
  /\ PreviousGivesWay
  /\ occupied' = [occupied EXCEPT ![AltPrevious] = Previous, ![Wanted] = atom]
  /\ switch' = [switch EXCEPT ![atom] = Wanted]
  /\ NextAtom

(* The previous atom makes room.                                           *)
MovePrevious ==
  /\ Looping
  /\ Previous # 0
  /\ PreviousGivesWay
  /\ occupied' = [occupied EXCEPT ![AltPrevious] = Previous, ![Wanted] = atom]
  /\ switch' = [switch EXCEPT ![Previous] = AltPrevious, ![atom] = Wanted]
  /\ NextAtom

(* Neither second best position is free.                                   *)
GiveUp ==
  /\ Looping
  /\ Previous # 0
  /\ ~AltPreviousAllowed
  /\ ~AltThisAllowed
  /\ conflict' = TRUE
  /\ minDist' = [minDist EXCEPT ![atom] = distance[atom][Wanted]]
  /\ UNCHANGED <<resolution, distance, method, atom, occupied, switch>>

-----------------------------------------------------------------------------
(* getOccupiedSwitchIndicesHungarian.                                      *)
Squared == method = "HungarianSquaredPenalty"

(* dmatrix, and the units of its elements in 1.                            *)
Penalties ==
  [a \in Members |-> [p \in Members |->
     IF Squared THEN distance[a][p] * distance[a][p] ELSE distance[a][p]]]
Scale == IF Squared THEN resolution * resolution ELSE resolution

(* Mutated form: rounded to whole units.                                   *)
Submatrix_Unscaled ==
  LET max == Max({Penalties[a][p] : a, p \in Members}) IN
  [a \in Members |-> [p \in Members |->
     (2 * (max - Penalties[a][p]) + Scale) \div (2 * Scale)]]

(* submatrix: what is left to the largest, in hundredths, rounded to an    *)
(* int.                                                                    *)
Submatrix ==
  LET max == Max({Penalties[a][p] : a, p \in Members}) IN
  [a \in Members |-> [p \in Members |->
     (200 * (max - Penalties[a][p]) + Scale) \div (2 * Scale)]]

(* The total when position p is given to atom f[p].                        *)
Total(f, matrix) == FoldFunction(+, 0, [p \in Members |-> matrix[f[p]][p]])
Assignments == Bijection(Members, Members)

(* dlib finds an assignment of greatest total.                             *)
AssignHungarian ==
  /\ method # "greedy"
  /\ atom \in Members
  /\ LET costs == Submatrix IN
     \E f \in Assignments :
       /\ \A g \in Assignments : Total(g, costs) <= Total(f, costs)
       /\ occupied' = f
  /\ atom' = Cardinality(Members) + 1
  /\ UNCHANGED <<resolution, distance, method, switch, minDist, conflict>>

-----------------------------------------------------------------------------
MatchingNext == TakeWanted \/ MoveThis \/ MovePrevious \/ GiveUp \/ AssignHungarian

MatchingSpec == MatchingInit /\ [][MatchingNext]_matchingVars

-----------------------------------------------------------------------------
(* Types only.                                                             *)
MatchingTypeOK ==
  /\ resolution \in Resolutions
  /\ \E n \in 1 .. MaxSize : distance \in Matrices(n)
  /\ method \in Methods
  /\ atom \in 1 .. Cardinality(Members) + 1
  /\ occupied \in [Members -> Members \union {0}]
  /\ switch \in [Members -> Members \union {0}]
  /\ minDist \in [Members -> -1 .. MaxDistance]
  /\ conflict \in BOOLEAN

(* Each atom dealt with has a position of its own, and the two vectors are *)
(* inverse to each other, after any number of moves.  Without a conflict   *)
(* every atom is followed: each position of the last frame is continued by *)
(* exactly one of them.                                                    *)
OnePositionEach ==
  /\ MatchingTypeOK
  /\ method = "greedy" =>
       /\ \A a \in Members : a < atom => switch[a] \in Members /\ occupied[switch[a]] = a
       /\ \A p \in Members : occupied[p] # 0 => occupied[p] < atom /\ switch[occupied[p]] = p
  /\ ~conflict /\ atom \notin Members => occupied \in Assignments

(* vMinDists of an atom that has been moved is not updated (line 162), but *)
(* it is never compared: an atom that gives way is at its nearest position *)
(* and so what is weighed is the distance it is from where it is.          *)
MovementIsReal ==
  Looping /\ Previous # 0 /\ AltPreviousAllowed =>
    minDist[Previous] = distance[Previous][switch[Previous]]

(* An atom ends at its nearest position or at the nearest of the others,   *)
(* however many atoms want the same one.                                   *)
FirstOrSecondBest ==
  method = "greedy" =>
    \A a \in Members : a < atom =>
      switch[a] = Nearest(a, 0) \/ switch[a] = Nearest(a, Nearest(a, 0))

(* Two atoms are always followed.  The loop moves them as little as any    *)
(* assignment would; by the Hungarian method their penalty may exceed the  *)
(* least by almost 2 hundredths, as each cost is a rounded one.            *)
TwoAtomsMoveLeast ==
  Cardinality(Members) = 2 =>
    /\ ~conflict
    /\ atom \notin Members =>
         \A f \in Assignments :
           LET excess == Total(occupied, Penalties) - Total(f, Penalties) IN
           IF method = "greedy" THEN excess <= 0 ELSE 100 * excess < 2 * Scale
=============================================================================
