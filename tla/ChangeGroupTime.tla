--------------------------- MODULE ChangeGroupTime ---------------------------
(***************************************************************************)
(* ActionChangeGroupTime: which atoms have turned from reactants into      *)
(* products, and when.                                                     *)
(*                                                                         *)
(* The four vectors of iterations and the flags have one entry per atom of *)
(* ParentGroup or, with CheckCoordinationTable, one per atom of            *)
(* ParentGroup and atom of ShellGroup: then an atom is a reactant of one   *)
(* centre while it is in the centre's coordination table.  0 is "not       *)
(* entered", iterations start at 1.                                        *)
(***************************************************************************)
EXTENDS ReactionSettings

VARIABLES
  entered,        (* mvFirstEntered, mvContinuousBeforeLeaving and          *)
                  (*   mvLastEntered of each entry                          *)
  memberBefore,   (* mvMemberBefore: it was a reactant at the last frame    *)
  reported        (* the lines printed so far                               *)

changeVars == <<entered, memberBefore, reported>>

(* The entries of the vectors.                                              *)
Entries ==
  IF CheckCoordinationTable THEN [centre : ParentAtoms, atom : ShellAtoms]
  ELSE {[centre |-> a, atom |-> a] : a \in ParentAtoms}

NeverEntered == [first |-> 0, continuous |-> 0, last |-> 0]

ChangeInit ==
  /\ entered = [e \in Entries |-> NeverEntered]
  /\ memberBefore = [e \in Entries |-> FALSE]
  /\ reported = {}

(* The times of an entry once it was looked for in the reactants.          *)
Entered(e, it, reactants) ==
  IF e \notin reactants THEN entered[e]
  ELSE IF memberBefore[e] THEN [entered[e] EXCEPT !.last = it]
  ELSE [first      |-> IF entered[e].first = 0 THEN it ELSE entered[e].first,
        continuous |-> it,
        last       |-> it]

(* Mutated form: CannotBe is looked at before the reactants.               *)
Allowed_First(e, it, reactants, cannotBe) ==
  Entered(e, it, IF CheckCoordinationTable THEN reactants \ cannotBe ELSE reactants)

(* Its times after CannotBe, which only the coordination tables ask for.   *)
Allowed(e, it, reactants, cannotBe) ==
  IF CheckCoordinationTable /\ e \in cannotBe THEN NeverEntered
  ELSE Entered(e, it, reactants)

(* A product that was a reactant before.                                   *)
Reacted(e, it, f) ==
  LET times == Allowed(e, it, f.reactants, f.cannotBe)
  IN e \in f.products /\ times.first > 0 /\ times.last > 0

SatisfyPrintConstraints(e, it, f) ==
  LET times == Allowed(e, it, f.reactants, f.cannotBe)
  IN times.last - times.first >= MinReactantTime /\ it - times.last <= MaxReactionTime

(* The entries printed, and fed to the actions, at this frame.             *)
Changed(it, f) ==
  {e \in Entries : Reacted(e, it, f) /\ SatisfyPrintConstraints(e, it, f)}

Line(e, it, f) ==
  [entry |-> e, product |-> it, times |-> Allowed(e, it, f.reactants, f.cannotBe)]

(* internalAction at iteration it of frame f.                              *)
ChangeGroupTimeAction(it, f) ==
  /\ entered' = [e \in Entries |->
       IF Reacted(e, it, f) THEN NeverEntered
       ELSE Allowed(e, it, f.reactants, f.cannotBe)]
  /\ memberBefore' = [e \in Entries |-> e \in f.reactants]
  /\ reported' = reported \cup {Line(e, it, f) : e \in Changed(it, f)}

=============================================================================
