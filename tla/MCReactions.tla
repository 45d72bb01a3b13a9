----------------------------- MODULE MCReactions -----------------------------
(***************************************************************************)
(* Instances of Reactions for TLC.  Without coordination tables no action  *)
(* looks at two atoms at once except through the groups, so the long       *)
(* trajectories have one atom; with them one atom has bonds to two centres.*)
(***************************************************************************)
EXTENDS Reactions, TLC

CONSTANTS a1, c1, c2

Centres == {c1, c2}
CentreSymmetry == Permutations(Centres)

(* One atom and a property of its bonds, with every limit in force.        *)
OneAtom ==
  [ParentAtoms |-> {a1}, ShellAtoms |-> {}, CheckCoordinationTable |-> FALSE,
   MinReactantTime |-> 1, MaxReactionTime |-> 3,
   Atoms |-> {a1}, BeforeTime |-> 2, AfterTime |-> 2, BondProperty |-> TRUE,
   ProductMustBe |-> TRUE, ReactantMustBe |-> TRUE, MinProductTime |-> 2,
   Duration |-> 2, Delay |-> 1, FromParentGroup |-> FALSE,
   SuperEvery |-> 1, MaxFrames |-> 6]

(* The bonds of one atom to two centres.                                   *)
TwoCentres ==
  [ParentAtoms |-> Centres, ShellAtoms |-> {a1}, CheckCoordinationTable |-> TRUE,
   MinReactantTime |-> 0, MaxReactionTime |-> 2,
   Atoms |-> {a1}, BeforeTime |-> 1, AfterTime |-> 1, BondProperty |-> FALSE,
   ProductMustBe |-> FALSE, ReactantMustBe |-> FALSE, MinProductTime |-> 0,
   Duration |-> 1, Delay |-> 1, FromParentGroup |-> TRUE,
   SuperEvery |-> 2, MaxFrames |-> 3]

AtomAndTable == {OneAtom, TwoCentres}

(* No limits, and only every second frame is used.                         *)
EverySecondFrame ==
  {[OneAtom EXCEPT !.MinReactantTime = 0, !.MaxReactionTime = 100, !.BondProperty = FALSE,
                   !.ProductMustBe = FALSE, !.ReactantMustBe = FALSE, !.MinProductTime = 0,
                   !.Duration = 1, !.Delay = 0, !.SuperEvery = 2, !.MaxFrames = 8]}

=============================================================================
