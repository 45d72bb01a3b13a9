--------------------------- MODULE ReactionSettings ---------------------------
(***************************************************************************)
(* The options of the three actions of the reaction analysis, chosen once, *)
(* when the configuration is read, among Settings.                         *)
(***************************************************************************)
EXTENDS Integers

CONSTANT Settings

VARIABLE settings

(* ChangeGroupTime                                                         *)
ParentAtoms     == settings.ParentAtoms      \* ParentGroup, which is static
ShellAtoms      == settings.ShellAtoms       \* ShellGroup, which is static
CheckCoordinationTable == settings.CheckCoordinationTable
MinReactantTime == settings.MinReactantTime  \* mMinReactantTime
MaxReactionTime == settings.MaxReactionTime  \* mMaxReactionTime

(* WhenGroupChanged                                                        *)
Atoms           == settings.Atoms            \* mpGroup, whose size is constant
BeforeTime      == settings.BeforeTime       \* mBeforeTime
AfterTime       == settings.AfterTime        \* mAfterTime
BondProperty    == settings.BondProperty     \* bond0, ..., bond3
ProductMustBe   == settings.ProductMustBe    \* mpProductMustBe is given
ReactantMustBe  == settings.ReactantMustBe   \* mpReactantMustBe is given
MinProductTime  == settings.MinProductTime   \* mMinProductTime

(* WhenGroupChangedDefineGroup                                             *)
Duration        == settings.Duration         \* mDuration
Delay           == settings.Delay            \* mDelay
FromParentGroup == settings.FromParentGroup  \* mParentGroup is given

(* The main loop                                                           *)
SuperEvery      == settings.SuperEvery       \* every SuperEvery-th frame is used
MaxFrames       == settings.MaxFrames        \* bound: length of the trajectory

ASSUME SettingsAssumption ==
  \A s \in Settings :
    /\ {s.MinReactantTime, s.MaxReactionTime, s.BeforeTime, s.AfterTime,
        s.Duration, s.Delay, s.MaxFrames} \subseteq Nat
    /\ s.SuperEvery \in Nat \ {0} /\ s.MinProductTime \in Int
    /\ {s.CheckCoordinationTable, s.BondProperty, s.ProductMustBe,
        s.ReactantMustBe, s.FromParentGroup} \subseteq BOOLEAN
(* addNewChange throws for an atom that is not in the group it saves.      *)
ASSUME GroupsAssumption ==
  \A s \in Settings :
    (IF s.CheckCoordinationTable THEN s.ShellAtoms ELSE s.ParentAtoms) \subseteq s.Atoms

=============================================================================
