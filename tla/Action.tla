------------------------------- MODULE Action -------------------------------
(***************************************************************************)
(* Action::action, through which the main loop calls every action: which   *)
(* of the frames that are processed an action counts and handles.          *)
(* Printing changes no state but that of the output files and is left out. *)
(* The settings are chosen when the program starts.                        *)
(***************************************************************************)
EXTENDS Integers, Sequences

CONSTANTS
  Settings    (* the settings to choose from: records with (here)          *)
              (*   Every              mEvery                               *)
              (*   MinCount           mMinCount                            *)
              (*   MinTimestepNumber  mMinTimestepNumber, set on a restart *)
              (*   IfGroup            mIfGroupEmpty or mIfGroupNotEmpty    *)

ASSUME ActionAssumption ==
  \A s \in Settings :
    /\ s.Every \in Nat \ {0} /\ s.MinCount \in Nat
    /\ s.MinTimestepNumber \in Int /\ s.IfGroup \in BOOLEAN

VARIABLES
  settings,   (* those of this run of the program                           *)
  mCount,     (* frames counted                                             *)
  handled     (* history: loopcount of each call of internalAction          *)

actionVars == <<mCount, handled>>

Every == settings.Every
MinCount == settings.MinCount
MinTimestepNumber == settings.MinTimestepNumber
IfGroup == settings.IfGroup

ActionInit == mCount = 0 /\ handled = <<>>

(* Mutated form: the frames are counted from one, not from zero.           *)
Counts_FromOne(total) == (total + 1) % Every = 0

Counts(total) == total % Every = 0

(* The frame is left out: mEvery, or the group that is (not) empty.        *)
PassOver(total) ==
  /\ IfGroup \/ ~Counts(total)
  /\ UNCHANGED actionVars

Handle(total, number, iteration) ==
  /\ Counts(total)
  /\ mCount' = mCount + 1
  /\ handled' = IF mCount' >= MinCount /\ number >= MinTimestepNumber
                THEN Append(handled, iteration) ELSE handled

ActionStep(total, number, iteration) ==
  PassOver(total) \/ Handle(total, number, iteration)

=============================================================================
